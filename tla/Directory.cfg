\* Two commands, two requests of the admin API, an app id and its qualified
\* form; the server starts and stops at any time.
SPECIFICATION Spec
CONSTANTS
    plain = plain
    qualified = qualified
    Apps = {plain, qualified}
    System = plain
    Base <- MCBase
    Versions = {v1}
    Commands = {c1, c2}
    Server = Server
    Requests = {r1, r2}
    None = None
    NoTxn = NoTxn
SYMMETRY Symmetric
INVARIANTS
    WholeApps
    AnsweredIsKept
CHECK_DEADLOCK FALSE
