\* The name of a connected client against "Name assigned by the bridge during
\* the handshake": a counterexample is expected.
SPECIFICATION Spec
CONSTANTS
    Requests = {r1}
    MaxConnections = 2
    MaxMessages = 1
INVARIANTS
    NameIsAssigned
CHECK_DEADLOCK FALSE
