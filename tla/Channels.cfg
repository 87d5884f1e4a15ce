\* Two apps, one user channel, two private ids, two tokens, and an admin who
\* makes up events.
SPECIFICATION Spec
CONSTANTS
    Instances = {i1, i2}
    InstanceIds = {}
    UserIds = {u1}
    DefaultUserIds = {u1}
    AppIds = {}
    PrivateIds = {p1, p2}
    Tokens = {t1, t2}
    Agents = {}
    ContextTypes = {}
    Contexts = {}
    MadeUpEvents = {"joined", "left", "deleted"}
    MadeUp = MadeUp
    NoInstance = NoInstance
    NoChannel = NoChannel
    NoToken = NoToken
    NoContext = NoContext
    Anyone = Anyone
SYMMETRY SymmetricTokens
INVARIANTS
    TypeOK
    MembersAccounted
    CurrentChannelExists
    RightsEndWithChannel
    SubscriberKnows
    PrivateMeansInvited
PROPERTIES
    TokenAdmitsOnce
    KeepsMembership
CHECK_DEADLOCK FALSE
