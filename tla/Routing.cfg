\* Two apps, the bridge, one user channel, two listeners, two broadcasts.
SPECIFICATION RoutingSpec
CONSTANTS
    Instances = {i1, i2}
    InstanceIds = {}
    UserIds = {u1}
    DefaultUserIds = {u1}
    AppIds = {}
    PrivateIds = {}
    Tokens = {}
    Agents = {}
    ContextTypes = {ct1}
    Contexts = {1, 2}
    MadeUpEvents = {}
    MadeUp = MadeUp
    NoInstance = NoInstance
    NoChannel = NoChannel
    NoToken = NoToken
    NoContext = NoContext
    Anyone = Anyone
    Bridge = Bridge
    ListenerUuids = {l1, l2}
    AnyType = AnyType
    TypeOf <- MCTypeOf
    MaxBroadcasts = 2
    NoListener = NoListener
SYMMETRY Symmetric
INVARIANTS
    NoMissedContext
    
CHECK_DEADLOCK FALSE
