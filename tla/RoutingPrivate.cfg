\* Two apps, the bridge with one remote agent, one private channel, one listener,
\* one broadcast, one context of the admin or of the channels state.
SPECIFICATION RoutingSpec
CONSTANTS
    Instances = {i1, i2}
    InstanceIds = {}
    UserIds = {}
    DefaultUserIds = {}
    AppIds = {}
    PrivateIds = {p1}
    Tokens = {}
    Agents = {a1}
    ContextTypes = {ct1}
    Contexts = {1, x1}
    MadeUpEvents = {}
    MadeUp = MadeUp
    NoInstance = NoInstance
    NoChannel = NoChannel
    NoToken = NoToken
    NoContext = NoContext
    Anyone = Anyone
    Bridge = Bridge
    ListenerUuids = {l1}
    AnyType = AnyType
    TypeOf <- MCTypeOf
    MaxBroadcasts = 1
    NoListener = NoListener
INVARIANTS
    NoListenerOfEndedSession
PROPERTY BroadcastsArrive
CHECK_DEADLOCK FALSE
