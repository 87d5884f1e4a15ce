\* Two apps, of which one creates the private channel, two event listeners, a
\* context listener, a remote agent.
SPECIFICATION Spec
CONSTANTS
    Instances = {i1, i2}
    UserIds = {}
    PrivateIds = {p1}
    Agents = {g1}
    NoInstance = NoInstance
    NoChannel = NoChannel
    Bridge = Bridge
    EventListeners = {e1, e2}
    ContextListeners = {l1}
    AnyEvent = AnyEvent
    Creators = {i1}
    Wanted = {AnyEvent}
    Remote = {"onUnsubscribe"}
    NoListener = NoListener
    NoEvent = NoEvent
INVARIANTS
    
    OnlyFounderHears
PROPERTIES
    EventsArrive
CHECK_DEADLOCK FALSE
