\* Two opens, two launches, an external handler and two websockets.
SPECIFICATION Spec
CONSTANTS
    Opens = {o1, o2}
    LaunchUuids = {u1, u2}
    OwnUuids = {e1}
    Sockets = {s1, s2}
    InstanceIds = {d1}
    NoUuid = NoUuid
    NoSocket = NoSocket
    NoId = NoId
INVARIANTS
    TypeOK
    PendingIsAwaited
    ConnectedHasSession
    ConnectionIsSession
PROPERTY LaunchesEnd
CHECK_DEADLOCK FALSE
