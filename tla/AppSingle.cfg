\* Two opens of one app that ask for no instanceId.
SPECIFICATION Spec
CONSTANTS
    Opens = {o1, o2}
    LaunchUuids = {u1, u2}
    OwnUuids = {}
    Sockets = {s1, s2}
    InstanceIds = {}
    NoUuid = NoUuid
    NoSocket = NoSocket
    NoId = NoId
SYMMETRY Symmetric
INVARIANT SingleInstance
CHECK_DEADLOCK FALSE
