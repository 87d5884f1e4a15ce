\* One request, two connections, one message of the bridge besides the names
\* it gives and its answers.
SPECIFICATION Spec
CONSTANTS
    Requests = {r1}
    MaxConnections = 2
    MaxMessages = 1
INVARIANTS
    TableFollowsConnection
    OnlyOneOpen
PROPERTIES
    RequestsEnd
    KeepsTrying
    StopsForGood
CHECK_DEADLOCK FALSE
