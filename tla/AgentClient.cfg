\* Two requests, two connections, one event.
SPECIFICATION Spec
CONSTANTS
    Requests = {r1, r2}
    r1 = r1
    r2 = r2
    KindOf <- MCKindOf
    MaxConnections = 2
    MaxEvents = 1
INVARIANTS
    PendingIsUnderway
    LossFailsWaiters
    AnswersMatchAttempt
PROPERTIES
    RequestsEnd
CHECK_DEADLOCK FALSE
