\* Two apps that may each raise and handle the intent, three handlers of two
\* priorities, two raises.
SPECIFICATION Spec
CONSTANTS
    h3 = h3
    Instances = {i1, i2}
    Handlers = {h1, h2, h3}
    Priority <- MCPriority
    Raises = {r1, r2}
    NoInstance = NoInstance
    NoRaise = NoRaise
INVARIANTS
    AwaitedAnswersAreFound
    ResultInTimeCounts
    HandlersInOrder
PROPERTY RaisesEnd
CHECK_DEADLOCK FALSE
