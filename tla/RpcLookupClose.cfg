\* One name, two callers, three calls, one Close.
CONSTANTS
    None = None
    c1 = c1
    c2 = c2
    c3 = c3
    Caller = {c1, c2}
    Name = {"a"}
    Group = {"", "1", "2", "01"}
    Node <- MCNode
    DefaultGroup = "1"
    NodeOf <- MCNodeOf
    GroupOf <- MCGroupOf
    PushAcks <- MCEmptyAck
    MaxCalls = 3
    MaxPush = 0
    MaxCloses = 1
SPECIFICATION Spec
PROPERTIES AckWakesAfterClose
CHECK_DEADLOCK FALSE
