\* Two callers, two calls, one foreign ack, one Close.
CONSTANTS
    None = None
    c1 = c1
    c2 = c2
    c3 = c3
    Caller = {c1, c2}
    Name <- MCName
    Group <- MCGroup
    Node <- MCNode
    DefaultGroup = "1"
    NodeOf <- MCNodeOf
    GroupOf <- MCGroupOf
    PushAcks <- MCPushAcks
    MaxCalls = 2
    MaxPush = 1
    MaxCloses = 1
SPECIFICATION FairSpec

INVARIANTS NameMatches GroupMatches PendingOwned
PROPERTIES AckWakes LookupReturns
CHECK_DEADLOCK FALSE
