\* One Connect, one failure, and a Close while reconnect is at work.
CONSTANTS
    Modes = {TRUE}
    ReconnectMax = 1
    Heartbeat = FALSE
    AnyClose = TRUE
    MaxConnects = 1
    MaxCloses = 1
    MaxWrites = 0
    MaxFaults = 1
SPECIFICATION Spec
INVARIANTS CloseCloses
CHECK_DEADLOCK FALSE
