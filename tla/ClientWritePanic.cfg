\* One Connect, one Write, one Close, without reconnect.
CONSTANTS
    Modes = {FALSE}
    ReconnectMax = 1
    Heartbeat = FALSE
    AnyClose = FALSE
    MaxConnects = 1
    MaxCloses = 1
    MaxWrites = 1
    MaxFaults = 0
SPECIFICATION Spec
INVARIANTS NeverPanics
CHECK_DEADLOCK FALSE
