\* With and without reconnect: one Connect, two failures, two attempts to reconnect
\* after each; Close is called where it works, after Connect and without reconnect.
CONSTANTS
    Modes = {TRUE, FALSE}
    ReconnectMax = 2
    Heartbeat = TRUE
    AnyClose = FALSE
    MaxConnects = 1
    MaxCloses = 2
    MaxWrites = 1
    MaxFaults = 2
SPECIFICATION FairSpec
INVARIANTS CloseCloses Supervised NoSocketLeak
PROPERTIES CloseReleases ReconnectSettles
CHECK_DEADLOCK FALSE
