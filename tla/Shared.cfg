\* Framing: two writers, three packets.  InMem: two goroutines, two keys, two items.
\* Logger: two goroutines, two files and one place in the queue, two days, levels 0 and INFO.
\* Balancers: two goroutines, three calls.
\* Factory: two goroutines, two connections, two names, three clients.
CONSTANTS
    Writer = {1, 2}
    Packet <- MCPacket
    LenBase = 2
    MaxPackets = 3
    User = {u1, u2}
    Name = {ka, kb}
    MaxItems = 2
    File = {f1, f2}
    Cap = 1
    MaxDay = 2
    DiskFails = TRUE
    Logging = {g1, g2}
    LevelName = {"INFO"}
    Stderr = Stderr
    Client = {c1, c2}
    Service = {"none", "one", "three"}
    Size <- MCSize
    Stream = {t}
    MaxCalls = 3
    Handler = {h1, h2}
    ConnId = {n1, n2}
    SvcName = {sa, sb}
    MaxClients = 3
SPECIFICATION Spec
INVARIANTS SharedTypeOK InOrder PanicTakesTwo ClientsAccounted
PROPERTIES AllHandled LossExplained LineLossExplained CleanerServes RollsOver StaysBound
CHECK_DEADLOCK FALSE
