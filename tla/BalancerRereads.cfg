\* Two calls of one goroutine are enough.
CONSTANTS
    Writer = {1, 2}
    Packet <- MCPacket
    LenBase = 2
    MaxPackets = 3
    User = {u1, u2}
    Name = {ka, kb}
    MaxItems = 2
    File = {f1, f2}
    Cap = 1
    MaxDay = 2
    DiskFails = TRUE
    Logging = {g1, g2}
    LevelName = {"FATAL", "INFO"}
    Stderr = Stderr
    Client = {c1}
    Service = {"none", "one", "three"}
    Size <- MCSize
    Stream = {t}
    MaxCalls = 2
    Handler = {h1, h2}
    ConnId = {n1, n2}
    SvcName = {sa, sb}
    MaxClients = 0
SPECIFICATION Spec
INVARIANTS ReadsOwnConfig
CHECK_DEADLOCK FALSE
