\* As Objects.cfg, but with a string whose length does not fit in two bytes.
CONSTANTS
    Key = {ka, kb, kc}
    Value = {1, 2}
    None = None
    Limit = 2
    Base = 2
    Capacity = 10
    Texts <- MCLongTexts
    MaxItems = 3
    ProbeCount = 3
    URLs = 2
    Durations = {0, 3, 4, 9}
    Ms = 2
    Half = 2
    Wide = 16
    ServiceName <- MCServiceName
    NameBack <- MCNameBack
    Instance <- MCInstance
    Foreign <- MCForeign
    Words <- MCWords
    Handler = {n1, n2}
    ConnId = {n1, n2}
    SvcName = {"", "web"}
    MaxClients = 2
    Addr = {a1, a2}
    MaxCmds = 4
    Redis = {r1, r2}
    Prefix <- MCPrefix
    SharedKeyPrefix <- MCSharedKeyPrefix
    ConfigPrefix <- MCConfigPrefix
    CacheKey <- MCCacheKey
    CacheValue = {v1}
    Nil = Nil
    Error = Error
    Gone = Gone
SPECIFICATION Spec
INVARIANT RoundTrip
CHECK_DEADLOCK FALSE
