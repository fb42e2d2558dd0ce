\* LRU: three keys in a cache of two.  Streams: bytes of two values, a buffer of
\* ten, three values.  Prober: three attempts with two candidates each.  Instance:
\* int32 of -2..1, uint64 of 0..15.  Server: two connections, three commands on two
\* names and two addresses, two Nacos clients.  Shared: two Redis clients, two
\* prefixes, two keys, one value.
CONSTANTS
    Key = {ka, kb, kc}
    Value = {1, 2}
    None = None
    Limit = 2
    Base = 2
    Capacity = 10
    Texts <- MCTexts
    MaxItems = 3
    ProbeCount = 3
    URLs = 2
    Durations = {0, 3, 4, 9}
    Ms = 2
    Half = 2
    Wide = 16
    ServiceName <- MCServiceName
    NameBack <- MCNameBack
    Instance <- MCInstance
    Foreign <- MCForeign
    Words <- MCWords
    Handler = {n1, n2}
    ConnId = {n1, n2}
    SvcName = {"", "web"}
    MaxClients = 2
    Addr = {a1, a2}
    MaxCmds = 3
    Redis = {r1, r2}
    Prefix <- MCPrefix
    SharedKeyPrefix <- MCSharedKeyPrefix
    ConfigPrefix <- MCConfigPrefix
    CacheKey <- MCCacheKey
    CacheValue = {v1}
    Nil = Nil
    Error = Error
    Gone = Gone
SPECIFICATION Spec
SYMMETRY MCSymmetry
INVARIANTS ObjectsTypeOK RoundTrip EveryProbeCounted MetricFits ReadsBack
PROPERTIES ImplementsLru ImplementsCaches InstanceLossExplained
CHECK_DEADLOCK FALSE
