\* Two connections, a queue of one, handlers of one of them that may never return.
CONSTANTS
    None = None
    Conn = {k1, k2}
    OutgoingCap = 1
    IdSpace = 4
    Stuck = {k1}
SPECIFICATION FairSpec
INVARIANTS TypeOK OpenConnTracked LeakOnlyWhenFull CleanShutdown
PROPERTIES ShutdownReturns EverythingCloses
CHECK_DEADLOCK FALSE
