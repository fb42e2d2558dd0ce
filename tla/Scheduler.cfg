\* The scheduler under its front end: one controller (Initialize and Shutdown
\* from one goroutine), one client, two tasks under one ID, two Starts.
CONSTANTS
    m1 = m1
    m2 = m2
    Controllers = {c1}
    Task <- MCTask
    TaskID <- MCTaskID
    ID <- MCID
    MaxStarts = 2
    Clients = {k1}
    None = None
    Configs <- MCConfigs
SPECIFICATION FairDataSpec
INVARIANTS StopQuiesces OneRunner StartedHasClient
PROPERTIES StopReturns DueTaskRuns CancelEndsStream
CHECK_DEADLOCK FALSE
