\* Two controllers: a Start between the two halves of a Stop.
CONSTANTS
    m1 = m1
    m2 = m2
    Controllers = {c1, c2}
    Task <- MCTask
    TaskID <- MCTaskID
    ID <- MCID
    MaxStarts = 2
SPECIFICATION FairSpec
PROPERTIES StopReturns
CHECK_DEADLOCK FALSE
