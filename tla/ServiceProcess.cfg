CONSTANTS
    r1 = r1
    e1 = e1
    e2 = e2
    d1 = d1
    Calls <- MCCalls
    Others <- MCOthers
    Cleanups <- MCCleanups
    MaxSize = 1
    MaxAttempts = 2
    Limit = 2
    MaxCalls = 2
    MaxFaults = 2
SPECIFICATION FairSpec
INVARIANTS
    TypeOK
    ReferentialIntegrity
    StopsAtLimit
PROPERTIES
    RetriedOnce
    ReturnMeansStored
    RowsKept
    ShutdownHeeded
    SignalEnds
