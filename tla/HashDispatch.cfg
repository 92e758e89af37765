CONSTANTS
    Ids = {w1, w2}
    Timeout = 1
    MaxTime = 1
    MayPanic = TRUE
    InitConcurrency = 1
    InitParams <- MCInitParams
    Params <- MCParams
    MaxSets = 1
    MaxDone = 1
SPECIFICATION FairSpec
INVARIANTS InFlightExact
PROPERTIES DropReturns LimitEffective
CHECK_DEADLOCK FALSE
