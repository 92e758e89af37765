CONSTANTS
    Ids = {w1, w2, w3}
    Timeout = 1
    MaxTime = 2
    MayPanic = TRUE
SPECIFICATION FairSpec
INVARIANTS Accounted IdleReaped
PROPERTIES WorkExecuted
CHECK_DEADLOCK FALSE
