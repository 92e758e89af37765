SPECIFICATION Spec
CONSTANTS
    Kinds = {"iocost", "hashd"}
    MaxInst = 2
    MaxCalls = 2
    Faults = {"agentDies", "timeout"}
CHECK_DEADLOCK FALSE
INVARIANTS ResultIsOwn StoppedForGood NothingLeft
PROPERTIES BarrierMeansSeen
