SPECIFICATION Spec
CONSTANTS
    Kinds = {"iocost", "hashd"}
    MaxInst = 2
    MaxCalls = 1
    Faults = {"agentDies"}
CHECK_DEADLOCK FALSE
PROPERTIES CallsEnd
