CONSTANTS
    Intv = 2
    Ret = 2
    RetLong = 4
    Retries = 1
    StartAt = 20
    MaxTime = 5
    MaxFaults = 1
    MaxRestarts = 1
    Strides = {1, 2}
    Slots = 3
    MaxFills = 3
    Keep = 2
    BadLines = {4}
    QuietLines = {2}
    MaxLines = 5
    MaxScrolls = 2
    Granule = 2
    Settle = 3
    SaveTime = 1
    MaxClock = 8
    MaxWrites = 3
    Vals = {1, 2}
    CpusetOn = FALSE
    MaxChanges = 1
    MaxDrifts = 1
    MaxSliceFaults = 1
    MaxAgents = 2
SPECIFICATION Spec
INVARIANTS RetentionKept GraphExact JournalShown FollowsFile
PROPERTIES SlicesServed AgentExits
CHECK_DEADLOCK FALSE
