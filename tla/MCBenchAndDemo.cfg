CONSTANTS
    CmdLines <- MCCmdLines
    Others <- MCOthers
    JobIds = {"none", "a", "b"}
    Models <- MCModels
    MaxOthers = 1
    MaxCrashes = 1
    MaxFails = 1
    MaxKeys = 2
    MaxAgentFaults = 1
    Lines <- MCLines
    Index = "index"
    MaxClicks = 3
    MaxTimeouts = 1
    MaxAgents = 1
    MaxSeq = 2
    Full = 320
    Grain = 16
    Saturations <- MCSaturations
    Period = 2
    MinDur = 2
    MaxDur = 3
    Converges = 1
    Rounds = 2
    MaxLate = 1
    Comps = {"c1", "c2"}
    NrTestFiles = 2
    UnitLines = 1
    NrToKeep = 3
    Times <- MCTimes
    LogCapacity = 1
    MaxLines = 5
    MaxStarts = 3
    MaxLogFaults = 2
    Profiles = {0, 16}
    SystemMemory = 64
    Reals = {22, 30, 33, 37}
    ErrPct = 10
    StoreLoops = 2
    InnerRetries = 1
    OuterRetries = 2
    MaxMoves = 4
    MaxStoreFaults = 1
    HogRuns = 3
    SloperSlots = 2
    MaxHogFaults = 2
    MaxHogDeaths = 1
SPECIFICATION Spec
INVARIANTS RecordsSound NoneLeftRunning MemoryFound FilesSound JobsOwnEntries
PROPERTIES NothingForgotten JobsCompleted DemoViewFollows OffHeeded ArrivesPrepared
CHECK_DEADLOCK FALSE
