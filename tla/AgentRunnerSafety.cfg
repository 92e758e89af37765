CONSTANTS
    Cmds <- MCCmds
    BenchEdits <- MCBenchEdits
    SliceEdits <- MCSliceEdits
    OomdEdits <- MCOomdEdits
    InitDisks <- MCInitDisks
    Garbage = Garbage
    SeqMax = 3
    ForceRunning = FALSE
    EnforceIo = TRUE
    EnforceOomd = TRUE
    EnforceAll = TRUE
    Faults = {"exit", "panic", "ack", "refresh", "result", "apply", "bench", "loads", "garbage"}
    MaxEdits = 2
    MaxStarts = 2
SPECIFICATION Spec
INVARIANTS IoCostFollowsKnobs OomdGuards
PROPERTIES RecordsOnlyWanted
CHECK_DEADLOCK FALSE
