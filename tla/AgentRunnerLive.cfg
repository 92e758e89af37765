CONSTANTS
    Cmds <- MCLiveCmds
    BenchEdits <- MCBenchEdits
    SliceEdits <- MCSliceEdits
    OomdEdits <- MCOomdEdits
    InitDisks <- MCInitDisks
    Garbage = Garbage
    SeqMax = 3
    ForceRunning = FALSE
    EnforceIo = TRUE
    EnforceOomd = TRUE
    EnforceAll = TRUE
    Faults = {"garbage", "loads"}
    MaxEdits = 2
    MaxStarts = 1
SPECIFICATION FairSpec
PROPERTIES HashdServed ConfigEffective
CHECK_DEADLOCK FALSE
