CONSTANTS
    Cmds <- MCCmds
    BenchEdits <- MCBenchEdits
    SliceEdits <- MCSliceEdits
    OomdEdits <- MCOomdEdits
    InitDisks <- MCInitDisks
    Garbage = Garbage
    SeqMax = 3
    ForceRunning = FALSE
    EnforceIo = TRUE
    EnforceOomd = TRUE
    EnforceAll = TRUE
    Faults = {}
    MaxEdits = 2
    MaxStarts = 1
SPECIFICATION Spec
INVARIANTS AllWorkloadsStoppedDuringBench
CHECK_DEADLOCK FALSE
