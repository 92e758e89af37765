CONSTANTS
    Cmds <- MCCmds
    BenchEdits <- MCBenchEdits
    SliceEdits <- MCSliceEdits
    OomdEdits <- MCOomdEdits
    InitDisks <- MCInitDisks
    Garbage = Garbage
    SeqMax = 3
    ForceRunning = FALSE
    EnforceIo = TRUE
    EnforceOomd = TRUE
    EnforceAll = TRUE
    Faults = {"exit", "panic", "ack", "knobs", "iocost_new", "iocost_start", "hashd_start", "loads", "refresh", "result", "save", "apply", "bench", "slices", "garbage"}
    MaxEdits = 2
    MaxStarts = 2
SPECIFICATION Spec
INVARIANTS BenchExclusive
PROPERTIES ImplementsLifecycle
CHECK_DEADLOCK FALSE
