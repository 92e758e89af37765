CONSTANTS
    Sys = {1}
    Side = {2}
    Inodes = {1, 2, 3, 4}
    CrashMidSave = FALSE
    MaxCmds = 2
    MaxFaults = 1
    MaxCrashes = 1
    MaxOverloads = 1
    Sizes = {1, 2}
    MaxCallFaults = 2
    RpsMax = 15
    Weights = {1, 100}
    Expiry = 3
    MaxHashdTime = 4
    MaxHashdCmds = 2
    MaxHashdFaults = 1
    MaxKnobChanges = 3
    MaxServiceFaults = 1
    Passives = {{}, {"io", "mem", "oomd"}}
    MaxSessions = 1
    MaxWriteFaults = 1
    MaxAsked = 1
SPECIFICATION Spec
INVARIANTS Leftovers BalloonSafety DaemonsAsAsked LeftAsFound
PROPERTIES SideConverges ReportsOfThisLife
CHECK_DEADLOCK FALSE
