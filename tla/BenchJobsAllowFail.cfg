CONSTANTS
    CmdLines <- TwoQos
    Others <- NoOthers
    JobIds = {"none", "a", "b"}
    Models <- OneModel
    MaxOthers = 0
    MaxCrashes = 0
    MaxFails = 1
SPECIFICATION AllowFailSpec
INVARIANT OnlyFailuresSkipped
CHECK_DEADLOCK FALSE
