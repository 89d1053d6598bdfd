CONSTANTS
    MaxLog = 3
    MaxPauses = 1
    MaxReloads = 1
    MaxFaults = 2
SPECIFICATION LiveSpec
INVARIANTS
    TimelineIsLog
    OneLossIsSurvived
PROPERTIES
    TimelineReachesEnd
CHECK_DEADLOCK FALSE
