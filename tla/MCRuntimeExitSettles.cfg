SPECIFICATION FairKeptSpec
CONSTANTS
    Stop = {s1}
    Pass = {p1}
    Recovery = Recovery
    Nobody = Nobody
    Bounded = TRUE
    MaxFaults = 1
PROPERTY
    SavedRemainsGo
CHECK_DEADLOCK FALSE
