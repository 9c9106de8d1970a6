SPECIFICATION ExitSpec
CONSTANTS
    Stop = {s1}
    Pass = {p1}
    Recovery = Recovery
    Nobody = Nobody
    Bounded = TRUE
    MaxFaults = 1
INVARIANTS
    ExitTypeOK
    UnlistedIsSaved
    StoppedRunsNoMore
    LostOnlyIfLost
PROPERTIES
    PlannedStopIsNoCrash
    ImplementsCustody
CHECK_DEADLOCK FALSE
