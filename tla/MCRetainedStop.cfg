SPECIFICATION ExitSpec
CONSTANTS
    Stop = {s1}
    Pass = {p1}
    Recovery = Recovery
    Nobody = Nobody
    Bounded = TRUE
    MaxFaults = 1
INVARIANT
    SweptWhateverItsCode
CHECK_DEADLOCK FALSE
