SPECIFICATION LaunchSpec
CONSTANTS
    Nobody = Nobody
    Claim = {c1, c2}
SYMMETRY ClaimSymmetry
INVARIANT
    ExecutorIsFindable
CHECK_DEADLOCK FALSE
