SPECIFICATION LaunchSpec
CONSTANTS
    Nobody = Nobody
    Claim = {c1, c2}
SYMMETRY ClaimSymmetry
PROPERTY
    CancelledIsFinal
CHECK_DEADLOCK FALSE
