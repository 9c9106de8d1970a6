SPECIFICATION FairLaunchSpec
CONSTANTS
    Nobody = Nobody
    Claim = {c1, c2}
INVARIANTS
    LaunchTypeOK
    LostLeftNothing
    KeptIsNamed
    ReadyIsNotFailed
PROPERTIES
    LaunchedOnce
    ImplementsSingleLaunch
    PendingSettles
CHECK_DEADLOCK FALSE
