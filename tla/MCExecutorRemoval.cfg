SPECIFICATION RemovalSpec
CONSTANTS
    NoAnswer = NoAnswer
    Nobody = Nobody
    Observation = {o1, o2}
    Ticket = {k1, k2}
    Attempt = {}
    TTL = 2
    MaxClock = 2
    MaxBoots = 1
    MaxEpoch = 1
SYMMETRY TokenSymmetry
INVARIANTS
    RemovalTypeOK
    RequestRestsOnSaved
    NothingAskedWhileRemovable
    RequestOnRecord
    DeletedIsGone
PROPERTY ImplementsCustody
CHECK_DEADLOCK FALSE
