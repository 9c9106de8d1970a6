SPECIFICATION FairRemovalSpec
CONSTANTS
    NoAnswer = NoAnswer
    Nobody = Nobody
    Observation = {o1}
    Ticket = {k1}
    Attempt = {a1}
    TTL = 1
    MaxClock = 2
    MaxBoots = 2
    MaxEpoch = 1
PROPERTIES
    IssuedRemovalSettles
    NoBootUnderRemoval
    ImplementsEvidence
CHECK_DEADLOCK FALSE
