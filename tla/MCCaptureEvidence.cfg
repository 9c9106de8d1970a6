SPECIFICATION Spec
CONSTANTS
    NoAnswer = NoAnswer
    Observation = {o1, o2, o3}
    TTL = 2
    MaxClock = 3
    MaxBoots = 2
    MaxEpoch = 1
SYMMETRY TokenSymmetry
INVARIANTS
    OrderedRecordIsLatest
    RecordedUnsavedOutranked
    HeardUnsavedOutranked
    UnsavedIsAntichain
PROPERTY LateSavedAnswerSettles
CHECK_DEADLOCK FALSE
