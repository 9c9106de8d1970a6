SPECIFICATION FairAllocationSpec
CONSTANTS
    Nobody = Nobody
    Consumer = {c1}
    Pass = {p1}
    Driver = {d1, d2}
INVARIANTS
    AllocationTypeOK
    AllocationKeepsSource
PROPERTIES
    CreatedOnce
    StoppedNeverCreates
    StoppedNeverExchanges
    SandboxIsFound
CHECK_DEADLOCK FALSE
