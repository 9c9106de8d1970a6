SPECIFICATION CatalogSpec
CONSTANTS
    Nobody = Nobody
    Consumer = {c1, c2}
    Pass = {p1, p2, p3}
SYMMETRY CatalogSymmetry
INVARIANTS
    ReadyIsSaved
    GivenIsKept
PROPERTIES
    RemovalIsFinal
    ImplementsLending
CHECK_DEADLOCK FALSE
