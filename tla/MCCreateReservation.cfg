SPECIFICATION CreateSpec
CONSTANTS
    Create = {c1, c2, c3}
    Asker = {k1, k2}
    Restart = {r1, r2}
    Earlier = Earlier
    Nobody = Nobody
SYMMETRY RequestSymmetry
PROPERTIES
    ImplementsDecision
    LosersAreAnswered
CHECK_DEADLOCK FALSE
