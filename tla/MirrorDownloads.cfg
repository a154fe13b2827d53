CONSTANTS
    g1 = g1
    g2 = g2
    g3 = g3
    s1 = s1
    s2 = s2
    None = None
    GemRequests = {g1, g2, g3}
    SpecRequests = {s1}
    Parts = 3
    MaxRefusals = 1
    MaxBreaks = 1
    MaxKills = 1
SPECIFICATION Spec
INVARIANTS
    TypeOK
    GemRestsWhole
    SpecRestsFilled
    WholeIsIndexed
    WarmIsServedWhole
SYMMETRY Interchangeable
CHECK_DEADLOCK FALSE
