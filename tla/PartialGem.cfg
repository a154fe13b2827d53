CONSTANTS
    g1 = g1
    g2 = g2
    g3 = g3
    s1 = s1
    s2 = s2
    None = None
    GemRequests = {g1, g2}
    SpecRequests = {s1}
    Parts = 2
    MaxRefusals = 0
    MaxBreaks = 0
    MaxKills = 0
SPECIFICATION Spec
INVARIANT AnsweredIsTheGem
CHECK_DEADLOCK FALSE
