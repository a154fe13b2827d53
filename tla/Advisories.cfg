CONSTANTS
    a = a
    b = b
    v1 = v1
    v2 = v2
    bad = bad
    r1 = r1
    Gems = {a, b}
    Versions = {v1, v2, bad}
    Unparsable = {bad}
    Files <- ThreeFiles
    Configs <- ConfigChoices
    Matched <- MatchedFiles
    Requests = {r1}
    MaxTicks = 2
SPECIFICATION Spec
INVARIANTS
    TypeOK
    RefusedForCause
    AdvisedIsRefused
    WorseIsNotAccepted
PROPERTY RefreshEnds
CHECK_DEADLOCK FALSE
