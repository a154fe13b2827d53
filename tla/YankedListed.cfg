CONSTANTS
    u1 = u1
    u2 = u2
    u3 = u3
    y1 = y1
    y2 = y2
    b1 = b1
    b2 = b2
    NoFile = NoFile
    Missing = Missing
    Truncated = Truncated
    Free = Free
    Uploads = {u1}
    Yanks = {y1}
    MaxCrashes = 0
    Names = {1}
    Numbers = {1}
    Platforms = {1}
    Ruby = 1
    Prerelease = {}
    Alike = {}
    Builds = {b1}
SPECIFICATION Spec
INVARIANT YankedIsUnlisted
CHECK_DEADLOCK FALSE
