CONSTANTS
    u1 = u1
    u2 = u2
    u3 = u3
    y1 = y1
    y2 = y2
    b1 = b1
    b2 = b2
    NoFile = NoFile
    Missing = Missing
    Truncated = Truncated
    Free = Free
    Uploads = {u1, u2}
    Yanks = {y1}
    MaxCrashes = 2
    Names = {1, 2}
    Numbers = {1, 2, 3}
    Platforms = {2}
    Ruby = 2
    Prerelease = {2}
    Alike <- TwoAlike
    Builds = {b1, b2}
SPECIFICATION Spec
INVARIANTS
    TypeOK
    ListedIsServable
    AckedIsPublished
    CompressedAgrees
    CompressedIsWhole
PROPERTIES
    IsRegistry
SYMMETRY Interchangeable
CHECK_DEADLOCK FALSE
