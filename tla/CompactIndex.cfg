CONSTANTS
    u1 = u1
    u2 = u2
    y1 = y1
    y2 = y2
    b1 = b1
    Absent = Absent
    Free = Free
    Unset = Unset
    Numbers = {1}
    Platforms = {"ruby", "java"}
    Alike = {}
    Ruby = "ruby"
    Builds = {b1}
    Uploads = {u1, u2}
    Yanks = {y1, y2}
SPECIFICATION Spec
INVARIANTS
    TypeOK
    EachVersionOnce
    ChecksumCoversInfo
    AckedIsListed
    YankedStaysOut
CHECK_DEADLOCK FALSE
