CONSTANTS
    u1 = u1
    u2 = u2
    y1 = y1
    y2 = y2
    b1 = b1
    Absent = Absent
    Free = Free
    Unset = Unset
    Numbers = {1, 2}
    Platforms = {"ruby"}
    Alike = {}
    Ruby = "ruby"
    Builds = {b1}
    Uploads = {u1, u2}
    Yanks = {}
SPECIFICATION Spec
INVARIANT LineEndsInChecksum
CHECK_DEADLOCK FALSE
