CONSTANTS
    u1 = u1
    u2 = u2
    p1 = p1
    p2 = p2
    Admin = Admin
    None = None
    Generated = Generated
    Users = {Admin, u1, u2}
    Passwords = {p1, p2, Generated}
    Configs <- ConfigChoices
    r1 = r1
    r2 = r2
    r3 = r3
    Requests = {r1, r2, r3}
    MaxStarts = 2
SPECIFICATION Spec
INVARIANTS
    TypeOK
    OnlyConfigured
    
    LossNeedsOverlap
SYMMETRY Interchangeable
CHECK_DEADLOCK FALSE
