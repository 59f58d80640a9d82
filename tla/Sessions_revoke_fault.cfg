CONSTANTS
    w1 = w1 w2 = w2 u1 = u1 u2 = u2 p1 = p1 p2 = p2
    f1 = f1 f2 = f2 t1 = t1 t2 = t2 t3 = t3
    Workers = {w1}
    Users = {u1}
    Passwords = {p1}
    Families = {f1}
    Tokens = {t1, t2}
    IdleTTL = 1
    AbsoluteTTL = 3
    AccessTTL = 2
    RevokedGrace = 0
    BatchSize = 1
    MaxTime = 3
    StoreFaults = TRUE
SPECIFICATION Spec
SYMMETRY Symmetry
INVARIANT AcknowledgedEnds
