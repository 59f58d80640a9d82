\* Two users with a session each, or one session that rotates twice; two seconds, so that
\* families expire and are swept.
CONSTANTS
    w1 = w1 w2 = w2 u1 = u1 u2 = u2 p1 = p1 p2 = p2
    f1 = f1 f2 = f2 t1 = t1 t2 = t2 t3 = t3
    Workers = {w1, w2}
    Users = {u1, u2}
    Passwords = {p1}
    Families = {f1, f2}
    Tokens = {t1, t2, t3}
    IdleTTL = 1
    AbsoluteTTL = 0
    AccessTTL = 0
    RevokedGrace = 0
    BatchSize = 1
    MaxTime = 2
    StoreFaults = TRUE
SPECIFICATION MCSpec
SYMMETRY Symmetry
INVARIANTS TokenChain AbsoluteCap
PROPERTIES OnlyOwnerOrReuseRevokes SweepRemovesOnlyDead ImplementsContract
