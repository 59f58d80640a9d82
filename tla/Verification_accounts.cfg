\* Two workers, one address, four tokens: as many sends as two overlapping
\* resends may and one more; time for tokens to expire and to be swept.
CONSTANTS
    Workers = {w1, w2}
    Users = {u1}
    Emails = {e1}
    Tokens = {t1, t2, t3, t4}
    TTL = 1
    MinInterval = 0
    MaxPerDay = 2
    Day = 2
    BatchSize = 1
    MaxLatency = 1
    MaxTime = 5
SPECIFICATION Spec
SYMMETRY Symmetry
INVARIANTS OneLiveToken ActiveProved SendsBounded
