\* Two resends at the same time.
CONSTANTS
    Workers = {w1, w2}
    Users = {u1}
    Emails = {e1}
    Tokens = {t1, t2, t3}
    TTL = 0
    MinInterval = 1
    MaxPerDay = 3
    Day = 4
    BatchSize = 1
    MaxTime = 3
    MaxLatency = 1
SPECIFICATION Spec
INVARIANT SendsSpaced

