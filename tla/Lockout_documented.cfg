\* By hand, with -continue: a login that started before the lock, and two
\* wrong passwords at the same time.
CONSTANTS
    Workers = {w1, w2}
    Users = {u1}
    Threshold = 2
    Duration = 2
    BatchSize = 1
    MaxLogins = 4
    MaxTime = 3
SPECIFICATION Spec
PROPERTIES LockHolds EveryMissCounts
