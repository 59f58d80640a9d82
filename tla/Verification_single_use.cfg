\* Two verify requests with one token.
CONSTANTS
    Workers = {w1, w2}
    Users = {u1}
    Emails = {e1}
    Tokens = {t1}
    TTL = 0
    MinInterval = 0
    MaxPerDay = 3
    Day = 1
    BatchSize = 1
    MaxTime = 1
    MaxLatency = 1
SPECIFICATION Spec
INVARIANT SingleUse

