\* A resend and a verify at the same time.
CONSTANTS
    Workers = {w1, w2}
    Users = {u1}
    Emails = {e1}
    Tokens = {t1, t2}
    TTL = 1
    MinInterval = 0
    MaxPerDay = 3
    Day = 1
    BatchSize = 1
    MaxTime = 2
    MaxLatency = 1
SPECIFICATION Spec
PROPERTY TokensOnlyForPending

