\* Two workers against one account, threshold two.
CONSTANTS
    Workers = {w1, w2}
    Users = {u1}
    Threshold = 2
    Duration = 2
    BatchSize = 1
    MaxLogins = 4
    MaxTime = 5
SPECIFICATION FairSpec
INVARIANTS LocksEarned
PROPERTIES ThresholdLocks LockEndsEarlyOnlyByStaleLogin ExpiredLockCleared
