\* An entry that replaces an evicted one.
CONSTANTS
    Workers = {w1}
    Keys = {k1, k2}
    Unbudgeted = {}
    NoKey = NoKey
    Caps = {1}
    PerMinute = 1
    Minute = 2
    MaxAdmits = 3
    MaxTime = 2
SPECIFICATION Spec
CHECK_DEADLOCK FALSE
INVARIANT ProbeAlwaysFindsKeys
