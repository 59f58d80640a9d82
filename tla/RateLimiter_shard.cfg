\* Two keys in a shard with room for one or both, wherever they hash to, and a
\* key without a budget.
CONSTANTS
    Workers = {w1, w2}
    Keys = {k1, k2, k0}
    Unbudgeted = {k0}
    NoKey = NoKey
    Caps = {1, 2}
    PerMinute = 1
    Minute = 2
    MaxAdmits = 3
    MaxTime = 4
SPECIFICATION MCSpec
SYMMETRY Symmetry
CHECK_DEADLOCK FALSE
INVARIANTS BurstBound
PROPERTIES RefusalsDeserved ImplementsBuckets
