\* By hand, with -continue: each statement of the documents is refuted.
CONSTANTS
    N = 1
    Capacity = 1
    None = None
    Conns = {c1}
    Tables = 2
SPECIFICATION Spec
INVARIANTS NothingFreedUnderWorker PoolNotUsedAfterFree TornDownAlike
PROPERTY SecondSignalExits
