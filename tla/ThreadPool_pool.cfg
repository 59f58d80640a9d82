\* Three workers, two slots, four jobs: the ring wraps, fills and drains.
CONSTANTS
    N = 3
    Capacity = 2
    Jobs = {j1, j2, j3, j4}
    None = None
SPECIFICATION FairSpec
INVARIANTS NoIdleBacklog FreedOnlyWhenQuiet
PROPERTIES ImplementsQueue ShutdownEnds
