\* Two workers, a one-slot queue, three connections: refusals, a late submit,
\* stragglers and a full drain all happen.
CONSTANTS
    N = 2
    Capacity = 1
    None = None
    Conns = {c1, c2, c3}
    Tables = 2
SPECIFICATION FairSpec
INVARIANTS SocketOwners ResourcesOutliveWork
PROPERTIES ShutdownCompletes
