SPECIFICATION Spec
CONSTANTS
    Admins = {a1, a2}
    Limits = {0, 1, 2, 5}
    ListMax = 3
    MaxUsers = 5
INVARIANTS NothingSkipped WalkComplete
PROPERTIES WalkEnds
