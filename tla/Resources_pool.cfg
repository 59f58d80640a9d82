\* Three workers, one to three connections, one KDF slot.
CONSTANTS
    Workers = {w1, w2, w3}
    Conns = {c1, c2, c3}
    KdfSlots = 1
    None = None
    Gone = Gone
SYMMETRY Symmetry
SPECIFICATION Spec
INVARIANTS NothingLeaks NoStrandedSleeper AnswersTruthful
