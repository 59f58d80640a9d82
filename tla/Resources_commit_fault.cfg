\* By hand: a COMMIT fails and its connection keeps the transaction.
CONSTANTS
    Workers = {w1, w2}
    Conns = {c1, c2}
    KdfSlots = 1
    None = None
    Gone = Gone
SPECIFICATION Spec
INVARIANT NoAbandonedTransaction
