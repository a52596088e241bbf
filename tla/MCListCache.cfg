\* Browses that fill a page while two writes invalidate and commit.
SPECIFICATION Spec
CONSTANTS
    NoPage = NoPage
    Pages = {k1}
    Browses = {b1, b2}
    Writes = {w1, w2}
    Ttl = 2
    Horizon = 3
    MaxVersion = 2
SYMMETRY Symmetry
INVARIANT TypeOK
INVARIANT StaleNeedsARace
INVARIANT TtlCapsStaleness
CHECK_DEADLOCK FALSE
