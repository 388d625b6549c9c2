SPECIFICATION LeaseSpec
CONSTANTS
    Experts = {e1, e2, e3}
    Rows = {r1, r2}
    Threads = {t1, t2}
    None = None
SYMMETRY Symmetry
INVARIANTS
    HitKeepsBytes
    LeaseCounts
    TableBytes
