SPECIFICATION Spec
CONSTANTS
    e1 = e1
    e2 = e2
    e3 = e3
    r1 = r1
    r2 = r2
    None = None
    Real = Real
    NF = 2
    ReadBudget = 0
    Experts <- MCExperts
    Rows <- MCRows
    Routes <- MCRoutes
    EarlyIds <- MCEarly
    TailIds <- MCTail
    Modes <- MCModes
INVARIANTS
    RowsPartitioned
    ServedBytes
PROPERTIES
    DemandAnswered
CHECK_DEADLOCK FALSE
