SPECIFICATION Spec
CONSTANTS
    e1 = e1
    e2 = e2
    None = None
    NB = 2
    Cap = 1
    MaxForwards = 2
    NL = 4
    Experts <- MCExperts
    Ahead <- MCAhead
    EarlyIds <- MCEarly
    TailIds <- MCTail
    Residents <- MCResidents
    Routes <- MCRoutes
    Modes <- MCModes
INVARIANTS
    FillOwnsBank
    CopiedBytes
    TargetRecordsFreed
    NoBankStranded
PROPERTIES
    WaitEnds
CHECK_DEADLOCK FALSE
