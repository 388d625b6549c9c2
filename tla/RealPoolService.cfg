SPECIFICATION Spec
CONSTANTS
    Experts = {e1, e2, e3, e4}
    Rows = {r1, r2, r3}
    NoRow = NoRow
    Torn = Torn
    SpecLimit = 1
    ReadBudget = 0
    MaxRoute = 2
    MaxPredict = 2
    MaxPins = 0
    Modes = {"sync", "async"}
    LateCallbacks = TRUE
    LastLayer = FALSE
    StaleCancel = FALSE
    PinInFlight = FALSE
SYMMETRY Symmetry
ACTION_CONSTRAINT LateSparesRoute
INVARIANTS
    TypeOK
    RowExclusive
    NoRowLost
    PreflightSuffices
    SpecQuota
    LeasedRowsNotWritten
PROPERTIES
    ImplementsService
