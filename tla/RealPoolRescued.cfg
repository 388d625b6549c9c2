SPECIFICATION Spec
CONSTANTS
    Experts = {e1, e2, e3}
    Rows = {r1, r2}
    NoRow = NoRow
    Torn = Torn
    SpecLimit = 2
    ReadBudget = 0
    MaxRoute = 2
    MaxPredict = 2
    MaxPins = 0
    Modes = {"async"}
    LateCallbacks = FALSE
    LastLayer = FALSE
    StaleCancel = FALSE
    PinInFlight = FALSE
SYMMETRY Symmetry
INVARIANTS
    RouteRowsDistinct
