SPECIFICATION FairSpec
CONSTANTS
    Experts = {e1, e2, e3}
    Rows = {r1}
    NoRow = NoRow
    Torn = Torn
    SpecLimit = 1
    ReadBudget = 0
    MaxRoute = 1
    MaxPredict = 2
    MaxPins = 1
    Modes = {"sync", "async"}
    LateCallbacks = TRUE
    LastLayer = TRUE
    StaleCancel = TRUE
    PinInFlight = TRUE
ACTION_CONSTRAINT LateSparesRoute
PROPERTIES
    PinnedRowsNeverMove
    DemandAnswered
