SPECIFICATION Spec
CONSTANTS
    e1 = e1
    e2 = e2
    e3 = e3
    None = None
    Experts = {e1, e2, e3}
    Layers = {1, 2}
    Here = 1
    Cap = 2
    InitSlots = 1
    Configs <- Loaders
    HostPath = FALSE
    Decay = 3
    Window = 1
    BufferSize = 1
    MaxRoute = 2
    MaxPins = 1
    MaxAhead = 2
SYMMETRY Symmetry
CONSTRAINT OneError
INVARIANTS
    LookupBytesUntilError
    RaisesOnlyOverfull
CHECK_DEADLOCK FALSE
