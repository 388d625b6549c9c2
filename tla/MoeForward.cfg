SPECIFICATION Spec
CONSTANTS
    NL = 4
    Positions <- MCPositions
    Ahead <- MCAhead
    MultiAhead = 3
    Configs <- MCConfigs
    Routes <- MCRoutes
    GroupCap = 2
    GroupMax = 3
    MaxSteps = 2
    None = None
INVARIANTS KeptExact FlagsConsumed PredictedOnce
CHECK_DEADLOCK FALSE
