SPECIFICATION Spec
CONSTANTS
    MaxTurns = 2
    MaxTokens = 3
    Batch = 2
    None = None
INVARIANTS AllPublished OwnFrames CutReported
PROPERTY TurnEnds
CHECK_DEADLOCK FALSE
