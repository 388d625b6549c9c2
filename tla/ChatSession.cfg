SPECIFICATION FairSpec
CONSTANTS
    Tokens = {0, 1}
    Argmax <- MCArgmax
    NumLayers = 3
    Linear = {1, 2}
    Progressive = {2, 3}
    K = 2
    DepthMax = 3
    Branches = 2
    MaxTokens = 4
    Prompts <- MCPrompts
    Configs <- Modes
    FailReused = FALSE
    Bad = Bad
    None = None
INVARIANTS
    CacheHoldsAccepted
    MtpAligned
    NeverRaises
    ReuseExact
PROPERTIES
    ImplementsGreedy
