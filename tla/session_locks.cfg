CONSTANTS
    TotalNodes = 3
    NodeWeight <- MCNodeWeight
    Blocks = {1}
    Source <- MCSource
    RoundCandidates = 1
    MaxRoundAttempts = 1
    MaxAttempt = 3
    Faulty = {}
    Running = {}
    Approving <- MCApproving
    Signing = {}
    Prompt = TRUE
    MaxRound = 0
    Lag = 1
SPECIFICATION LockedSpec
INVARIANTS Agreement MergeCommutes
PROPERTY StepsRefine
CHECK_DEADLOCK FALSE
