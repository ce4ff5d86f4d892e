CONSTANTS
    TotalNodes = 3
    NodeWeight <- MCNodeWeight
    Blocks = {1}
    Source <- MCSource
    RoundCandidates = 1
    MaxRoundAttempts = 1
    MaxAttempt = 2
    Faulty = {2}
    Running = {}
    Approving <- MCApproving
    Signing = {}
    Prompt = TRUE
    MaxRound = 0
    Lag = 1
SPECIFICATION VotingSpec
INVARIANTS DecisionIsBacked AssertionsHold
CHECK_DEADLOCK FALSE
