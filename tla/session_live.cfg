CONSTANTS
    TotalNodes = 3
    NodeWeight <- MCNodeWeight
    Blocks = {1}
    Source <- MCSource
    RoundCandidates = 1
    MaxRoundAttempts = 2
    MaxAttempt = 2
    Faulty = {}
    Running = {0, 1}
    Approving <- MCOnlyBlocks
    Signing = {0, 1, 2}
    Prompt = TRUE
    MaxRound = 0
    Lag = 1
SPECIFICATION FairVotingSpec
PROPERTY RoundsComplete
CHECK_DEADLOCK FALSE
