CONSTANTS
    TotalNodes = 2
    NodeWeight <- MCEqualWeight
    Blocks = {1}
    Source <- MCSource
    RoundCandidates = 1
    MaxRoundAttempts = 1
    MaxAttempt = 2
    Faulty = {}
    Running = {}
    Approving <- MCApproving
    Signing = {0, 1}
    Prompt = TRUE
    MaxRound = 1
    Lag = 2
SPECIFICATION Spec
INVARIANTS ReceiversAgree DecidedIsApproved
CHECK_DEADLOCK FALSE
