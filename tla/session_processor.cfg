SPECIFICATION FairSpec
CONSTANTS
  MaxRound = 1
  Plans <- MCPlans
  MaxSeen = 1
  MaxCrashes = 1

INVARIANTS AnswersAreCurrent NeverPanics
PROPERTIES ApprovalIsSent
CHECK_DEADLOCK FALSE
