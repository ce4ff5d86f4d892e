SPECIFICATION Spec
CONSTANTS
  Sources = {0, 1, 2}
  MaxHeight = 2
  WarnEnabled = FALSE
  Self = 0
  RemoteBlocks <- Honest
  OwnPayloads <- TwoPayloads
  MaxDeps = 2
  MaxRequests = 2
  MaxCrashes = 2
  MaxTasks = 5
INVARIANTS NeverPanics
PROPERTIES ImplementsOwnChain

CHECK_DEADLOCK FALSE
