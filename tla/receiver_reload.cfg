SPECIFICATION Spec
CONSTANTS
  Sources = {0, 1, 2}
  MaxHeight = 3
  WarnEnabled = FALSE
  Self = 0
  RemoteBlocks <- ForkSeen
  OwnPayloads <- Payloads
  MaxDeps = 2
  MaxRequests = 3
  MaxCrashes = 1
  MaxTasks = 1
INVARIANT StartsFromLastBlock

CHECK_DEADLOCK FALSE
