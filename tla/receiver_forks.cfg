SPECIFICATION PartSpec
CONSTANTS
  Sources = {0, 1, 2}
  MaxHeight = 3
  WarnEnabled = FALSE
  Self = 0
  RemoteBlocks <- Proved
  OwnPayloads <- Payloads
  MaxDeps = 2
  MaxRequests = 1
  MaxCrashes = 1
  MaxTasks = 2
  Correct = {0, 2}
  Shown <- OneSideEach
  MaxNeighbours = 1
  MaxSend = 1
  MaxOwn <- OneWriter
  MaxLosses = 1

INVARIANTS HeightsCoverAncestors ForkersAreBlamed
PROPERTIES ArrivedIsDelivered RequestsAreServed DeliveredIsFinal BlocksSpread ForksSpread
CHECK_DEADLOCK FALSE
