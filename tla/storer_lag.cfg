SPECIFICATION LagSpec
CONSTANTS
  ShardBlocks <- MCShardBlocks
  Prevs <- MCPrevs
  RightHalves = {}
  Top <- MCTop
  MasterRef <- MCMasterRef
  MinRef <- MCMinRef
  BroadcastWindow = 0
  Begin = 3
  Backlog = 40
  Broadcasts = 1
  Crashes = 1
INVARIANT RestartIsPossible
CHECK_DEADLOCK FALSE
