SPECIFICATION NodeSpec
CONSTANTS
  NetHead = 4
  KeyBlocks = {0, 1, 2, 3}
  Utime <- MCUtime
  ShardSeqno <- MCShardSeqno
  Validators <- MCValidators
  Liars = {"a", "b"}
  InitBlocks = {0, 1}
  PssPeriod = 2
  ClassicPeriod = 4
  BootTime = 13
  KeyStep = 2
  IdsLimit = 2
  Copies = 2
  BootBacklog = 3
  MaxFaults = 1
  ShardBlocks <- MCShardBlocks
  Prevs <- MCPrevs
  RightHalves = {}
  Top <- MCTop
  MasterRef <- MCMasterRef
  MinRef <- MCMinRef
  BroadcastWindow = 0
  Begin = 1
  Backlog = 2
  Broadcasts = 1
  Crashes = 1
  ChainLimit = 2
  LtAlign = 10
  ShortDequeue = TRUE
  Builds = {"async", "sync"}
  MaxMessages = 2
  MaxBlocks = 4
  MaxMasters = 3
  ListPeers <- MCListPeers
  MaxStates = 3
  MaxRounds = 1
  Restarts = 1
  Delay = 2
  Interval = 2
  SplitMargin = 1
  MinInterval = 1
  MaxDelay = 10
  MinSplit = 0
  MaxSplit = 1
  Wants = {"split", "merge"}
  MaxChain = 2
  MaxFresh = 2
  MaxTime = 5
  MaxCc = 1
  Peers = {"a", "b", "c"}
  NeighbourLimit = 2
  StopUnreliability = 0
  FailUnreliability = 1
  VersionPenalty = 1
  StatePeers = {"x", "y", "z"}
  Holders = {"x", "y"}
  Lengths = {0, 3, 6, 7, 8}
  PartSize = 2
  Fetchers = {0, 1, 2}
  MaxPartErrors = 1
  MaxChecks = 2
  MaxDownloads = 2
INVARIANTS TrustIsChained FirstReference DeliveredOnce CollatedIsValid RoundsFollowTheChain StoppedStaysStopped PeersStayReachable LayoutIsAccepted SessionsFollowTheLayout NeighboursAreIndexed DownloadedIsWhole
PROPERTY FullNodeCatchesUp NodeBootsAndFollows
CHECK_DEADLOCK FALSE
