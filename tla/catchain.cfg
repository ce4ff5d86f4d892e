SPECIFICATION FairSpec
CONSTANTS
  Sources = {0, 1, 2}
  Self = 0
  Forkers = {1}
  MaxDeps = 1
  MaxHeight = 2
  MaxBlocks = 3
  MaxRestored = 1
  MaxEmpty = 0
  MaxRequests = 1

INVARIANTS PreprocessedInOrder OwnBlocksAreValid TopsCoverTheRest
PROPERTIES BlocksAreProcessed
CHECK_DEADLOCK FALSE
