SPECIFICATION Spec
CONSTANTS
  MaxHeight = 4
  Chains <- MCChains
  NoHash = NoHash
  MaxReorgs = 1
  Depth = 1
  Window = 2
  BatchSize = 2
  ChannelCap = 1
  TreeSizeAfter <- MCTreeSizeAfter
  NullifierCount <- MCNullifierCount
  TargetSize = 2
  SnapshotInterval = 2
  MaxCrashes = 2
INVARIANTS
  RestartFindsFork
CHECK_DEADLOCK FALSE
