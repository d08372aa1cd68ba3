SPECIFICATION Spec
CONSTANTS
  MaxHeight = 4
  Chains <- MCChains
  NoHash = NoHash
  MaxReorgs = 2
  Depth = 1
  Window = 2
  BatchSize = 2
  ChannelCap = 1
  TreeSizeAfter <- MCTreeSizeAfter
  NullifierCount <- MCNullifierCount
  TargetSize = 2
  SnapshotInterval = 2
  MaxCrashes = 1
INVARIANTS
  TypeOK
  StoresOnOneChain
  StoresInStep
  SnapshotsResume
  ServedInStep
PROPERTIES
  ServesConfirmedTip
CHECK_DEADLOCK FALSE
