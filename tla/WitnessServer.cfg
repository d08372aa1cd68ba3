SPECIFICATION Spec
CONSTANTS
  MaxHeight = 6
  Chains <- MCChains
  NoHash = NoHash
  MaxReorgs = 2
  Depth = 1
  BatchSize = 2
  Leaves <- MCLeaves
  EmptyLeaf = EmptyLeaf
  SubshardLeaves = 1
  SubshardsPerShard = 2
  MaxShards = 3
  Commitments <- MCCommitments
  Activation = 2
  WindowLimits = {1, 2}
  SnapshotInterval = 2
  Window = 4
  MaxCrashes = 2
INVARIANTS
  TypeOK
  TreesExact
CHECK_DEADLOCK FALSE
