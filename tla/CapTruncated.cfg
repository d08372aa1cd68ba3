SPECIFICATION StoreSpec
CONSTANTS
  a = a
  b = b
  Leaves <- MCLeaves
  EmptyLeaf = EmptyLeaf
  SubshardLeaves = 2
  SubshardsPerShard = 2
  MaxShards = 2
  Blocks <- MCBlocks
  SubtreeRoots <- MCSubtreeRoots
  MaxBlocks = 3
INVARIANTS
  CapComplete
CHECK_DEADLOCK FALSE
