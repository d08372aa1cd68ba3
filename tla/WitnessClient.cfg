SPECIFICATION WitnessSpec
CONSTANTS
  EmptyLeaf = EmptyLeaf
  ZeroLeaf = ZeroLeaf
  SubshardHeight = 1
  Commitments = {1, 2, 3, 4, 5, 6, 7, 8, 9, 14, 15, 16}
  Logs <- MCLogs
  Offsets = {0, 1}
  MaxShards = 2
  Calls <- MCCalls
  MaxPublished = 2
INVARIANTS
  WitnessTypeOK
  SameTreeExact
  FullSubshardExact
  SameRowSameRoot
CHECK_DEADLOCK FALSE
