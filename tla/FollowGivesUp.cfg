SPECIFICATION Spec
CONSTANTS
  MaxHeight = 5
  Chains <- MCChains
  NoHash = NoHash
  MaxReorgs = 2
  Depth = 1
  Window = 3
  BatchSize = 2
  ChannelCap = 2
PROPERTIES
  GivesUpOnlyBeyondWindow
CHECK_DEADLOCK FALSE
