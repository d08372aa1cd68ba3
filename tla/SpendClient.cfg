SPECIFICATION Spec
CONSTANTS
  MaxHeight = 6
  Chains <- MCChains
  NoHash = NoHash
  MaxReorgs = 1
  Depth = 1
  BatchSize = 2
  Snapshots <- MCSnapshots
  OldSnapshot = OldSnapshot
  OurMarker = OurMarker
  OtherMarker = OtherMarker
  Torn = Torn
  NoFile = NoFile
  Activation = 2
  BackfillBatch = 2
  NullifierCount <- MCNullifierCount
  TargetSize = 4
  EvictSize = 3
  SnapshotInterval = 2
  Window = 2
  MaxCrashes = 1
INVARIANTS
  TypeOK
  ConfirmedForever
  FilledOrFloor
  OwnDirectoryOpens
  AnswersHold
PROPERTIES
  IsAtomicCell
CHECK_DEADLOCK FALSE
