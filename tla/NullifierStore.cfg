SPECIFICATION Spec
CONSTANTS
  n1 = n1
  n2 = n2
  n3 = n3
  n4 = n4
  b1 = b1
  b2 = b2
  Nullifiers <- MCNullifiers
  Empty = Empty
  Buckets = {0, 1}
  Capacity = 2
  BucketOf <- MCBucketOf
  BlockHashes <- MCBlockHashes
  TableHeights = {1, 2, 3}
  TargetSize = 1
INVARIANTS
  TypeOK
  SlotsOwnedOnce
  NumIsExact
  HashMapInvertsIndex
  ContainsIsExact
PROPERTIES
  IsBlockMap
SYMMETRY MCSymmetry
CHECK_DEADLOCK FALSE
