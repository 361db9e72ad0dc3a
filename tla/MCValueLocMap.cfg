CONSTANTS
  KeyBits = 1
  Keys <- MCKeys
  BucketCount = 2
  SplitCount = 0
  Timestamps = {1, 2}
  s1 = s1
  s2 = s2
  g1 = g1
  Setters <- MCSetters
  Getters <- MCGetters
  MaxNodes = 3
  MaxStores = 2
  MaxSets = 2
  MaxGets = 2
SPECIFICATION Spec
CHECK_DEADLOCK FALSE
INVARIANT TypeOK
INVARIANT NeverNilNode
INVARIANT UsedCountsLive
INVARIANT InPlaceWhenQuiescent
INVARIANT ReadSeesCompletedWrites
PROPERTY LocMapRefined
SYMMETRY MCSymmetry
