CONSTANTS
  KeyBits = 2
  Keys <- MCKeysDeep
  BucketCount = 1
  SplitCount = 0
  Timestamps = {1}
  s1 = s1
  s2 = s2
  g1 = g1
  Setters <- MCOneSetter
  Getters <- MCNoGetters
  MaxNodes = 5
  MaxStores = 3
  MaxSets = 3
  MaxGets = 0
SPECIFICATION Spec
CHECK_DEADLOCK FALSE
INVARIANT UnsplitNeverProceeds
PROPERTY SetsReturn
PROPERTY SplitsFinish
