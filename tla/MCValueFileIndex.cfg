CONSTANTS
  Workers = 2
  CI = 2
  Header = 1
  BlockLens = {0,1}
  MaxBlocks = 3
SPECIFICATION Spec
CHECK_DEADLOCK FALSE
INVARIANT IndexInRange
