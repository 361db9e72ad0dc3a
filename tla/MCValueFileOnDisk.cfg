CONSTANTS
  Workers = 2
  CI = 2
  Header = 1
  BlockLens = {1}
  MaxBlocks = 2
SPECIFICATION Spec
CHECK_DEADLOCK FALSE
INVARIANT HandedOnlyWhenOnDisk
