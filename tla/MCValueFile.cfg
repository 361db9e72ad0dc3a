CONSTANTS
  Workers = 2
  CI = 2
  Header = 1
  BlockLens = {0, 1, 2, 3}
  MaxBlocks = 4
SPECIFICATION Spec
CHECK_DEADLOCK FALSE
INVARIANT TypeOK
INVARIANT DiskInSeqOrder
INVARIANT HandedExactlyOnce
PROPERTY CallsReturn
