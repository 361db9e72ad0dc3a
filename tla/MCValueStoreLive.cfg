CONSTANTS
  Workers = 1
  Keys = {0}
  Micros = {1}
  ValueLens = {1}
  ValueCap = 1
  MinValueAlloc = 1
  PageEntries = 1
  PageUnits = 1
  MemBlocks = 2
  FileCap = 4
  TOCBlockEntries = 1
  c1 = c1
  c2 = c2
  f1 = f1
  f2 = f2
  Clients <- MCOneClient
  Flushers <- MCTwoFlushers
  DeleteOK = FALSE
  AckOK = TRUE
  DiskWatcher = TRUE
  MaxWrites = 1
  MaxFlushes = 2
  MaxToggles = 2
  MaxFiles = 2
  MaxCrashes = 1
SPECIFICATION Spec
CHECK_DEADLOCK FALSE
PROPERTY FlushesReturn
PROPERTY CallsReturn
