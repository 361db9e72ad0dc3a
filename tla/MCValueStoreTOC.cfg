CONSTANTS
  Workers = 2
  Keys = {0}
  Micros = {1, 2, 3, 4}
  ValueLens = {1, 3}
  ValueCap = 3
  MinValueAlloc = 1
  PageEntries = 1
  PageUnits = 3
  MemBlocks = 4
  FileCap = 4
  TOCBlockEntries = 1
  c1 = c1
  c2 = c2
  f1 = f1
  f2 = f2
  Clients <- MCOneClient
  Flushers <- MCFlushers
  DeleteOK = FALSE
  AckOK = FALSE
  DiskWatcher = FALSE
  MaxWrites = 4
  MaxFlushes = 1
  MaxToggles = 1
  MaxFiles = 3
  MaxCrashes = 0
SPECIFICATION Spec
CONSTRAINT MCFlushAfterWrites
CHECK_DEADLOCK FALSE
PROPERTY TOCFilesOnlyGrow
