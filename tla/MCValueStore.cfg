CONSTANTS
  Workers = 1
  Keys = {0}
  Micros = {1, 2}
  ValueLens = {1}
  ValueCap = 1
  MinValueAlloc = 1
  PageEntries = 1
  PageUnits = 1
  MemBlocks = 2
  FileCap = 4
  TOCBlockEntries = 1
  c1 = c1
  c2 = c2
  f1 = f1
  f2 = f2
  Clients <- MCClients
  Flushers <- MCFlushers
  DeleteOK = TRUE
  AckOK = FALSE
  DiskWatcher = FALSE
  MaxWrites = 3
  MaxFlushes = 1
  MaxToggles = 1
  MaxFiles = 2
  MaxCrashes = 1
SPECIFICATION Spec
CHECK_DEADLOCK FALSE
INVARIANT TypeOK
INVARIANT BlocksConserved
INVARIANT IndexPointsAtLiveBlock
SYMMETRY MCClientSymmetry
PROPERTY StoreRefinesDurableIndex
