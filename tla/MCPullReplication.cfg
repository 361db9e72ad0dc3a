CONSTANTS
  KeyBits = 4
  PartBits = 1
  OutWorkers = 2
  ReplicaCount = 2
  RespIdx <- MCRespIdx1
  PullerParts = {1}
  PInit <- MCPInit
  SInit <- MCSInit
  BloomN = 1
  MsgCap = 3
  OutMsgs = 1
  InMsgs = 1
  FalsePositives = FALSE
  c1 = c1
  c2 = c2
  Callers <- MCOneCaller
  MaxCalls = 1
  MaxPasses = 1
  MaxFaults = 1
SPECIFICATION Spec
CHECK_DEADLOCK FALSE
INVARIANT TypeOK
INVARIANT NothingMissed
INVARIANT SummariesTileRange
PROPERTY PassesEnd
PROPERTY CallsReturn
