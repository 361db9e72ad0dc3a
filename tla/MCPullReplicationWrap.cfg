CONSTANTS
  KeyBits = 4
  PartBits = 1
  OutWorkers = 2
  ReplicaCount = 2
  RespIdx <- MCRespIdx0
  PullerParts = {0}
  PInit <- MCPInit
  SInit <- MCSInit
  BloomN = 1
  MsgCap = 3
  OutMsgs = 1
  InMsgs = 1
  FalsePositives = FALSE
  c1 = c1
  c2 = c2
  Callers <- MCOneCaller
  MaxCalls = 0
  MaxPasses = 1
  MaxFaults = 0
SPECIFICATION Spec
CHECK_DEADLOCK FALSE
INVARIANT ResponsesInRange
