SPECIFICATION Spec
CONSTANTS
  CsnMod = 4
  p1 = p1
  p2 = p2
  Paths = {p1, p2}
  MsgSize <- MCMsgSize
  ChunkSize = 1
  StartCsn = 2
  MaxReq = 2
  MaxSends = 2
  DupThres = 1
  MaxCumWQE = 2
  MaxOOO = 2
  PerFlow = 2
  EngineLow = 4
  EngineHigh = 4
  MaxLoss = 2
  LossyAcks = TRUE
  WireCap = 2
SYMMETRY MCPaths
CHECK_DEADLOCK FALSE
INVARIANTS
  DeliveredWhole
