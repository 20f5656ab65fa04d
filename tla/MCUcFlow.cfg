SPECIFICATION Spec
CONSTANTS
  CsnMod = 8
  p1 = p1
  p2 = p2
  Paths = {p1, p2}
  MsgSize <- MCMsgSize
  ChunkSize = 2
  StartCsn = 6
  MaxReq = 2
  MaxSends = 4
  DupThres = 1
  MaxCumWQE = 2
  MaxOOO = 2
  PerFlow = 2
  EngineLow = 4
  EngineHigh = 6
  MaxLoss = 2
  LossyAcks = TRUE
  WireCap = 2
SYMMETRY MCPaths
CHECK_DEADLOCK FALSE
INVARIANTS
  FlowInv
  CompletionSound
  DeliveredWhole
  NoLateWrite
  CsnUnambiguous
  HolesAreTracked
  SackMatchesReady
  BytesAccounted
  WindowFits
PROPERTIES
  ImplementsMsgDelivery
