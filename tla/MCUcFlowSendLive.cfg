SPECIFICATION FairSpec
CONSTANTS
  CsnMod = 8
  p1 = p1
  p2 = p2
  Paths = {p1, p2}
  MsgSize <- MCMsgSize
  ChunkSize = 2
  StartCsn = 6
  MaxReq = 2
  MaxSends = 2
  DupThres = 1
  MaxCumWQE = 2
  MaxOOO = 2
  PerFlow = 2
  EngineLow = 4
  EngineHigh = 6
  MaxLoss = 1
  LossyAcks = FALSE
  WireCap = 2
CHECK_DEADLOCK FALSE
PROPERTY EverySendCompletes
