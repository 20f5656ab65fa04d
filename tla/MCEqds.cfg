SPECIFICATION FairSpec
CONSTANTS
  f1 = f1
  f2 = f2
  Flows = {f1, f2}
  PullMod = 16
  InitPull = 14
  MaxCwnd = 1
  CreditPerPull = 1
  ChunkSize = 1
  MsgSizes <- MCSizes
  MaxMsgs = 1
  PoolSize = 8
  MaxLoss = 1
  PullCap = 1
  LateSenders = {f1}
CHECK_DEADLOCK FALSE
INVARIANTS
  ListsExclusive
  NoLostDemand
  PullsUnambiguous
PROPERTIES
  EveryByteSent
  
