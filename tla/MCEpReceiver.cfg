SPECIFICATION FairSpec
CHECK_DEADLOCK FALSE
CONSTANTS
  NumRanks = 2
  LocalExperts = 1
  MaxNvlPeers = 1
  PollBatch = 2
  Programs <- MCPrograms
  Loads <- MCLoads
INVARIANTS ReceivedWhole NeverOvershoots
PROPERTIES EveryKernelEnds
