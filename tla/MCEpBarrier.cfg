SPECIFICATION FairSpec
CONSTANTS
  NumNodes = 3
  NumLocal = 2
  SeqMod = 3
  MaxBarriers = 4
INVARIANTS BarrierSafe  CountMatches
PROPERTIES EveryBarrierCompletes
CHECK_DEADLOCK FALSE
