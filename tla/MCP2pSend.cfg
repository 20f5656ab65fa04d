SPECIFICATION FairSpec
CONSTANTS
  writev = writev
  raw = raw
  Batchers = {writev}
  Directs = {raw}
  NumChannels = 2
  Script <- MCScript
  MaxInflight <- MCInflight
  FlushBytes = 2
  ArenaSize = 2
  AckDepth = 1
  MetaCap = 8
  Window = 4
CHECK_DEADLOCK FALSE
INVARIANTS
  
  DataComplete
  AckIsOwn
PROPERTIES
  EveryTransferEnds
