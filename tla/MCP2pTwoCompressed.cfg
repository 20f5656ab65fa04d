SPECIFICATION Spec
CONSTANTS
  writev = writev
  raw = raw
  Batchers = {writev}
  Directs = {}
  NumChannels = 2
  Script <- MCTwoCompressed
  MaxInflight <- MCInflightTwo
  FlushBytes = 2
  ArenaSize = 4
  AckDepth = 2
  MetaCap = 8
  Window = 4
CHECK_DEADLOCK FALSE
INVARIANT DataComplete
