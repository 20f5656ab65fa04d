SPECIFICATION FairSpec
CONSTANTS
  t1 = t1
  t2 = t2
  t3 = t3
  Threads = {t1, t2, t3}
  Size = 2
  MaxPush = 5
CHECK_DEADLOCK FALSE
INVARIANTS
  NoOverwrite
  InOrder
  FifoInv
PROPERTIES
  EveryTriggerRead
