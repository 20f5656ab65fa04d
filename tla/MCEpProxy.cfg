SPECIFICATION FairSpec
CONSTANTS
  NumRings = 2
  MaxInflight = 2
  MaxInflightBytes = 4
  Sizes = {2}
  WrMod = 3
  MaxCmds = 4
INVARIANTS QuietFencesRing BytesExact AcksArePending
PROPERTIES EveryCommandRetired
CHECK_DEADLOCK FALSE
