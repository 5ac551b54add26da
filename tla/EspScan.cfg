SPECIFICATION FairSpec
CONSTANTS
  Mac = {m1, m2}
  Bit = {0}
  ListMax = 2
  ReadMax = 3
  RingMax = 3
  AdvLen = 2
  MaxCmds = 3
  None = None
INVARIANTS ResponseIsMark ScanAsCommanded
PROPERTIES CommandsOnceInOrder NoHalfChange ScanSettles
CHECK_DEADLOCK FALSE
