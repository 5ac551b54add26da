SPECIFICATION HSSpec
CONSTANTS
  Mac = {m1, m2}
  Bit = {0}
  ListMax = 1
  FifoNum = 2
  Handle = {}
  MaxCmds = 3
  Calm = TRUE
  None = None
SYMMETRY AnyMac
INVARIANTS ReplayAgrees AdvsFitReplay
