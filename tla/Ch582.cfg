SPECIFICATION FairSpec
CONSTANTS
  Mac = {m1}
  Bit = {}
  ListMax = 1
  HeadLen = 2
  MaxData = 1
  FifoSize = 5
  EpSize = 2
  MaxCmds = 2
  None = None
INVARIANTS StreamWhole BufferNotStuck SendingGoesOn StoppedStaysStopped
PROPERTIES StopIsAnswered TakenCommandsExecuted
