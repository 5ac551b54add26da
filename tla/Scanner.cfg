SPECIFICATION FairSpec
CONSTANTS
  Mac = {m1}
  Bit = {0}
  ListMax = 1
  FifoNum = 2
  Handle = {h1}
  MaxCmds = 2
  Calm = FALSE
  None = None
PROPERTIES StreamIsQueue CommandsOnceInOrder LostResponseShowsRed ResponsesDelivered ReceivedCommandsExecuted
