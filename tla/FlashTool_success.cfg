SPECIFICATION Spec
CONSTANTS
  Page = 2
  Sector = 4
  Size = 8
  ReadSize = 4
  RetryCount = 3
  Polls = 2
  Jobs <- OneWrite
  MaxFaults = 1
  None = None
INVARIANT SuccessMeansWritten
CHECK_DEADLOCK FALSE
