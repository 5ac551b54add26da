SPECIFICATION FairSpec
CONSTANTS
  Page = 2
  Sector = 4
  Size = 8
  ReadSize = 4
  RetryCount = 2
  Polls = 2
  Jobs <- AllJobs
  MaxFaults = 2
  None = None
INVARIANTS
  NoLateAnswerTaken FlashTakesEveryCommand OthersUntouched
  CleanRunWrites VerifiedBlocksWritten
PROPERTY ToolEnds
CHECK_DEADLOCK FALSE
