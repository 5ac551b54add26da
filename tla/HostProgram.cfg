SPECIFICATION HostSpec
CONSTANTS
  Lists <- SmallLists
  Earlier <- OneMac
  ListMax = 3
  Timeout = 6
  ReadTime = 2
  PerRead = 2
  UpMax = 20
  MaxLoss = 3
  MaxLate = 2
  None = None
  m1 = m1
  m2 = m2
  m3 = m3
  MinLen = 2
  MaxLen = 1
  Chunk = 4
  MaxFrames = 3
INVARIANTS SettledMeansConfigured OnlyDamagedFramesLost
PROPERTY RetriesEnd
CHECK_DEADLOCK FALSE
