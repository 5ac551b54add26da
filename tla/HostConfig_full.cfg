SPECIFICATION FairSpec
CONSTANTS
  Lists <- FullList
  Earlier <- OneMac
  ListMax = 64
  Timeout = 60
  ReadTime = 6
  PerRead = 4
  UpMax = 315
  MaxLoss = 0
  MaxLate = 0
  None = None
  m1 = m1
  m2 = m2
  m3 = m3
PROPERTY HostSettles
