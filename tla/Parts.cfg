SPECIFICATION PartsSpec
CONSTANTS
  Frame = {a, b}
  NoFrame = NoFrame
  Num = 4
  None = None
  SecLen = 14
  RecLen = 4
  TornLen = 6
  NumBauds = 3
  RingSize = 4
  U16 = 16
  MaxMsg = 3
  MaxRead = 2
  U32 = 16
  Long = 6
  Short = 3
  Shortest = 2
  MaxBusy = 9
  Payload = {0, 165}
  DataLen = 2
  MaxBurst = 10
INVARIANTS WriteIsDurable NothingToCopy ChecksumsProtect
PROPERTIES ImplementsQueue ImplementsByteQueue FlashIsCell WriteEnds TimersKeepTime
