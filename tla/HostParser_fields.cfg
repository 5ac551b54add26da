SPECIFICATION Spec
CONSTANTS
  MinLen = 2
  MaxLen = 1
  Chunk = 6
  MaxFrames = 2
INVARIANT ReturnsOnePacket
CHECK_DEADLOCK FALSE
