SPECIFICATION MCSpec
CONSTANTS
  DevEP0SIZE = 3
  Descr <- TwoDescr
  Lengths = {2, 3, 5}
  Addresses = {1}
  MaxSetups = 2
  MaxPackets = 2
  MaxLost = 2
  None = None
INVARIANTS ReadsAreWhole AddressesAgree
PROPERTIES OutIsPipe InIsPipe TransfersEnd
CHECK_DEADLOCK FALSE
