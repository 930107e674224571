SPECIFICATION LinkFairSpec
CONSTANTS
  FecK = 2
  FecN = 4
  RingSize = 2
  MaxBlockIdx = 3
  MaxPackets = 5
  MaxRestarts = 1
  Epochs = {0, 1}
INVARIANTS
  RingConsistent
  NothingDropped
PROPERTIES
  ImplementsFifo
  BlockCloses
CHECK_DEADLOCK FALSE
