SPECIFICATION FairSpec
CONSTANTS
  a = a
  b = b
  None = None
  Node <- MCNode
  MaxNb = 1
  Sizes <- Two
  MaxSends <- OneLine
  QueueSize = 32
  SendTimeout = 2
  WaitRx = 20
  MaxRqAsk = 3
  DeafLoops = 10
  FifoUnits = 4
  BitLens = {9}
  Faults = {"lose"}
  MaxFaults = 1
  Paced = TRUE
PROPERTIES
  LostPacketRecovered
