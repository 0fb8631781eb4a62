SPECIFICATION FairSpec
CONSTANTS
  a = a
  b = b
  None = None
  Node <- MCNode
  MaxNb = 1
  Sizes <- OneOrTwo
  MaxSends <- OneLine
  QueueSize = 12
  SendTimeout = 2
  WaitRx = 2
  MaxRqAsk = 3
  DeafLoops = 2
  FifoUnits = 4
  BitLens = {0, 1, 2}
  Faults = {"lose"}
  MaxFaults = 1
  Paced = TRUE
PROPERTIES
  
  CleanDelivery
