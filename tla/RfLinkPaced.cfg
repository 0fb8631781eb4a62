SPECIFICATION Spec
CONSTANTS
  a = a
  b = b
  None = None
  Node <- MCNode
  MaxNb = 1
  Sizes <- Two
  MaxSends <- TwoLines
  QueueSize = 4
  SendTimeout = 2
  WaitRx = 2
  MaxRqAsk = 2
  DeafLoops = 2
  FifoUnits = 4
  BitLens = {0, 1}
  Faults = {"lose"}
  MaxFaults = 1
  Paced = TRUE
PROPERTIES
  
  AbandonedLate
