SPECIFICATION Spec
CONSTANTS
  a = a
  b = b
  None = None
  Node <- MCNode
  MaxNb = 1
  Sizes <- Two
  MaxSends <- OneLine
  QueueSize = 2
  SendTimeout = 1
  WaitRx = 1
  MaxRqAsk = 1
  DeafLoops = 1
  FifoUnits = 4
  BitLens = {0, 1, 2}
  Faults = {"lose", "stray", "corrupt"}
  MaxFaults = 2
  Paced = FALSE
INVARIANTS
  
  
  ReceiverAndChipAgree
