SPECIFICATION AllSpec
CONSTANTS
  OutSize = 2
  Lengths = {0, 1, 3}
  MaxCalls = 2
  MaxQuick = 2
  RxWhenMasked = FALSE
  BuffLen = 3
  BlockLen = 2
  MaxChars = 4
  MaxPresses = 1
  Size = 1
  Reload = 4
  Gaps = {7, 15}
  MaxRequests = 2
  MaxFrame = 2
INVARIANTS
  
  LinesSound
  

  
CHECK_DEADLOCK FALSE
