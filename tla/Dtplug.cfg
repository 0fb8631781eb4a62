SPECIFICATION FairSpec
CONSTANTS
  Requests <- HostRequests
  HeadLen = 2
  DataLen = 4
  OutSize = 4
  MaxErrors = 8
  TimeSize = 3
  NumSize = 3
  AppSize = 2
  Garbage <- SomeGarbage
  MaxFrames = 3
  MaxLosses = 1
INVARIANTS
  PacketStable
  AnsweredOnceEach
  
  
PROPERTIES
  HandledInOrder
  PacketsReleased
CHECK_DEADLOCK FALSE
