SPECIFICATION FairSpec
CONSTANTS
  Requests <- WrongTime
  HeadLen = 2
  DataLen = 4
  OutSize = 4
  MaxErrors = 8
  TimeSize = 3
  NumSize = 3
  AppSize = 2
  Garbage <- SomeGarbage
  MaxFrames = 2
  MaxLosses = 0
PROPERTIES
  PacketsReleased
CHECK_DEADLOCK FALSE
