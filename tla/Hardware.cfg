SPECIFICATION AllSpec
CONSTANTS
  Depth = 8
  MaxSize = 18
  Pace = 4
  Stalls = {0, 4, 9}
  Kinds = {"rtc", "tsl256x", "bme280", "tmp101", "veml6070", "chirp"}
  MaxI2cCalls = 3
  MaxLosses = 1
  LcdLines = 2
  LcdCols = 2
  MaxLcdCalls = 2
  MaxLcdRestarts = 2
  Width = 2
  Height = 1
  MaxDraws = 1
  MaxShows = 4
  MaxCuts = 1
  EpdLines = 5
  BytesPerScan = 2
  Bytes = {0, 1, 2, 4, 8, 16, 32, 64, 128, 255, 165, 90, 60}
  MaxFrames = 1
  MaxEpdRestarts = 1
  CC1101_FIFO_SIZE = 6
  PacketLengths = {2, 4}
  MaxPackets = 2
  MaxRadioCalls = 3
  BlockSizes = {2, 3, 9}
  MMC_MAX_SECTOR_SIZE = 4
  Blocks = 3
  MaxRequests = 5
  MaxPulls = 1
  BaudRates = {96, 1152, 2500, 11520}
  SspRates = {1000, 4000}
  I2cRates = {100, 400}
  TimerRates = {1000}
  MaxChanges = 4
  Pins <- SomePins
  MaxEdges = 3
  MaxSets = 3
  CounterValues = {1, 3}
  MaxCount = 5
  MaxTimerCalls = 4
  Dates = {2, 5, 7}
  Periods = {0, 2}
  StartDate = 1
  MaxDate = 9
  MaxAlarms = 3
INVARIANTS
  FramesKept
  I2cDevicesSound
  ScreensInStep
  EpaperSound
  
  CardSound
  PowerSound
  NoEventUnseen
  TimersSound
  AlarmComes
CHECK_DEADLOCK FALSE
