INIT MCInit
NEXT MCNext
CONSTANTS
  BlockLen = 16
  MaxBlocks = 3
  BuffLen = 512
  MaxLen = 511
  FifoSize = 64
  FlashAddrs <- MCAddrs
  FlashPages <- MCPages
  Streams <- MCStreams
  Colors <- MCColors
  Temperatures <- MCTemperatures
  Humidities <- MCHumidities
  Keys <- MCKeys
  PlainLines <- MCLines
  Formats <- MCFormats
  Messages <- MCMessages
  SlavePackets <- MCPackets
  DumpBlocks <- MCBlocks
  PairCounts <- MCPairs
INVARIANTS
  LineRebuilt
  
  CipherSound
  LibrarySound
  ReadingsSound
  
  
CHECK_DEADLOCK FALSE
