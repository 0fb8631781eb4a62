SPECIFICATION BothSpec
CONSTANTS
  Clients = {"sleeps", "callbacks", "time"}
  Reload = 4
  Slots = 2
  Periods = {1, 2}
  Wrap = 4
  MsecPerSec = 2
  MaxSec = 2
  SleepTicks = {0, 1, 2}
  SleepCycles = {0, 1, 2, 3}
  MaxElapsed = 11
  Ops <- SomeOps
  Chips = {"small", "big", "absent"}
  Size = 8
  LoSize = 4
  SmallPage = 2
  BigPage = 4
  MaxFaults = 1
  MaxRestarts = 1
  RoughProbe = FALSE
INVARIANTS
  NotShort
  ReadNear
  EepromInStep
PROPERTIES
  OnPace
  ImplementsStore
  CallsEnd
