SPECIFICATION Spec
CONSTANTS
  BaudRates = {96, 1152}
  SspRates = {1000}
  I2cRates = {100}
  TimerRates = {1000}
  MaxChanges = 2
INVARIANT
  FccoInRange
CHECK_DEADLOCK FALSE
