---------------------------- MODULE MCHardware -----------------------------
(***************************************************************************)
(* The microcontroller and the external devices for TLC, each on its own:  *)
(* clocks, power and the watchdog (Power), the pins and their interrupts   *)
(* (Gpio), a timer (Timers), the alarm of the real time clock (Rtc), the   *)
(* SPI driver (Ssp), the chips on the I2C bus (I2cDevices), the radio chip *)
(* (Cc1101), the SD card (Sdmmc), and the character, OLED and electronic   *)
(* paper displays.  A behaviour is one of one part; Init, Next and vars    *)
(* are those of the pins.                                                  *)
(***************************************************************************)
EXTENDS Gpio

CONSTANTS
  Depth, MaxSize, Pace, Stalls,
  Kinds, MaxI2cCalls, MaxLosses,
  LcdLines, LcdCols, MaxLcdCalls, MaxLcdRestarts,
  Width, Height, MaxDraws, MaxShows, MaxCuts,
  EpdLines, BytesPerScan, Bytes, MaxFrames, MaxEpdRestarts,
  CC1101_FIFO_SIZE, PacketLengths, MaxPackets, MaxRadioCalls,
  BlockSizes, MMC_MAX_SECTOR_SIZE, Blocks, MaxRequests, MaxPulls,
  BaudRates, SspRates, I2cRates, TimerRates, MaxChanges,
  CounterValues, MaxCount, MaxTimerCalls,
  Dates, Periods, StartDate, MaxDate, MaxAlarms

\* Two pins of a port, and one the tables do not have.
SomePins == {[port |-> 0, pin |-> 1], [port |-> 0, pin |-> 4], [port |-> 1, pin |-> 7]}

VARIABLES
  part,
  ssp, xfer, lag,
  kind, conf, chip, call, count,
  lcd, lcd_chip, lcd_call, lcd_count,
  oled, gddram, panel, oled_call, flight, oled_count,
  pins, regs, todo, mode, sent, epd_count,
  radio, packets, spi, past,
  mmc, card, mutex, req, spent,
  sys, step, dev, div, wdt, changes,
  tmr, on, irqs, due, intact, calls,
  rtc, tick, ready, retries, alarm, owed, clean, alarms

S == INSTANCE Ssp
I == INSTANCE I2cDevices WITH MaxCalls <- MaxI2cCalls
L == INSTANCE LcdChar WITH Lines <- LcdLines, Cols <- LcdCols, MaxCalls <- MaxLcdCalls,
       MaxRestarts <- MaxLcdRestarts, chip <- lcd_chip, call <- lcd_call, count <- lcd_count
O == INSTANCE Oled WITH call <- oled_call, count <- oled_count
E == INSTANCE Epaper WITH Lines <- EpdLines, MaxRestarts <- MaxEpdRestarts, count <- epd_count
C == INSTANCE Cc1101 WITH MaxCalls <- MaxRadioCalls
M == INSTANCE Sdmmc
P == INSTANCE Power
T == INSTANCE Timers WITH MaxCalls <- MaxTimerCalls, Values <- CounterValues
R == INSTANCE Rtc

ASSUME PartAssumptions ==
  /\ S!SspAssumption /\ I!I2cDevicesAssumption /\ L!LcdAssumption /\ O!OledAssumption
  /\ E!EpaperAssumption /\ C!Cc1101Assumption /\ M!SdmmcAssumption
  /\ P!PowerAssumption /\ GpioAssumption /\ T!TimersAssumption /\ R!RtcAssumption

sspVars   == <<ssp, xfer, lag>>
i2cVars   == <<kind, conf, chip, call, count>>
lcdVars   == <<lcd, lcd_chip, lcd_call, lcd_count>>
oledVars  == <<oled, gddram, panel, oled_call, flight, oled_count>>
epdVars   == <<pins, regs, todo, mode, sent, epd_count>>
radioVars == <<radio, packets, spi, past>>
cardVars  == <<mmc, card, mutex, req, spent>>
powerVars == <<sys, step, dev, div, wdt, changes>>
timerVars == <<tmr, on, irqs, due, intact, calls>>
rtcVars   == <<rtc, tick, ready, retries, alarm, owed, clean, alarms>>
allVars == <<part, sspVars, i2cVars, lcdVars, oledVars, epdVars, radioVars, cardVars, powerVars, vars, timerVars, rtcVars>>

\* One initial state of each part that does not run.
Others ==
  /\ part # "i2c" => kind = CHOOSE k \in Kinds : TRUE
  /\ part # "lcd" => ~lcd.eight /\ lcd.increment
  /\ part # "oled" => oled.bus = "spi" /\ ~oled.async
  /\ part # "sdmmc" => mmc.block_size = (CHOOSE b \in BlockSizes : TRUE) /\ card.hc
  /\ part # "rtc" => tick = 0

AllInit ==
  /\ part \in {"ssp", "i2c", "lcd", "oled", "epaper", "cc1101", "sdmmc",
              "power", "gpio", "timer", "rtc"}
  /\ S!Init /\ I!Init /\ L!Init /\ O!Init /\ E!Init /\ C!Init /\ M!Init
  /\ P!Init /\ Init /\ T!Init /\ R!Init
  /\ Others

AllNext ==
  \/ part = "ssp" /\ S!Next
       /\ UNCHANGED <<part, i2cVars, lcdVars, oledVars, epdVars, radioVars, cardVars, powerVars, vars, timerVars, rtcVars>>
  \/ part = "i2c" /\ I!Next
       /\ UNCHANGED <<part, sspVars, lcdVars, oledVars, epdVars, radioVars, cardVars, powerVars, vars, timerVars, rtcVars>>
  \/ part = "lcd" /\ L!Next
       /\ UNCHANGED <<part, sspVars, i2cVars, oledVars, epdVars, radioVars, cardVars, powerVars, vars, timerVars, rtcVars>>
  \/ part = "oled" /\ O!Next
       /\ UNCHANGED <<part, sspVars, i2cVars, lcdVars, epdVars, radioVars, cardVars, powerVars, vars, timerVars, rtcVars>>
  \/ part = "epaper" /\ E!Next
       /\ UNCHANGED <<part, sspVars, i2cVars, lcdVars, oledVars, radioVars, cardVars, powerVars, vars, timerVars, rtcVars>>
  \/ part = "cc1101" /\ C!Next
       /\ UNCHANGED <<part, sspVars, i2cVars, lcdVars, oledVars, epdVars, cardVars, powerVars, vars, timerVars, rtcVars>>
  \/ part = "sdmmc" /\ M!Next
       /\ UNCHANGED <<part, sspVars, i2cVars, lcdVars, oledVars, epdVars, radioVars, powerVars, vars, timerVars, rtcVars>>
  \/ part = "power" /\ P!Next
       /\ UNCHANGED <<part, sspVars, i2cVars, lcdVars, oledVars, epdVars, radioVars, cardVars, vars, timerVars, rtcVars>>
  \/ part = "gpio" /\ Next
       /\ UNCHANGED <<part, sspVars, i2cVars, lcdVars, oledVars, epdVars, radioVars, cardVars, powerVars, timerVars, rtcVars>>
  \/ part = "timer" /\ T!Next
       /\ UNCHANGED <<part, sspVars, i2cVars, lcdVars, oledVars, epdVars, radioVars, cardVars, powerVars, vars, rtcVars>>
  \/ part = "rtc" /\ R!Next
       /\ UNCHANGED <<part, sspVars, i2cVars, lcdVars, oledVars, epdVars, radioVars, cardVars, powerVars, vars, timerVars>>

AllSpec == AllInit /\ [][AllNext]_allVars

\* The properties of the parts, and NoEventUnseen of the pins.
FramesKept      == S!FramesKept
I2cDevicesSound == I!I2cDevicesSound
ScreensInStep   == L!LcdInStep /\ O!PanelShows
EpaperSound     == E!EpaperSound
RadioInStep     == C!RadioInStep
CardSound       == M!CardSound
PowerSound      == P!PowerSound
TimersSound     == T!TimersSound
AlarmComes      == R!AlarmComes
=============================================================================
