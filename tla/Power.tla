------------------------------- MODULE Power -------------------------------
(***************************************************************************)
(* Clocks and power (core/system.c), the devices that derive a clock of    *)
(* their own from the main clock (serial, ssp, i2c, adc, countertimers),   *)
(* and the watchdog (core/watchdog.c).  Frequencies are in kHz.            *)
(***************************************************************************)
EXTENDS Integers

CONSTANTS
  BaudRates, SspRates, I2cRates, TimerRates,   \* what devices are asked for
  MaxChanges   \* bound: calls

\* Baud rates in hundreds, the others in kHz.  A divider is good to a tenth up
\* to 75000 baud and for 115200, the standard rates; those beyond need the table.
\* The rates of the I2C bus divide 12 MHz.
PowerAssumption ==
  /\ BaudRates \cup SspRates \cup I2cRates \cup TimerRates \subseteq Nat \ {0}
  /\ \A baud \in BaudRates : baud <= 750 \/ baud >= 1152
  /\ \A freq \in I2cRates : 12000 % freq = 0
  /\ MaxChanges \in Nat

VARIABLES
  sys,     \* lpc_sys_config and lpc_private: sources, what is powered, flash
  step,    \* where clock_config is, and for which frequency; "run" outside
  dev,     \* per device: the rate asked for, 0 when it is off
  div,     \* the dividers in the registers of the devices
  wdt,     \* the watchdog's registers
  changes  \* calls so far, and what the last stop_watchdog returned

vars == <<sys, step, dev, div, wdt, changes>>

IRC == 12000

\* FREQ_SEL_60MHz, 48, 36, 24 and 12 MHz, which is FREQ_SEL_IRC.
Selections ==
  {[m |-> 5, wait |-> 1, over |-> FALSE], [m |-> 4, wait |-> 0, over |-> FALSE],
   [m |-> 3, wait |-> 0, over |-> FALSE], [m |-> 2, wait |-> 0, over |-> TRUE],
   [m |-> 1, wait |-> 0, over |-> TRUE]}

Init ==
  /\ sys = [main |-> "irc", pll |-> [on |-> FALSE, from |-> "irc", m |-> 1, p |-> 1],
            clock |-> IRC, irc |-> TRUE, wdosc |-> FALSE, bod |-> FALSE, clkout |-> "off",
            flash |-> [over |-> TRUE, wait |-> 0], powered |-> {},
            sleep |-> {}, wake |-> {}]
  /\ step = [pc |-> "run", sel |-> [m |-> 1, wait |-> 0, over |-> TRUE]]
  /\ dev = [uart |-> 0, ssp |-> 0, i2c |-> 0, timer |-> 0]
  /\ div = [uart |-> 0, frac |-> FALSE, pclk |-> 0, prescale |-> 2, i2c |-> 0, adc |-> 0, timer |-> 0]
  /\ wdt = [en |-> FALSE, reset |-> FALSE, clk |-> "irc", locks |-> {}]
  /\ changes = [n |-> 0, stopped |-> FALSE]

Change == step.pc = "run" /\ changes.n < MaxChanges /\ changes' = [n |-> changes.n + 1, stopped |-> FALSE]

-----------------------------------------------------------------------------
(* Power.  A register of a block without its clock keeps its value.        *)

subsystem_power(s, block, on) ==
  [s EXCEPT !.powered = IF on THEN @ \cup {block} ELSE @ \ {block}]

Powered(s) == {x \in {"irc", "wdosc", "bod", "pll"} :
                 CASE x = "irc" -> s.irc [] x = "wdosc" -> s.wdosc [] x = "bod" -> s.bod [] OTHER -> s.pll.on}

\* The watchdog's clock cannot be switched off once its power is locked.
WdoscOff(s, w) ==
  IF "power" \in w.locks /\ w.clk = "wdosc" THEN s ELSE [s EXCEPT !.wdosc = FALSE]

system_set_default_power_state ==
  /\ Change /\ \A d \in DOMAIN dev : dev[d] = 0
  /\ sys' = [sys EXCEPT !.powered = {}]
  /\ UNCHANGED <<step, dev, div, wdt>>

system_brown_out_detection_config ==
  /\ Change
  /\ \E on \in BOOLEAN : sys' = [sys EXCEPT !.bod = on]
  /\ UNCHANGED <<step, dev, div, wdt>>

clkout_on ==
  /\ Change
  /\ \E src \in {"irc", "main"} : sys' = [sys EXCEPT !.clkout = src]
  /\ UNCHANGED <<step, dev, div, wdt>>
clkout_off == Change /\ sys' = [sys EXCEPT !.clkout = "off"] /\ UNCHANGED <<step, dev, div, wdt>>

\* What stays powered in deep sleep, and after it.
enter_deep_sleep ==
  /\ Change
  /\ sys' = [sys EXCEPT !.sleep = IF sys.bod THEN {"bod"} ELSE {}, !.wake = Powered(sys)]
  /\ UNCHANGED <<step, dev, div, wdt>>

\* Nothing more runs: the wake-up is a reset.
enter_deep_power_down ==
  /\ Change
  /\ sys' = [sys EXCEPT !.main = "irc", !.irc = TRUE, !.sleep = {}, !.wake = Powered(sys)]
  /\ step' = [step EXCEPT !.pc = "down"]
  /\ UNCHANGED <<dev, div, wdt>>

-----------------------------------------------------------------------------
(* The dividers the devices work out from the main clock.                  *)

\* A rate the divider cannot make needs the table, and 48 MHz for it.
Exact(baud, clock) == ((10 * clock) \div (16 * baud)) * baud * 16 = 10 * clock
uart_clk_on(d, baud, clock) ==
  IF baud <= 1152 \/ Exact(baud, clock) THEN [d EXCEPT !.uart = (10 * clock) \div (16 * baud)]
  ELSE IF clock # 48000 THEN d
  ELSE [d EXCEPT !.uart = IF baud <= 2500 THEN 12 ELSE 2, !.frac = TRUE]

\* The first even prescaler leaves few enough to divide by.
ssp_clk_on(d, rate, clock) == [d EXCEPT !.prescale = 2, !.pclk = (clock \div rate) \div 2]
SspRate(d, clock) == IF d.pclk = 0 THEN 0 ELSE clock \div (d.prescale * d.pclk)

i2c_clock_on(d, freq, clock) == [d EXCEPT !.i2c = clock \div freq]

\* The new divider is or'ed into the old one.
Or(a, b) == LET bit(w) == IF (a \div w) % 2 = 1 \/ (b \div w) % 2 = 1 THEN w ELSE 0
            IN  bit(1) + bit(2) + bit(4) + bit(8)
adc_clk_update(d, s) == IF "adc" \in s.powered THEN [d EXCEPT !.adc = Or(@, s.clock \div 9000)] ELSE d

\* Mutant: the I2C bus keeps the divider of the clock it was switched on at.
PropagateNoI2c(d, s) ==
  LET u == IF dev.uart = 0 THEN d ELSE uart_clk_on(d, dev.uart, s.clock)
      p == IF dev.ssp = 0 THEN u ELSE ssp_clk_on(u, dev.ssp, s.clock)
  IN  adc_clk_update(p, s)
\* Those that are on hear of a change of the clock; the timers do not.
propagate_main_clock(d, s) ==
  LET u == IF dev.uart = 0 THEN d ELSE uart_clk_on(d, dev.uart, s.clock)
      i == IF dev.i2c = 0 THEN u ELSE i2c_clock_on(u, dev.i2c, s.clock)
      p == IF dev.ssp = 0 THEN i ELSE ssp_clk_on(i, dev.ssp, s.clock)
  IN  adc_clk_update(p, s)

-----------------------------------------------------------------------------
(* clock_config, with the interrupts masked; the hardware sees every step. *)

Goto(pc) == step' = [step EXCEPT !.pc = pc]
Still == UNCHANGED <<dev, wdt, changes>>

clock_config ==
  /\ Change
  /\ \E sel \in Selections : step' = [pc |-> "irc", sel |-> sel]
  /\ sys' = [sys EXCEPT !.irc = TRUE]
  /\ UNCHANGED <<dev, div, wdt>>

ToIrc == step.pc = "irc" /\ sys' = [sys EXCEPT !.main = "irc"] /\ Goto("flash") /\ UNCHANGED div /\ Still

\* Override: one cycle; else the number of wait states.
flash_accelerator_config ==
  /\ step.pc = "flash" /\ Goto("pll_off") /\ UNCHANGED div /\ Still
  /\ sys' = [sys EXCEPT !.flash = IF step.sel.over THEN [@ EXCEPT !.over = TRUE]
                                  ELSE [over |-> FALSE, wait |-> step.sel.wait]]

PllOff ==
  /\ step.pc = "pll_off" /\ UNCHANGED div /\ Still
  /\ IF step.sel.m = 1
     THEN sys' = [sys EXCEPT !.pll.on = FALSE, !.clock = IRC] /\ Goto("propagate")
     ELSE sys' = [sys EXCEPT !.pll.on = FALSE] /\ Goto("pll")

\* The code of the frequency is compared with 2 and 3: the post divider is
\* always that of the default.
FreqCode == step.sel.m * 8 + step.sel.wait * 2 + (IF step.sel.over THEN 1 ELSE 0)
PostDivider == IF FreqCode \in {2, 3} THEN 2 ELSE 1
PllSetup ==
  /\ step.pc = "pll" /\ Goto("switch") /\ UNCHANGED div /\ Still
  /\ sys' = [sys EXCEPT !.clock = step.sel.m * IRC,
               !.pll = [on |-> TRUE, from |-> "irc", m |-> step.sel.m, p |-> 2^PostDivider]]

\* Once it has locked.
ToPll == step.pc = "switch" /\ sys' = [sys EXCEPT !.main = "pll"] /\ Goto("propagate") /\ UNCHANGED div /\ Still

Propagate ==
  /\ step.pc = "propagate" /\ Goto("run") /\ Still
  /\ div' = propagate_main_clock(div, sys)
  /\ UNCHANGED sys

-----------------------------------------------------------------------------
(* The devices on and off.                                                 *)

uart_on ==
  /\ Change
  /\ \E baud \in BaudRates :
       dev' = [dev EXCEPT !.uart = baud] /\ div' = uart_clk_on(div, baud, sys.clock)
  /\ sys' = subsystem_power(sys, "uart", TRUE) /\ UNCHANGED <<step, wdt>>

\* A rate above half the main clock has no divider (and is divided by).  What is
\* kept for the next change of the clock is the rate achieved.
ssp_master_on ==
  /\ Change
  /\ \E rate \in {r \in SspRates : 2 * r <= sys.clock} :
       /\ div' = ssp_clk_on(div, rate, sys.clock)
       /\ dev' = [dev EXCEPT !.ssp = SspRate(div', sys.clock)]
  /\ sys' = subsystem_power(sys, "ssp", TRUE) /\ UNCHANGED <<step, wdt>>

i2c_on ==
  /\ Change
  /\ \E freq \in I2cRates :
       dev' = [dev EXCEPT !.i2c = freq] /\ div' = i2c_clock_on(div, freq, sys.clock)
  /\ sys' = subsystem_power(sys, "i2c", TRUE) /\ UNCHANGED <<step, wdt>>

countertimer_on ==
  /\ Change
  /\ \E rate \in TimerRates : /\ dev' = [dev EXCEPT !.timer = rate]
                              /\ div' = [div EXCEPT !.timer = (sys.clock \div rate) - 1]
  /\ sys' = subsystem_power(sys, "timer", TRUE) /\ UNCHANGED <<step, wdt>>

\* uart_off, ssp_off, i2c_off and countertimer_off.
DeviceOff ==
  /\ Change
  /\ \E d \in DOMAIN dev : /\ dev[d] # 0
                           /\ dev' = [dev EXCEPT ![d] = 0]
                           /\ sys' = subsystem_power(sys, d, FALSE)
  /\ UNCHANGED <<step, div, wdt>>

\* The converter needs the brown-out detector.
adc_on ==
  /\ Change
  /\ sys' = [subsystem_power(sys, "adc", TRUE) EXCEPT !.bod = TRUE]
  /\ div' = adc_clk_update(div, sys')
  /\ UNCHANGED <<step, dev, wdt>>
adc_off == Change /\ sys' = subsystem_power(sys, "adc", FALSE) /\ UNCHANGED <<step, dev, div, wdt>>

-----------------------------------------------------------------------------
(* The watchdog; the hardware keeps to the locks.                          *)

Locks == {"power", "source", "enable", "timer"}

\* Two bits at a time are enough to tell the locks apart.
watchdog_config ==
  /\ Change
  /\ \E clk \in {"irc", "wdosc"}, reset \in BOOLEAN, a, b \in Locks \cup {"none"} :
       /\ sys' = [sys EXCEPT !.irc = @ \/ clk = "irc", !.wdosc = @ \/ clk = "wdosc"]
       /\ wdt' = [en |-> TRUE, reset |-> reset, locks |-> wdt.locks \cup ({a, b} \ {"none"}),
                  clk |-> IF "source" \in wdt.locks THEN wdt.clk ELSE clk]
  /\ UNCHANGED <<step, dev, div>>

\* watchdog_lock_enable, _timer_val, _clk_src_power and _clk_src.
WatchdogLock ==
  /\ Change
  /\ \E l \in Locks : wdt' = [wdt EXCEPT !.locks = @ \cup {l}]
  /\ UNCHANGED <<sys, step, dev, div>>
watchdog_lock_full == Change /\ wdt' = [wdt EXCEPT !.locks = Locks] /\ UNCHANGED <<sys, step, dev, div>>

startup_watchdog_disable ==
  /\ Change /\ wdt.locks = {}
  /\ wdt' = [wdt EXCEPT !.en = FALSE, !.reset = FALSE]
  /\ sys' = WdoscOff(sys, wdt)
  /\ UNCHANGED <<step, dev, div>>

\* With its clock's power locked the watchdog is moved off it first.
SourceAway(w) == IF w.clk = "wdosc" /\ "power" \in w.locks THEN [w EXCEPT !.clk = "irc"] ELSE w

IrcUnused(s) == s.main # "irc" /\ s.main = "pll" /\ s.pll.from # "irc" /\ s.clkout # "irc"

\* The enable bit when it is not locked, else the clock when that is not; then
\* the internal oscillator when nothing runs from it.
stop_watchdog ==
  /\ step.pc = "run" /\ changes.n < MaxChanges
  /\ LET ok == "enable" \notin wdt.locks \/ "source" \notin wdt.locks
         dark == WdoscOff(sys, SourceAway(wdt))
         s == IF "enable" \in wdt.locks /\ ok THEN dark ELSE sys
     IN  /\ wdt' = CASE "enable" \notin wdt.locks -> [wdt EXCEPT !.en = FALSE]
                     [] "enable" \in wdt.locks /\ ok -> [wdt EXCEPT !.clk = "wdosc"]
                     [] OTHER -> wdt
         /\ sys' = IF ok /\ "power" \notin wdt.locks /\ IrcUnused(s) THEN [s EXCEPT !.irc = FALSE] ELSE s
         /\ changes' = [n |-> changes.n + 1, stopped |-> ok]
  /\ UNCHANGED <<step, dev, div>>

Next ==
  \/ system_set_default_power_state \/ system_brown_out_detection_config
  \/ enter_deep_sleep \/ enter_deep_power_down \/ clkout_on \/ clkout_off \/ clock_config \/ ToIrc \/ flash_accelerator_config
  \/ PllOff \/ PllSetup \/ ToPll \/ Propagate
  \/ uart_on \/ ssp_master_on \/ i2c_on \/ countertimer_on \/ DeviceOff \/ adc_on \/ adc_off
  \/ watchdog_config \/ WatchdogLock \/ watchdog_lock_full \/ startup_watchdog_disable \/ stop_watchdog

Spec == Init /\ [][Next]_vars

-----------------------------------------------------------------------------
(* Properties.                                                             *)

\* The clock the processor runs from now.
Running == IF sys.main = "irc" THEN IRC ELSE sys.pll.m * IRC

\* At every step of a change of frequency the main clock has a source that
\* is powered, and the flash is given the time it needs at the frequency of the
\* moment, also on the way down.
ClockAlive ==
  /\ sys.main = "irc" => sys.irc
  /\ sys.main = "pll" => sys.pll.on /\ (sys.pll.from = "irc" => sys.irc)
  /\ sys.flash.over => Running <= 24000
  /\ (~sys.flash.over /\ sys.flash.wait = 0) => Running <= 48000

\* Whatever the main clock was when a device was switched on, and however often
\* it has changed since: the baud rate is within a tenth of the one asked for
\* (a rate of the table apart), the I2C clock that of the bus, the converter's
\* clock not beyond its 9 MHz, and the SPI clock below twice the rate achieved
\* first.  (The timers keep the prescaler of the clock they were started at.)
RatesFollow ==
  step.pc = "run" =>
    /\ (dev.uart # 0 /\ dev.uart <= 1152 /\ ~div.frac) =>
         LET asked == 16 * dev.uart * div.uart IN
           asked <= 10 * sys.clock /\ 100 * sys.clock <= 11 * asked
    /\ dev.i2c # 0 => div.i2c * dev.i2c = sys.clock
    /\ "adc" \in sys.powered => sys.clock <= 9000 * (div.adc + 1)
    /\ (dev.ssp # 0 /\ div.pclk # 0) => SspRate(div, sys.clock) < 2 * dev.ssp

\* stop_watchdog returns 0 only when the watchdog does not count any more.
StoppedMeansStopped ==
  changes.stopped => ~(wdt.en /\ IF wdt.clk = "irc" THEN sys.irc ELSE sys.wdosc)

PowerSound == ClockAlive /\ RatesFollow /\ StoppedMeansStopped

\* The comment of clock_config: "FCCO must be between 156MHz and 320MHz",
\* with "FCCO = 2 * P * Freq_out".
FccoInRange == sys.pll.on => 2 * sys.pll.p * sys.pll.m * IRC \in 156000 .. 320000
=============================================================================
