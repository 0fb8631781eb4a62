------------------------------- MODULE Readings ------------------------------
(***************************************************************************)
(* Two readings that are computed from what a sensor says: the degrees of  *)
(* the thermocouple (extdrv/max31855_thermocouple.c), read over the SPI    *)
(* bus, and the light of the TSL256x (calculate_lux of                     *)
(* extdrv/tsl256x_light_sensor.c).                                         *)
(***************************************************************************)
EXTENDS Integers, Sequences

CONSTANTS
  Raw,       \* the words of the thermocouple: quarter degrees and the fault bit
  Packages,  \* the packages of the light sensor, "T" or "C"
  Counts     \* the counts of its two channels

VARIABLES
  thermo, \* the mutex of the bus, the chip select and the result of a reading
  light   \* the last package, counts and light

-----------------------------------------------------------------------------
(* The thermocouple.                                                       *)

\* A word is its quarter degrees, whether it has the fault bit, and its low bits.
max31855_convert_to_centi_degrees(quarters) == (quarters * 100) \div 4

\* Somebody else has the bus or leaves it, between two readings.
OtherOwner ==
  /\ light.package = "none" /\ thermo.pc = "idle"
  /\ thermo' = [thermo EXCEPT !.mutex = ~ @]
  /\ UNCHANGED light

max31855_sensor_read ==
  /\ light.package = "none" /\ thermo.pc = "idle"
  /\ thermo' = IF thermo.mutex THEN [thermo EXCEPT !.ret = "EBUSY"]
               ELSE [thermo EXCEPT !.mutex = TRUE, !.cs = FALSE, !.pc = "frames"]
  /\ UNCHANGED light
FramesRead ==
  /\ thermo.pc = "frames"
  /\ \E w \in Raw :
       thermo' = [thermo EXCEPT !.cs = TRUE, !.mutex = FALSE, !.pc = "idle", !.word = w,
         !.ret = IF w.fault THEN "ENODEV" ELSE "ok",
         !.degrees = IF w.fault THEN @ ELSE max31855_convert_to_centi_degrees(w.quarters)]
  /\ UNCHANGED light

-----------------------------------------------------------------------------
(* The light.                                                              *)

\* The ratio up to which a line holds, in 512ths, and its slope and weight.
Lines(package) ==
  IF package = "T"
  THEN <<<<64, 498, 446>>, <<128, 532, 721>>, <<192, 575, 891>>, <<256, 624, 1022>>,
         <<312, 367, 508>>, <<410, 210, 251>>, <<666, 24, 18>>>>
  ELSE <<<<67, 516, 429>>, <<133, 552, 705>>, <<200, 595, 867>>, <<266, 642, 991>>,
         <<333, 375, 477>>, <<410, 257, 295>>, <<666, 55, 43>>>>

\* What the counts are multiplied by for the time of integration, in 1024ths.
chScale(time, gain) ==
  (CASE time = "13ms" -> (322 \div 11) * 2048 [] time = "100ms" -> (322 \div 81) * 2048
     [] time = "400ms" -> 1024) * (IF gain = "low" THEN 16 ELSE 1)

\* Mutant: the ratio is that of channel 0 to channel 1.
RatioSwapped(channel0, channel1) ==
  ((IF channel1 = 0 THEN 0 ELSE (channel0 * 1024) \div channel1) + 1) \div 2
Ratio(channel0, channel1) ==
  ((IF channel0 = 0 THEN 0 ELSE (channel1 * 1024) \div channel0) + 1) \div 2

\* Unsigned: what is below zero is near 2^32, 2^18 after the shift.
calculate_lux(package, channel0, channel1) ==
  LET ratio == Ratio(channel0, channel1)
      fits  == { i \in 1 .. 7 : ratio <= Lines(package)[i][1] }
      line  == IF fits = {} THEN <<0, 0, 0>>
               ELSE Lines(package)[CHOOSE i \in fits : \A j \in fits : i <= j]
      lux   == (channel0 * line[2] - channel1 * line[3] + 8192) \div 16384
  IN  IF lux < 0 THEN 262144 + lux ELSE lux

\* Nothing is kept from one measure to the next: a behaviour has one.
Measure ==
  /\ light.package = "none"
  /\ \E p \in Packages, c0, c1 \in Counts, time \in {"13ms", "100ms", "400ms"}, g \in {"low", "high"} :
       LET Scaled(c) == (c * chScale(time, g)) \div 1024
       IN  light' = [package |-> p, ch0 |-> Scaled(c0), ch1 |-> Scaled(c1),
                     lux |-> calculate_lux(p, Scaled(c0), Scaled(c1))]
  /\ UNCHANGED thermo

-----------------------------------------------------------------------------
Init ==
  /\ thermo = [mutex |-> FALSE, cs |-> TRUE, pc |-> "idle", word |-> [quarters |-> 0, fault |-> FALSE],
               ret |-> "ok", degrees |-> 0]
  /\ light = [package |-> "none", ch0 |-> 0, ch1 |-> 0, lux |-> 0]

Next == OtherOwner \/ max31855_sensor_read \/ FramesRead \/ Measure

-----------------------------------------------------------------------------
(* Properties.                                                             *)

\* The bus is left free and the chip unselected, also after a fault; the
\* degrees are those of the last word without one (max31855 .c:56).
ThermoRight ==
  /\ thermo.cs = (thermo.pc = "idle") /\ (thermo.pc = "frames" => thermo.mutex)
  /\ thermo.ret = "ok" /\ thermo.pc = "idle" =>
       thermo.degrees = 25 * thermo.word.quarters /\ ~ thermo.word.fault

\* Up to the ratio where the last line of package C goes below zero, light is
\* never below zero, and more infrared at the same channel 0 never gives more
\* lux, over the seams of the seven lines too, but for a two hundredth of
\* channel 0 (tsl256x_light_sensor.c:176, the tables of its header).
LightRight ==
  LET l == light
      darker == l.ch1 + l.ch0 \div 64
  IN  l.ch0 > 0 /\ Ratio(l.ch0, darker) <= 650 =>
        /\ l.lux <= 1 + (l.ch0 * 516) \div 16384
        /\ calculate_lux(l.package, l.ch0, darker) <= l.lux + 1 + l.ch0 \div 200

ReadingsSound == ThermoRight /\ LightRight
=============================================================================
