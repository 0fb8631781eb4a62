-------------------------------- MODULE Dht11 -------------------------------
(***************************************************************************)
(* The DHT11, a sensor that speaks on one wire and is read by waiting      *)
(* loops (extdrv/dht11.c), with the status LED that shows how it went      *)
(* (extdrv/status_led.c).  Times are in microseconds.                      *)
(***************************************************************************)
EXTENDS Integers, Sequences, SequencesExt

CONSTANTS
  Readings,  \* the four bytes the sensor may have to say
  Delays,    \* how late an interrupt may make a sample; one does in a reading
  Epsilons   \* the errors the caller tolerates in the checksum

VARIABLES
  dht,   \* the bits the sensor sends, the time, the bits read and how far the call is
  leds   \* the red and the green LED, and the step of chenillard

-----------------------------------------------------------------------------
(* The status LED.                                                         *)

Lit(red, green) == [leds EXCEPT !.red = red, !.green = green]
status_led(val) ==
  CASE val = "red_only"     -> Lit(TRUE, FALSE)
    [] val = "red_on"       -> Lit(TRUE, leds.green)
    [] val = "red_off"      -> Lit(FALSE, leds.green)
    [] val = "red_toggle"   -> Lit(~ leds.red, leds.green)
    [] val = "green_only"   -> Lit(FALSE, TRUE)
    [] val = "green_on"     -> Lit(leds.red, TRUE)
    [] val = "green_off"    -> Lit(leds.red, FALSE)
    [] val = "green_toggle" -> Lit(leds.red, ~ leds.green)
    [] val = "both"         -> Lit(TRUE, TRUE)
    [] val = "toggle"       -> Lit(~ leds.red, ~ leds.green)
    [] val = "none"         -> Lit(FALSE, FALSE)

steps == <<"red_only", "green_only", "none", "both", "none", "red_only", "red_only", "none",
           "green_only", "green_only", "none">>

\* One step of the sequence, before a reading.
chenillard ==
  /\ dht.pc = "idle"
  /\ leds' = [status_led(steps[(leds.n % Len(steps)) + 1]) EXCEPT !.n = (@ + 1) % Len(steps)]
  /\ UNCHANGED dht

-----------------------------------------------------------------------------
(* The DHT11.  After its answer each bit is 50 low, then high for 26 or    *)
(* 70; after the last one it is low once more and lets the line rise.      *)

BitsOf(bytes) == [i \in 1 .. 8 * Len(bytes) |->
                    (bytes[(i - 1) \div 8 + 1] \div 2^(7 - ((i - 1) % 8))) % 2]
Total(bytes) == FoldLeft(LAMBDA s, b : (s + b) % 256, 0, bytes)

\* When the high part of each bit starts, and the line is free at the end.
Rises(bits) ==
  FoldLeft(LAMBDA r, b : Append(r, Last(r) + (IF b = 1 THEN 70 ELSE 26) + 50), <<50>>, bits)
FallOf(k) == dht.rises[k + 1] - 50
High(t) == \/ t >= Last(dht.rises)
           \/ \E k \in 1 .. Len(dht.bits) : dht.rises[k] <= t /\ t < FallOf(k)

\* The next time the line is high, or low; there may be no time it is low again.
NextHigh(t) == IF High(t) THEN t ELSE dht.rises[CHOOSE k \in 1 .. Len(dht.rises) :
                 t <= dht.rises[k] /\ \A j \in 1 .. k - 1 : dht.rises[j] < t]
NextLow(t) == IF ~ High(t) THEN t ELSE FallOf(CHOOSE k \in 1 .. Len(dht.bits) :
                dht.rises[k] <= t /\ t < FallOf(k))

\* dht11_display asks and waits for the answer; without a sensor the line stays
\* high and it waits for ever.
Ask ==
  /\ dht.pc = "idle"
  /\ \/ \E bytes \in Readings, e \in Epsilons :
          LET bits == BitsOf(Append(bytes, Total(bytes)))
          IN  dht' = [pc |-> "reading", bits |-> bits, rises |-> Rises(bits), t |-> 0,
                      val |-> <<>>, late |-> FALSE, epsilon |-> e]
     \/ dht' = [dht EXCEPT !.pc = "stuck"]
  /\ UNCHANGED leds

\* The sample is 35 after the rise, or later.
Sample(delay) == NextHigh(dht.t) + 35 + delay

\* dht11_read_dat, one of its bits: the last loop waits for the line to fall.
ReadBit ==
  /\ dht.pc = "reading" /\ Len(dht.val) < Len(dht.bits)
  /\ \E d \in Delays \union {0} :
       /\ d > 0 => ~ dht.late
       /\ LET s == Sample(d) IN
            dht' = [dht EXCEPT !.val = Append(@, IF High(s) THEN 1 ELSE 0),
                               !.late = @ \/ d > 0,
                               !.t = IF s >= Last(dht.rises) THEN @ ELSE NextLow(s),
                               !.pc = IF s >= Last(dht.rises) THEN "stuck" ELSE @]
  /\ UNCHANGED leds

Byte(bits, n) == FoldLeft(LAMBDA v, i : 2 * v + bits[8 * n + i - 8], 0, <<1, 2, 3, 4, 5, 6, 7, 8>>)
Bytes(bits) == [n \in 1 .. Len(bits) \div 8 |-> Byte(bits, n)]

\* The checksum is compared only when no error is tolerated: it cannot be below
\* the one number and above the other.
Wrong(sum, told, epsilon) ==
  /\ sum # told
  /\ \/ epsilon = 0
     \/ sum < told - epsilon /\ sum > told + epsilon

Display ==
  /\ dht.pc = "reading" /\ Len(dht.val) = Len(dht.bits)
  /\ LET data == Bytes(dht.val) IN
       leds' = status_led(IF Wrong(Total(Front(data)), Last(data), dht.epsilon)
                          THEN "red_only" ELSE "green_only")
  /\ dht' = [dht EXCEPT !.pc = "shown"]

-----------------------------------------------------------------------------
Init ==
  /\ dht = [pc |-> "idle", bits |-> <<>>, rises |-> <<>>, t |-> 0, val |-> <<>>, late |-> FALSE,
            epsilon |-> 0]
  /\ leds = [red |-> FALSE, green |-> TRUE, n |-> 0]

Next == chenillard \/ Ask \/ ReadBit \/ Display

-----------------------------------------------------------------------------
(* Properties.                                                             *)

\* A reading without a late sample is the one the sensor sent.  A late sample
\* that turns one bit over lights the red LED, as long as no error is
\* tolerated; only one that skips the end of a bit holds the call for ever
\* (dht11.c:58, 113).
ReadingRight ==
  /\ dht.pc # "idle" /\ dht.rises # <<>> /\ ~ dht.late =>
       dht.pc # "stuck" /\ dht.val = SubSeq(dht.bits, 1, Len(dht.val))
  /\ dht.pc = "shown" =>
       LET wrong == { i \in DOMAIN dht.bits : dht.bits[i] # dht.val[i] } IN
       /\ leds.red # leds.green
       /\ dht.epsilon = 0 /\ (\E i \in wrong : wrong = {i}) => leds.red
       /\ wrong = {} => leds.green
=============================================================================
