--------------------------- MODULE HardwareProofs ---------------------------
(***************************************************************************)
(* What the runs check of the microcontroller's parts, for every value of  *)
(* the constants: no event of a pin goes unseen (Gpio), no match of a      *)
(* timer is lost (Timers), the alarm comes when it is due (Rtc), the       *)
(* clocks and the dividers stay within their limits (Power), an SPI        *)
(* transfer loses no frame (Ssp), and a call of an I2C device that reports *)
(* success did what it was asked (I2cDevices).  The parts share no         *)
(* variable: each has an inductive invariant of its own, and a step of     *)
(* another part leaves it alone.                                           *)
(***************************************************************************)
EXTENDS MCHardware, Sequences, FiniteSetTheorems, TLAPS

(***************************************************************************)
(* The pins and their interrupts (Gpio).                                   *)
(***************************************************************************)

PinT == [out : BOOLEAN, level : {0, 1}, sense : Senses, en : BOOLEAN, raw : BOOLEAN,
         cb : BOOLEAN]

\* The shape of the state.
GpioShape ==
  /\ gpio \in [Pins -> PinT]
  /\ news \subseteq Pins
  /\ ports = [on |-> ports.on, irq |-> ports.irq]
  /\ isr \in [port : Int, left : SUBSET Pins, at : {"idle", "call", "clear"}]
  /\ setting.op \in {"none", "set", "remove"}
  /\ setting.op # "none" => setting.pin \in Pins
  /\ setting.op = "set" =>
       /\ setting.sense \in Senses \cup {"unknown"}
       /\ setting = [op |-> "set", pin |-> setting.pin, sense |-> setting.sense, at |-> setting.at]

\* A pin whose interrupt is enabled is on a port whose interrupt is on.
EnabledPart == \A p \in Pins : gpio[p].en => p.port \in ports.irq

\* A pin with an event has its callback in place, takes edges, and no call
\* is changing it.
NewsPart ==
  \A p \in news : gpio[p].cb /\ gpio[p].en /\ ~Level(p) /\ ~Changing(p)

\* Its edge is latched until the callback was called.
LatchPart == \A p \in news : gpio[p].raw \/ p \in flag

\* What the handler is about to clear has had its callback.
HandlerPart ==
  isr.at = "clear" =>
    LET p == Lowest(isr.left) IN p \in Pins /\ gpio[p].cb => p \in flag

GpioInv == GpioShape /\ EnabledPart /\ NewsPart /\ LatchPart /\ HandlerPart

-----------------------------------------------------------------------------

\* At power on no pin has a callback.
LEMMA GpioInit == AllInit => GpioInv
  BY DEF AllInit, Init, NoIsr, NoCall, GpioInv, GpioShape, PinT, Senses, EnabledPart, NewsPart, LatchPart,
         HandlerPart

\* The handler's duty stays while it, the flags and the callbacks do.
LEMMA GpioHandlerStays ==
  ASSUME HandlerPart, UNCHANGED <<isr, flag>>, \A q \in Pins : gpio'[q].cb = gpio[q].cb
  PROVE  HandlerPart'
  <1>1. Lowest(isr.left)' = Lowest(isr.left)
    BY DEF Lowest
  <1> QED BY <1>1 DEF HandlerPart

\* A pin changes: what it selects is latched, and news only with a callback.
LEMMA GpioEdgeKeeps ==
  ASSUME GpioInv, NEW p \in Pins, Edge(p)
  PROVE  GpioInv'
  <1> USE DEF GpioInv
  <1> DEFINE to == 1 - gpio[p].level
             hit == Selected(p, to)
  <1>1. /\ gpio' = [gpio EXCEPT ![p].level = to, ![p].raw = @ \/ hit]
        /\ news' = IF hit /\ gpio[p].en /\ gpio[p].cb /\ ~Changing(p) THEN news \cup {p} ELSE news
        /\ UNCHANGED <<ports, isr, setting, flag>>
    BY DEF Edge
  <1>2. gpio[p] \in PinT /\ to \in {0, 1} /\ hit \in BOOLEAN
    BY DEF GpioShape, PinT, Selected
  <1>3. hit => ~Level(p)
    BY DEF Selected, Level
  <1> HIDE DEF to, hit
  <1>4. gpio'[p] = [gpio[p] EXCEPT !.level = to, !.raw = @ \/ hit] /\ gpio'[p] \in PinT
    BY <1>1, <1>2 DEF GpioShape, PinT
  <1>5. \A q \in Pins \ {p} : gpio'[q] = gpio[q]
    BY <1>1 DEF GpioShape
  <1>6. gpio' \in [Pins -> PinT]
    BY <1>1, <1>4 DEF GpioShape
  <1>7. \A q \in Pins : /\ gpio'[q].cb = gpio[q].cb /\ gpio'[q].en = gpio[q].en
                        /\ gpio'[q].sense = gpio[q].sense
    <2>1. gpio'[p].cb = gpio[p].cb /\ gpio'[p].en = gpio[p].en /\ gpio'[p].sense = gpio[p].sense
      BY <1>2, <1>4 DEF PinT
    <2> QED BY <1>5, <2>1
  <1>8. /\ hit => gpio'[p].raw
        /\ \A q \in Pins : gpio[q].raw => gpio'[q].raw
    <2>1. gpio'[p].raw = (gpio[p].raw \/ hit)
      BY <1>2, <1>4 DEF PinT
    <2> QED BY <1>5, <2>1
  <1>9. GpioShape'
    BY <1>1, <1>6 DEF GpioShape
  <1>10. EnabledPart'
    BY <1>1, <1>7 DEF EnabledPart
  <1>11. NewsPart'
    BY <1>1, <1>3, <1>7 DEF NewsPart, Level, Changing, GpioShape
  <1>12. LatchPart'
    BY <1>1, <1>7, <1>8 DEF LatchPart, GpioShape
  <1>13. HandlerPart'
    BY <1>1, <1>7, GpioHandlerStays
  <1> QED BY <1>9, <1>10, <1>11, <1>12, <1>13

\* The handler: the callback of a pin comes before its bit is cleared.
LEMMA GpioHandlerKeeps ==
  ASSUME GpioInv, (\E port \in Ports : PIO_Handler(port)) \/ Call \/ Clear \/ Return
  PROVE  GpioInv'
  <1> USE DEF GpioInv
  <1>1. CASE (\E port \in Ports : PIO_Handler(port)) \/ Return
    <2>1. isr'.at # "clear" /\ UNCHANGED <<gpio, ports, setting, flag, news>>
      BY <1>1 DEF PIO_Handler, Return, NoIsr
    <2>2. isr' \in [port : Int, left : SUBSET Pins, at : {"idle", "call", "clear"}]
      BY <1>1 DEF PIO_Handler, Return, NoIsr, Ports
    <2> QED BY <2>1, <2>2 DEF GpioShape, EnabledPart, NewsPart, LatchPart, HandlerPart, Level, Changing
  <1>2. CASE Call
    <2> DEFINE p == Lowest(isr.left)
    <2>1. /\ UNCHANGED <<gpio, ports, setting, news>> /\ isr' = [isr EXCEPT !.at = "clear"]
          /\ flag' = IF gpio[p].cb THEN flag \cup {p} ELSE flag
      BY <1>2 DEF Call
    <2> HIDE DEF p
    <2>2. isr' \in [port : Int, left : SUBSET Pins, at : {"idle", "call", "clear"}]
          /\ isr'.left = isr.left
      BY <2>1 DEF GpioShape
    <2>3. HandlerPart'
      BY <2>1, <2>2 DEF HandlerPart, Lowest, p
    <2> QED BY <2>1, <2>2, <2>3
            DEF GpioShape, EnabledPart, NewsPart, LatchPart, Level, Changing
  <1>3. CASE Clear
    <2> DEFINE p == Lowest(isr.left)
    <2>1. /\ isr.at = "clear" /\ gpio' = ClearBits({p})
          /\ isr' = [isr EXCEPT !.left = @ \ {p}, !.at = "call"]
          /\ UNCHANGED <<ports, setting, flag, news>>
      BY <1>3 DEF Clear, Cleared
    <2>2. p \in Pins /\ gpio[p].cb => p \in flag
      BY <2>1 DEF HandlerPart
    <2> HIDE DEF p
    <2>3. isr' \in [port : Int, left : SUBSET Pins, at : {"idle", "call", "clear"}]
          /\ isr'.at # "clear"
      BY <2>1 DEF GpioShape
    <2>4. /\ gpio' \in [Pins -> PinT]
          /\ \A q \in Pins : /\ gpio'[q].cb = gpio[q].cb /\ gpio'[q].en = gpio[q].en
                             /\ gpio'[q].sense = gpio[q].sense
                             /\ q = p \/ gpio'[q].raw = gpio[q].raw
      BY ZenonT(40), <2>1 DEF ClearBits, GpioShape, PinT
    <2> QED BY ZenonT(40), <2>1, <2>2, <2>3, <2>4
            DEF GpioShape, EnabledPart, NewsPart, LatchPart, HandlerPart, Level, Changing
  <1> QED BY <1>1, <1>2, <1>3

\* The main loop lowers the flags it has seen, and sets pins up.
LEMMA GpioAsideKeeps ==
  ASSUME GpioInv, Look \/ gpio_on \/ gpio_off \/ config_gpio
  PROVE  GpioInv'
  <1> USE DEF GpioInv
  <1>1. isr.at # "clear" /\ UNCHANGED <<isr, setting>>
    BY DEF Look, gpio_on, gpio_off, config_gpio, Free, Main
  <1>2. ports'.irq = ports.irq
    BY DEF Look, gpio_on, gpio_off, config_gpio, GpioShape
  <1>3. /\ news' \subseteq news
        /\ \A p \in news' : p \in flag => p \in flag'
    BY DEF Look, gpio_on, gpio_off, config_gpio
  <1>4. /\ gpio' \in [Pins -> PinT]
        /\ \A p \in Pins : /\ gpio'[p].cb = gpio[p].cb /\ gpio'[p].en = gpio[p].en
                           /\ gpio'[p].sense = gpio[p].sense /\ gpio'[p].raw = gpio[p].raw
    <2>1. CASE config_gpio
      BY <2>1 DEF config_gpio, GpioShape, PinT
    <2>2. CASE Look \/ gpio_on \/ gpio_off
      BY <2>2 DEF Look, gpio_on, gpio_off, GpioShape
    <2> QED BY <2>1, <2>2
  <1>5. ports' = [on |-> ports'.on, irq |-> ports'.irq]
    BY DEF Look, gpio_on, gpio_off, config_gpio, GpioShape
  <1>6. GpioShape' /\ HandlerPart'
    BY <1>1, <1>3, <1>4, <1>5 DEF GpioShape, HandlerPart
  <1>7. EnabledPart' /\ LatchPart'
    BY <1>2, <1>3, <1>4 DEF EnabledPart, LatchPart, GpioShape
  <1>8. NewsPart'
    BY <1>1, <1>3, <1>4 DEF NewsPart, Level, Changing, GpioShape
  <1> QED BY <1>6, <1>7, <1>8


\* set_gpio_callback: the callback, the sense, the bit that is cleared, the
\* interrupt.  What came before is no news.
LEMMA GpioSetKeeps ==
  ASSUME GpioInv, set_gpio_callback \/ SetSense \/ SetClear \/ SetEnable
  PROVE  GpioInv'
  <1> USE DEF GpioInv
  <1>1. isr.at = "idle" /\ isr' = isr
    BY DEF set_gpio_callback, SetSense, SetClear, SetEnable, Free, Main
  <1>2. HandlerPart'
    BY <1>1 DEF HandlerPart
  <1>3. CASE set_gpio_callback
    <2>1. PICK p \in Pins, sense \in Senses \cup {"unknown"} :
            /\ gpio' = [gpio EXCEPT ![p].cb = TRUE]
            /\ setting' = [op |-> "set", pin |-> p, sense |-> sense, at |-> "sense"]
            /\ news' = news \ {p} /\ flag' = flag \ {p}
      BY <1>3 DEF set_gpio_callback
    <2>2. setting.op = "none" /\ ports' = ports
      BY <1>3 DEF set_gpio_callback, Free, NoCall
    <2>3. /\ gpio' \in [Pins -> PinT] /\ gpio'[p].en = gpio[p].en
          /\ \A q \in Pins \ {p} : gpio'[q] = gpio[q]
      BY ZenonT(40), <2>1 DEF GpioShape, PinT
    <2>4. GpioShape'
      BY <1>1, <2>1, <2>2, <2>3 DEF GpioShape
    <2>5. EnabledPart'
      BY <2>2, <2>3 DEF EnabledPart
    <2>6. NewsPart' /\ LatchPart'
      BY <2>1, <2>3 DEF NewsPart, LatchPart, Level, Changing, GpioShape
    <2> QED BY <1>2, <2>4, <2>5, <2>6
  <1>4. CASE SetSense
    <2> DEFINE p == setting.pin
    <2>1. /\ setting.op = "set" /\ p \in Pins /\ UNCHANGED <<ports, flag, news>>
          /\ setting.sense \in Senses \cup {"unknown"}
      BY <1>4 DEF SetSense, GpioShape
    <2>2. \/ setting' = NoCall
          \/ setting' = [op |-> "set", pin |-> p, sense |-> setting.sense, at |-> "clear"]
      <3>1. setting = [op |-> "set", pin |-> p, sense |-> setting.sense, at |-> setting.at]
        BY <2>1 DEF GpioShape
      <3> QED BY <1>4, <3>1 DEF SetSense
    <2>3. p \notin news
      BY <2>1 DEF NewsPart, Changing
    <2>4. /\ gpio' \in [Pins -> PinT] /\ gpio'[p].en = gpio[p].en
          /\ \A q \in Pins \ {p} : gpio'[q] = gpio[q]
      <3>1. PICK sense \in Senses :
              gpio' = [gpio EXCEPT ![p].out = FALSE, ![p].sense = sense]
        <4>1. CASE setting.sense = "unknown"
          BY <1>4, <2>1, <4>1 DEF SetSense, GpioShape, PinT
        <4>2. CASE setting.sense # "unknown"
          BY <1>4, <2>1, <4>2 DEF SetSense
        <4> QED BY <4>1, <4>2
      <3> DEFINE new == [gpio[p] EXCEPT !.out = FALSE, !.sense = sense]
      <3>2. gpio' = [gpio EXCEPT ![p] = new] /\ gpio[p] \in PinT
        BY <2>1, <3>1 DEF GpioShape
      <3>3. new \in PinT /\ new.en = gpio[p].en
        <4>1. ASSUME NEW r \in PinT, NEW s \in Senses
              PROVE  /\ [r EXCEPT !.out = FALSE, !.sense = s] \in PinT
                     /\ [r EXCEPT !.out = FALSE, !.sense = s].en = r.en
          BY DEF PinT
        <4> QED BY <3>2, <4>1
      <3> HIDE DEF new
      <3> QED BY <2>1, <3>2, <3>3 DEF GpioShape
    <2> HIDE DEF p
    <2>5. setting'.op = "none" \/ setting'.pin = p
      BY <2>2 DEF NoCall
    <2>6. GpioShape'
      BY <1>1, <2>1, <2>2, <2>4 DEF GpioShape, NoCall
    <2>7. EnabledPart'
      BY <2>1, <2>4 DEF EnabledPart
    <2>8. NewsPart' /\ LatchPart'
      BY <2>1, <2>3, <2>4, <2>5 DEF NewsPart, LatchPart, Level, Changing, GpioShape
    <2> QED BY <1>2, <2>6, <2>7, <2>8
  <1>5. CASE SetClear
    <2> DEFINE p == setting.pin
    <2>1. /\ setting.op = "set" /\ p \in Pins /\ UNCHANGED <<ports, flag>>
          /\ setting.sense \in Senses \cup {"unknown"}
          /\ news' = news \ {p} /\ gpio' = ClearBits({p})
      BY <1>5 DEF SetClear, GpioShape, Cleared
    <2>2. setting' = [op |-> "set", pin |-> p, sense |-> setting.sense, at |-> "enable"]
      <3>1. setting = [op |-> "set", pin |-> p, sense |-> setting.sense, at |-> setting.at]
        BY <2>1 DEF GpioShape
      <3> QED BY <1>5, <3>1 DEF SetClear
    <2> HIDE DEF p
    <2>3. /\ gpio' \in [Pins -> PinT] /\ gpio'[p].en = gpio[p].en
          /\ \A q \in Pins \ {p} : gpio'[q] = gpio[q]
      BY ZenonT(40), <2>1 DEF ClearBits, GpioShape, PinT
    <2>4. GpioShape'
      BY <1>1, <2>1, <2>2, <2>3 DEF GpioShape
    <2>5. EnabledPart'
      BY <2>1, <2>3 DEF EnabledPart
    <2>6. NewsPart' /\ LatchPart'
      BY <2>1, <2>2, <2>3 DEF NewsPart, LatchPart, Level, Changing, GpioShape
    <2> QED BY <1>2, <2>4, <2>5, <2>6
  <1>6. CASE SetEnable
    <2> DEFINE p == setting.pin
    <2>1. /\ setting.op = "set" /\ p \in Pins /\ UNCHANGED <<flag, news>>
          /\ gpio' = [gpio EXCEPT ![p].en = TRUE]
          /\ ports' = [ports EXCEPT !.irq = @ \cup {p.port}]
          /\ setting' = NoCall
      BY <1>6 DEF SetEnable, GpioShape
    <2>2. p \notin news
      BY <2>1 DEF NewsPart, Changing
    <2> HIDE DEF p
    <2>3. /\ gpio' \in [Pins -> PinT]
          /\ \A q \in Pins \ {p} : gpio'[q] = gpio[q]
      BY ZenonT(40), <2>1 DEF GpioShape, PinT
    <2>4. ports'.irq = ports.irq \cup {p.port} /\ ports' = [on |-> ports'.on, irq |-> ports'.irq]
      BY <2>1 DEF GpioShape
    <2>5. GpioShape'
      BY <1>1, <2>1, <2>3, <2>4 DEF GpioShape, NoCall
    <2>6. EnabledPart'
      BY <2>3, <2>4 DEF EnabledPart
    <2>7. NewsPart' /\ LatchPart'
      BY <2>1, <2>2, <2>3 DEF NewsPart, LatchPart, Level, Changing, GpioShape, NoCall
    <2> QED BY <1>2, <2>5, <2>6, <2>7
  <1> QED BY <1>3, <1>4, <1>5, <1>6

\* remove_gpio_callback: the callback goes first, the port's interrupt only
\* with its last pin.
LEMMA GpioRemoveKeeps ==
  ASSUME GpioInv, remove_gpio_callback \/ RemoveDisable
  PROVE  GpioInv'
  <1> USE DEF GpioInv
  <1>1. isr.at = "idle" /\ isr' = isr
    BY DEF remove_gpio_callback, RemoveDisable, Free, Main
  <1>2. HandlerPart'
    BY <1>1 DEF HandlerPart
  <1>3. CASE remove_gpio_callback
    <2>1. PICK p \in Pins :
            /\ gpio' = [gpio EXCEPT ![p].cb = FALSE]
            /\ setting' = [op |-> "remove", pin |-> p]
            /\ news' = news \ {p} /\ flag' = flag \ {p}
      BY <1>3 DEF remove_gpio_callback
    <2>2. ports' = ports
      BY <1>3 DEF remove_gpio_callback
    <2>3. /\ gpio' \in [Pins -> PinT] /\ gpio'[p].en = gpio[p].en
          /\ \A q \in Pins \ {p} : gpio'[q] = gpio[q]
      BY ZenonT(40), <2>1 DEF GpioShape, PinT
    <2>4. GpioShape'
      BY <1>1, <2>1, <2>2, <2>3 DEF GpioShape
    <2>5. EnabledPart'
      BY <2>2, <2>3 DEF EnabledPart
    <2>6. NewsPart' /\ LatchPart'
      BY <2>1, <2>3 DEF NewsPart, LatchPart, Level, Changing, GpioShape
    <2> QED BY <1>2, <2>4, <2>5, <2>6
  <1>4. CASE RemoveDisable
    <2> DEFINE p == setting.pin
    <2>1. /\ setting.op = "remove" /\ p \in Pins /\ UNCHANGED <<flag, news>>
          /\ gpio' = [gpio EXCEPT ![p].en = FALSE]
          /\ ports' = IF Enabled(p.port, gpio') = {}
                      THEN [ports EXCEPT !.irq = @ \ {p.port}] ELSE ports
          /\ setting' = NoCall
      BY <1>4 DEF RemoveDisable, GpioShape
    <2>2. p \notin news
      BY <2>1 DEF NewsPart, Changing
    <2> HIDE DEF p
    <2>3. /\ gpio' \in [Pins -> PinT] /\ ~gpio'[p].en
          /\ \A q \in Pins \ {p} : gpio'[q] = gpio[q]
      BY ZenonT(40), <2>1 DEF GpioShape, PinT
    <2>4. /\ ports' = [on |-> ports'.on, irq |-> ports'.irq]
          /\ \/ ports'.irq = ports.irq
             \/ /\ ports'.irq = ports.irq \ {p.port}
                /\ \A q \in Pins : gpio'[q].en => q.port # p.port
      <3>1. CASE Enabled(p.port, gpio') = {}
        <4>1. \A q \in Pins : gpio'[q].en => q.port # p.port
          BY <3>1 DEF Enabled
        <4>2. ports' = [ports EXCEPT !.irq = @ \ {p.port}]
          BY <2>1, <3>1
        <4> QED BY <4>1, <4>2 DEF GpioShape
      <3>2. CASE Enabled(p.port, gpio') # {}
        <4>1. ports' = ports
          BY <2>1, <3>2, Zenon
        <4> QED BY <4>1 DEF GpioShape
      <3> QED BY <3>1, <3>2
    <2>5. GpioShape'
      BY <1>1, <2>1, <2>3, <2>4 DEF GpioShape, NoCall
    <2>6. EnabledPart'
      BY <2>3, <2>4 DEF EnabledPart
    <2>7. NewsPart' /\ LatchPart'
      BY <2>1, <2>2, <2>3 DEF NewsPart, LatchPart, Level, Changing, GpioShape, NoCall
    <2> QED BY <1>2, <2>5, <2>6, <2>7
  <1> QED BY <1>3, <1>4

\* Every step keeps the invariant.
LEMMA GpioNext == GpioInv /\ [Next]_vars => GpioInv'
  <1> SUFFICES ASSUME GpioInv, [Next]_vars PROVE GpioInv'
    OBVIOUS
  <1>1. CASE UNCHANGED vars
    BY <1>1, GpioHandlerStays
       DEF vars, GpioInv, GpioShape, EnabledPart, NewsPart, LatchPart, Level, Changing
  <1>2. CASE Next
    BY <1>2, GpioEdgeKeeps, GpioHandlerKeeps, GpioAsideKeeps, GpioSetKeeps, GpioRemoveKeeps DEF Next
  <1> QED BY <1>1, <1>2

\* No event on a pin with a callback goes unseen by the main loop: its flag is
\* up, or its interrupt is pending and can be taken (gpio.c).
THEOREM NoEventUnseenAlways == AllSpec => []NoEventUnseen
  <1>1. GpioInv => NoEventUnseen
    BY DEF GpioInv, NoEventUnseen, NewsPart, LatchPart, EnabledPart, GpioShape, Pending, Raw
  <1>2. [AllNext]_allVars => [Next]_vars
    BY DEF AllNext, allVars
  <1>3. GpioInv /\ [AllNext]_allVars => GpioInv'
    BY <1>2, GpioNext
  <1> QED BY <1>1, <1>3, GpioInit, PTL DEF AllSpec

(***************************************************************************)
(* A timer (Timers).                                                       *)
(***************************************************************************)

TmrT == [count : Nat, run : BOOLEAN, reset : BOOLEAN, match : [T!Channels -> Nat],
         ctrl : [T!Channels -> SUBSET T!Controls], pwm : SUBSET T!Channels, flags : SUBSET T!Channels]

\* The shape of the state; an idle handler has read nothing.
TimersShape ==
  /\ tmr \in TmrT
  /\ irqs \in [at : {"idle", "clear", "call"}, flags : SUBSET T!Channels]
  /\ irqs.at = "idle" => irqs.flags = {}
  /\ intact \in BOOLEAN

TimersInv == TimersShape /\ T!MatchesSeen /\ T!CounterBounded

\* At power on the counter rests at 0 and no flag is up.
LEMMA TimersInit == AllInit => TimersInv
  BY DEF AllInit, T!Init, TimersInv, TimersShape, TmrT, T!Channels, T!Controls, T!MatchesSeen, T!CounterBounded, T!InRange

\* A remainder is not more than what was divided.
LEMMA ModSmaller ==
  ASSUME NEW n \in Nat, NEW m \in Nat \ {0}
  PROVE  n % m \in Nat /\ n % m <= n
  OBVIOUS

\* The counter counts, is reset or stopped by a match, or runs over.
LEMMA TimerTickKeeps ==
  ASSUME TimersInv, T!Tick
  PROVE  TimersInv'
  <1> USE DEF TimersInv
  <1> DEFINE at == tmr.count
             n == IF T!Does(at, "reset") # {} THEN 0 ELSE (at + 1) % (MaxCount + 1)
             new == [tmr EXCEPT !.count = n, !.run = T!Does(n, "stop") = {},
                                !.flags = @ \cup T!Does(n, "int")]
  <1>1. tmr' = new /\ due' = due \cup T!Does(n, "int") /\ UNCHANGED <<irqs, intact>>
    BY DEF T!Tick
  <1>2. at \in Nat /\ MaxCount \in Nat
    BY PartAssumptions DEF TimersShape, TmrT, T!TimersAssumption
  <1>3. n \in Nat /\ n <= at + 1
    BY <1>2, ModSmaller
  <1>4. T!Does(n, "int") \subseteq T!Channels
    BY DEF T!Does, T!Matched
  <1>5. \A c \in T!Channels : "reset" \in tmr.ctrl[c] /\ intact => n <= tmr.match[c]
    <2> SUFFICES ASSUME NEW c \in T!Channels, "reset" \in tmr.ctrl[c], intact
                 PROVE  n <= tmr.match[c]
      OBVIOUS
    <2>1. at <= tmr.match[c] /\ tmr.match[c] \in Nat
      BY DEF T!CounterBounded, T!InRange, TimersShape, TmrT
    <2>2. CASE tmr.match[c] = at
      <3>1. c \in T!Does(at, "reset")
        BY <2>2 DEF T!Does, T!Matched
      <3> QED BY <2>1, <3>1
    <2>3. CASE at < tmr.match[c]
      BY SMTT(30), <1>2, <1>3, <2>1, <2>3
    <2> QED BY <1>2, <2>1, <2>2, <2>3
  <1> HIDE DEF at, n
  <1>6. /\ new \in TmrT /\ new.count = n /\ new.flags = tmr.flags \cup T!Does(n, "int")
        /\ new.ctrl = tmr.ctrl /\ new.match = tmr.match
    BY <1>3, <1>4 DEF TimersShape, TmrT
  <1> HIDE DEF new
  <1>7. TimersShape'
    BY <1>1, <1>6 DEF TimersShape
  <1>8. T!MatchesSeen'
    BY <1>1, <1>6 DEF T!MatchesSeen
  <1>9. T!CounterBounded'
    BY <1>1, <1>5, <1>6 DEF T!CounterBounded, T!InRange
  <1> QED BY <1>7, <1>8, <1>9

\* The handler clears the flags it has read and no other, and delivers them.
LEMMA TimerHandlerKeeps ==
  ASSUME TimersInv, T!TIMER_Handler \/ T!ClearFlags \/ T!Callback
  PROVE  TimersInv'
  <1> USE DEF TimersInv
  <1>1. CASE T!TIMER_Handler
    <2>1. UNCHANGED <<tmr, due, intact>> /\ irqs.at = "idle"
          /\ irqs' = [at |-> "clear", flags |-> tmr.flags]
      BY <1>1 DEF T!TIMER_Handler
    <2>2. tmr.flags \subseteq T!Channels
      BY DEF TimersShape, TmrT
    <2>3. TimersShape'
      BY <2>1, <2>2 DEF TimersShape
    <2> QED BY <2>1, <2>3 DEF TimersShape, T!MatchesSeen, T!CounterBounded, T!InRange
  <1>2. CASE T!ClearFlags
    <2>1. /\ tmr' = [tmr EXCEPT !.flags = @ \ irqs.flags]
          /\ irqs' = [irqs EXCEPT !.at = "call"] /\ UNCHANGED <<due, intact>>
      BY <1>2 DEF T!ClearFlags, T!FlagsLeft
    <2>2. /\ tmr' \in TmrT /\ tmr'.flags = tmr.flags \ irqs.flags
          /\ tmr'.count = tmr.count /\ tmr'.ctrl = tmr.ctrl /\ tmr'.match = tmr.match
      BY <2>1 DEF TimersShape, TmrT
    <2>3. irqs'.at = "call" /\ irqs'.flags = irqs.flags /\ TimersShape'
      BY <2>1, <2>2 DEF TimersShape
    <2> QED BY <2>1, <2>2, <2>3 DEF T!MatchesSeen, T!CounterBounded, T!InRange
  <1>3. CASE T!Callback
    <2>1. /\ due' = due \ irqs.flags /\ irqs' = [at |-> "idle", flags |-> {}]
          /\ UNCHANGED <<tmr, intact>>
      BY <1>3 DEF T!Callback
    <2> QED BY <2>1 DEF TimersShape, T!MatchesSeen, T!CounterBounded, T!InRange
  <1> QED BY <1>1, <1>2, <1>3

\* The counter is started, held or set back: 0 is within any match.
LEMMA TimerStartKeeps ==
  ASSUME TimersInv,
         T!timer_on \/ T!timer_off \/ T!timer_start \/ T!timer_pause \/ T!timer_stop \/ T!timer_restart
  PROVE  TimersInv'
  <1> USE DEF TimersInv
  <1>1. /\ UNCHANGED <<irqs, due, intact>> /\ tmr' \in TmrT
        /\ tmr'.flags = tmr.flags /\ tmr'.ctrl = tmr.ctrl /\ tmr'.match = tmr.match
        /\ tmr'.count = tmr.count \/ tmr'.count = 0
    <2>1. CASE T!timer_on
      BY <2>1 DEF T!timer_on, TimersShape, TmrT
    <2>2. CASE T!timer_off \/ T!timer_start \/ T!timer_pause
      BY <2>2 DEF T!timer_off, T!timer_start, T!timer_pause, TimersShape, TmrT
    <2>3. CASE T!timer_stop
      BY <2>3 DEF T!timer_stop, TimersShape, TmrT
    <2>4. CASE T!timer_restart
      BY <2>4 DEF T!timer_restart, TimersShape, TmrT
    <2> QED BY <2>1, <2>2, <2>3, <2>4
  <1>2. \A c \in T!Channels : tmr.match[c] \in Nat
    BY DEF TimersShape, TmrT
  <1> QED BY <1>1, <1>2 DEF TimersShape, T!MatchesSeen, T!CounterBounded, T!InRange

\* A set up looks at the counter; the flags stay.
LEMMA TimerSetUpKeeps ==
  ASSUME TimersInv, T!timer_set_match \/ T!timer_pwm_config \/ T!timer_counter_config
  PROVE  TimersInv'
  <1> USE DEF TimersInv
  <1>1. CounterValues \subseteq Nat
    BY PartAssumptions DEF T!TimersAssumption
  <1>2. UNCHANGED <<irqs, due>> /\ intact' = T!InRange(tmr')
    BY DEF T!timer_set_match, T!timer_pwm_config, T!timer_counter_config
  <1>3. tmr' \in TmrT /\ tmr'.flags = tmr.flags
    <2>1. CASE T!timer_set_match
      BY <1>1, <2>1 DEF T!timer_set_match, TimersShape, TmrT
    <2>2. CASE T!timer_pwm_config
      <3>1. PICK output \in T!Channels, period \in T!Channels, v \in CounterValues, p \in CounterValues :
              tmr' = [tmr EXCEPT !.match = [@ EXCEPT ![output] = v, ![period] = p],
                                 !.ctrl = T!PwmCtrl(@, period), !.pwm = {output, period}]
        BY <2>2 DEF T!timer_pwm_config
      <3>2. [tmr.match EXCEPT ![output] = v, ![period] = p] \in [T!Channels -> Nat]
        BY <1>1 DEF TimersShape, TmrT
      <3>3. T!PwmCtrl(tmr.ctrl, period) \in [T!Channels -> SUBSET T!Controls]
        BY SMTT(30) DEF T!PwmCtrl, TimersShape, TmrT, T!Controls
      <3> QED BY <3>1, <3>2, <3>3 DEF TimersShape, TmrT
    <2>3. CASE T!timer_counter_config
      <3>1. PICK c \in T!Channels, v \in CounterValues, does \in SUBSET T!Controls :
              tmr' = [tmr EXCEPT !.ctrl = [d \in T!Channels |-> IF d = c THEN does ELSE {}],
                                 !.match = [d \in T!Channels |-> IF d = c THEN v ELSE 0]]
        BY <2>3 DEF T!timer_counter_config
      <3>2. /\ [d \in T!Channels |-> IF d = c THEN does ELSE {}] \in [T!Channels -> SUBSET T!Controls]
            /\ [d \in T!Channels |-> IF d = c THEN v ELSE 0] \in [T!Channels -> Nat]
        BY <1>1
      <3> QED BY ZenonT(40), <3>1, <3>2 DEF TimersShape, TmrT
    <2> QED BY <2>1, <2>2, <2>3
  <1>4. intact' \in BOOLEAN /\ T!CounterBounded'
    BY <1>2 DEF T!CounterBounded, T!InRange
  <1> QED BY <1>2, <1>3, <1>4 DEF TimersShape, T!MatchesSeen

\* Every step keeps the invariant.
LEMMA TimersNext == TimersInv /\ [T!Next]_timerVars => TimersInv'
  <1> SUFFICES ASSUME TimersInv, [T!Next]_timerVars PROVE TimersInv'
    OBVIOUS
  <1>1. CASE UNCHANGED timerVars
    BY <1>1 DEF timerVars, TimersInv, TimersShape, T!MatchesSeen, T!CounterBounded, T!InRange
  <1>2. CASE T!Next
    BY <1>2, TimerTickKeeps, TimerHandlerKeeps, TimerStartKeeps, TimerSetUpKeeps DEF T!Next
  <1> QED BY <1>1, <1>2

\* A match that is to interrupt reaches the callback however the flags come
\* while the handler runs, and the counter stays within its matches.
THEOREM TimersSoundAlways == AllSpec => []TimersSound
  <1>1. TimersInv => TimersSound
    BY DEF TimersInv, TimersSound, T!TimersSound
  <1>2. [AllNext]_allVars => [T!Next]_timerVars
    BY DEF AllNext, allVars, timerVars
  <1>3. TimersInv /\ [AllNext]_allVars => TimersInv'
    BY <1>2, TimersNext
  <1> QED BY <1>1, <1>3, TimersInit, PTL DEF AllSpec

(***************************************************************************)
(* The alarm of the real time clock (Rtc).                                 *)
(***************************************************************************)

RtcT   == [data : Nat \ {0}, match : Nat, on : BOOLEAN, raised : BOOLEAN]
AlarmT == [set : BOOLEAN, first : Nat, period : Nat, periodic : BOOLEAN]

\* The shape of the clock and the alarm.
RtcShape ==
  /\ rtc \in RtcT /\ alarm \in AlarmT
  /\ tick \in Int /\ ready \in BOOLEAN /\ owed \in Nat /\ clean \in BOOLEAN

\* The interrupt is enabled for an alarm that is set, a periodic one has a period,
\* and nothing is owed without an alarm.
AlarmPart ==
  /\ alarm.set <=> rtc.on
  /\ alarm.periodic <=> alarm.period # 0
  /\ ~alarm.set => owed = 0

\* Until the counter can be read, and while an alarm waits for it, no match is set.
WaitingPart ==
  /\ ~R!Ready => rtc.match = 0 /\ ~rtc.raised
  /\ clean /\ retries # {} => rtc.match = 0 /\ ~rtc.raised
  /\ clean /\ rtc.raised => rtc.on
  /\ clean => \A a, b \in retries : a = b

\* What is owed is what the match is set to, or has raised the interrupt.
ArmedPart ==
  (clean /\ owed # 0 /\ retries = {}) =>
    /\ rtc.on
    /\ IF rtc.raised THEN owed <= rtc.data ELSE rtc.match = owed /\ rtc.data < owed

RtcInv == RtcShape /\ AlarmPart /\ WaitingPart /\ ArmedPart

\* At the reset no alarm is set.
LEMMA RtcInit == AllInit => RtcInv
  <1>1. StartDate \in Nat \ {0}
    BY PartAssumptions DEF R!RtcAssumption
  <1> SUFFICES ASSUME R!Init PROVE RtcInv
    BY DEF AllInit
  <1>2. /\ rtc = [data |-> StartDate, match |-> 0, on |-> FALSE, raised |-> FALSE]
        /\ alarm = [set |-> FALSE, first |-> 0, period |-> 0, periodic |-> FALSE]
        /\ tick \in {-1, 0} /\ ready = FALSE /\ retries = {} /\ owed = 0 /\ clean = TRUE
    BY DEF R!Init
  <1>3. rtc \in RtcT /\ rtc.match = 0 /\ rtc.raised = FALSE /\ rtc.on = FALSE
    BY <1>1, <1>2 DEF RtcT
  <1>4. alarm \in AlarmT /\ alarm.set = FALSE /\ alarm.period = 0 /\ alarm.periodic = FALSE
    BY <1>2 DEF AlarmT
  <1>5. RtcShape
    <2>1. tick \in Int /\ owed \in Nat
      BY <1>2
    <2>2. ready \in BOOLEAN /\ clean \in BOOLEAN
      BY <1>2, Zenon
    <2> QED BY <1>3, <1>4, <2>1, <2>2 DEF RtcShape
  <1>6. AlarmPart
    BY <1>2, <1>3, <1>4 DEF AlarmPart
  <1>7. WaitingPart /\ ArmedPart
    BY <1>2, <1>3 DEF WaitingPart, ArmedPart
  <1> QED BY <1>5, <1>6, <1>7 DEF RtcInv

LEMMA SetAlarmKeeps == ASSUME RtcInv, R!set_rtc_callback PROVE RtcInv'
  <1> USE DEF RtcInv
  <1>1. PICK when \in Dates \cup {0}, period \in Periods :
          /\ alarm' = [set |-> TRUE, period |-> period, periodic |-> period # 0,
                       first |-> IF R!Ready THEN alarm.first ELSE when]
          /\ rtc' = [IF R!Ready THEN R!rtc_set_match(rtc, when, period) ELSE rtc EXCEPT !.on = TRUE]
          /\ retries' = IF R!Ready THEN retries ELSE retries \cup {R!Started % 2}
          /\ owed' = IF R!Ready /\ when # 0 /\ when <= rtc.data THEN 0
                     ELSE R!Expected(when, period, rtc.data)
          /\ clean' = (clean /\ retries = {})
    BY DEF R!set_rtc_callback
  <1>2. ready' = R!Ready /\ tick' = R!Started /\ ~ (rtc.on /\ rtc.raised)
    BY DEF R!set_rtc_callback, R!Interrupt
  <1>3. when \in Nat /\ period \in Nat
    BY PartAssumptions DEF R!RtcAssumption
  <1>4. /\ rtc.data \in Nat \ {0} /\ rtc.match \in Nat /\ rtc \in RtcT /\ R!Started \in Int
        /\ alarm.first \in Nat /\ tick \in Int
    BY DEF RtcShape, RtcT, AlarmT, R!Started
  <1> DEFINE now == rtc.data + period
             match == IF R!Ready THEN (IF when # 0 THEN when ELSE now) ELSE rtc.match
  <1>5. now \in Nat /\ match \in Nat
    BY <1>3, <1>4
  <1>6. rtc' = [rtc EXCEPT !.match = match, !.on = TRUE]
    BY <1>1, <1>4 DEF R!rtc_set_match, RtcT
  <1> HIDE DEF match
  <1>7. /\ rtc' \in RtcT /\ rtc'.on = TRUE /\ rtc'.match = match /\ rtc'.data = rtc.data
        /\ rtc'.raised = rtc.raised
    BY <1>4, <1>5, <1>6 DEF RtcT
  <1>8. R!Expected(when, period, rtc.data) \in Nat
    BY <1>3, <1>4 DEF R!Expected
  <1>9. /\ alarm' \in AlarmT /\ alarm'.set = TRUE /\ alarm'.periodic = (period # 0)
        /\ alarm'.period = period
    BY <1>1, <1>3, <1>4 DEF AlarmT
  <1>10. clean' \in BOOLEAN /\ (clean' <=> clean /\ retries = {})
    BY <1>1
  <1>11. RtcShape'
    <2>1. ready' \in BOOLEAN
      BY <1>2 DEF R!Ready, RtcShape
    <2>2. owed' \in Nat
      BY <1>1, <1>8
    <2>3. tick' \in Int
      BY <1>2, <1>4
    <2> QED BY <1>7, <1>9, <1>10, <2>1, <2>2, <2>3 DEF RtcShape
  <1>12. AlarmPart'
    BY <1>7, <1>9 DEF AlarmPart
  <1>14. WaitingPart'
    <2>1. ~R!Ready' => rtc'.match = 0 /\ ~rtc'.raised
      <3>1. ~R!Ready' => ~R!Ready
        BY <1>2 DEF R!Ready
      <3> QED BY <1>7, <3>1 DEF match, WaitingPart
    <2>2. clean' /\ retries' # {} => rtc'.match = 0 /\ ~rtc'.raised
      BY <1>1, <1>7, <1>10 DEF match, WaitingPart
    <2>3. clean' => \A a, b \in retries' : a = b
      BY <1>1, <1>10
    <2> QED BY <1>7, <2>1, <2>2, <2>3 DEF WaitingPart
  <1>15. ArmedPart'
    <2> SUFFICES ASSUME clean', owed' # 0, retries' = {}
                 PROVE  ~rtc'.raised /\ rtc'.match = owed' /\ rtc'.data < owed'
      BY <1>7 DEF ArmedPart
    <2>1. R!Ready
      BY <1>1
    <2>2. ~rtc.raised
      BY <1>2, <1>10 DEF WaitingPart
    <2>3. match = owed' /\ rtc.data < owed'
      <3>1. CASE when # 0
        BY <1>1, <1>3, <1>4, <2>1, <3>1 DEF match, R!Expected
      <3>2. CASE when = 0
        BY <1>1, <1>3, <1>4, <2>1, <3>2 DEF match, R!Expected
      <3> QED BY <3>1, <3>2
    <2> QED BY <1>7, <2>2, <2>3
  <1> QED BY <1>11, <1>12, <1>14, <1>15

LEMMA RemoveAlarmKeeps == ASSUME RtcInv, R!remove_rtc_callback PROVE RtcInv'
  <1> USE DEF RtcInv
  <1>1. /\ alarm' = [alarm EXCEPT !.set = FALSE] /\ rtc' = [rtc EXCEPT !.on = FALSE] /\ owed' = 0
        /\ UNCHANGED <<tick, ready, retries, clean>> /\ alarm.set /\ ~ (rtc.on /\ rtc.raised)
    BY DEF R!remove_rtc_callback, R!Interrupt
  <1>2. /\ rtc' \in RtcT /\ rtc'.on = FALSE /\ rtc'.match = rtc.match /\ rtc'.data = rtc.data
        /\ rtc'.raised = rtc.raised
    BY <1>1 DEF RtcShape, RtcT
  <1>3. alarm' \in AlarmT /\ alarm'.set = FALSE /\ alarm'.periodic = alarm.periodic
        /\ alarm'.period = alarm.period
    BY <1>1 DEF RtcShape, AlarmT
  <1> QED BY <1>1, <1>2, <1>3 DEF RtcShape, AlarmPart, WaitingPart, ArmedPart, R!Ready

LEMMA RtcHandlerKeeps == ASSUME RtcInv, R!RTC_Handler PROVE RtcInv'
  <1> USE DEF RtcInv
  <1> DEFINE next == rtc.data + alarm.period
             match == IF alarm.periodic THEN next ELSE rtc.match
  <1>1. /\ rtc' = [rtc EXCEPT !.raised = FALSE, !.match = match] /\ rtc.on /\ rtc.raised
        /\ owed' = IF owed > rtc.data THEN owed ELSE IF alarm.periodic THEN next ELSE 0
        /\ UNCHANGED <<tick, ready, retries, alarm, clean>>
    BY DEF R!RTC_Handler, R!Interrupt
  <1>2. rtc \in RtcT /\ rtc.data \in Nat /\ rtc.match \in Nat /\ alarm.period \in Nat /\ owed \in Nat
    BY DEF RtcShape, RtcT, AlarmT
  <1>3. match \in Nat /\ next \in Nat
    BY <1>2
  <1> HIDE DEF match
  <1>4. /\ rtc' \in RtcT /\ rtc'.on = rtc.on /\ rtc'.match = match /\ rtc'.data = rtc.data
        /\ rtc'.raised = FALSE
    BY <1>1, <1>2, <1>3 DEF RtcT
  <1>5. RtcShape' /\ AlarmPart'
    BY <1>1, <1>2, <1>3, <1>4 DEF RtcShape, AlarmPart
  <1>6. R!Ready /\ ~ (clean /\ retries # {})
    BY <1>1 DEF WaitingPart
  <1>7. WaitingPart'
    BY <1>1, <1>4, <1>6 DEF WaitingPart, R!Ready
  <1>8. ArmedPart'
    <2> SUFFICES ASSUME clean, owed' # 0, retries = {}
                 PROVE  match = owed' /\ rtc.data < owed'
      BY <1>1, <1>4 DEF ArmedPart
    <2>1. owed # 0 => owed <= rtc.data
      BY <1>1 DEF ArmedPart
    <2>2. ~ (owed > rtc.data)
      BY <1>2, <2>1
    <2>3. alarm.periodic /\ owed' = next
      BY <1>1, <2>2
    <2> QED BY <1>2, <2>3 DEF match, AlarmPart
  <1> QED BY <1>5, <1>7, <1>8

LEMMA RtcTickKeeps == ASSUME RtcInv, R!Tick PROVE RtcInv'
  <1> USE DEF RtcInv
  <1> DEFINE n == tick + 1
             second == n % 4 = 0
             hit == second /\ rtc.data + 1 = rtc.match
             now == [rtc EXCEPT !.data = IF second THEN @ + 1 ELSE @, !.raised = @ \/ hit]
             go == n % 2 \in retries /\ (ready \/ n >= 12)
             first == R!First(now.data)
  <1>1. /\ ~ (rtc.on /\ rtc.raised) /\ tick >= 0
        /\ tick' = n
        /\ rtc' = IF go THEN R!rtc_set_match(now, first, alarm.period) ELSE now
        /\ retries' = IF go THEN retries \ {n % 2} ELSE retries
        /\ alarm' = IF go THEN [alarm EXCEPT !.first = first] ELSE alarm
        /\ owed' = IF go /\ alarm.set THEN R!Expected(alarm.first, alarm.period, now.data) ELSE owed
        /\ ready' = (ready \/ go)
        /\ clean' = (clean /\ ~(hit /\ ~rtc.on))
    BY DEF R!Tick, R!Interrupt
  <1>2. /\ rtc \in RtcT /\ rtc.data \in Nat \ {0} /\ rtc.match \in Nat /\ alarm \in AlarmT
        /\ alarm.first \in Nat /\ alarm.period \in Nat /\ owed \in Nat /\ tick \in Int
    BY DEF RtcShape, RtcT, AlarmT
  <1> DEFINE date == IF second THEN rtc.data + 1 ELSE rtc.data
  <1>3. date \in Nat \ {0} /\ n \in Int
    BY <1>2
  <1>4. PICK raised \in BOOLEAN : raised <=> rtc.raised \/ hit
    OBVIOUS
  <1>5. now = [rtc EXCEPT !.data = date, !.raised = raised]
    BY <1>2, <1>4 DEF RtcT
  <1> HIDE DEF now
  <1>6. /\ now \in RtcT /\ now.data = date /\ now.raised = raised /\ now.on = rtc.on
        /\ now.match = rtc.match
    BY <1>2, <1>3, <1>5 DEF RtcT
  <1>7. hit => date = rtc.match /\ rtc.match # 0 /\ date = rtc.data + 1
    BY <1>2
  <1>8. ~hit /\ date # rtc.data => date # rtc.match /\ date = rtc.data + 1
    BY <1>2
  <1>9. date >= rtc.data
    BY <1>2
  <1>10. n >= 12 \/ ready \/ ~R!Ready
    BY <1>2 DEF R!Ready
  <1>11. R!Ready' <=> ready' \/ n >= 12
    BY <1>1 DEF R!Ready
  <1> HIDE DEF n, second, hit, date
  <1>12. first = IF date >= alarm.first THEN 0 ELSE alarm.first
    BY <1>6 DEF R!First
  <1> HIDE DEF first
  <1>13. first \in Nat
    BY <1>2, <1>12
  <1>14. clean' \in BOOLEAN /\ (clean' <=> clean /\ ~(hit /\ ~rtc.on))
    BY <1>1
  <1>15. ready' \in BOOLEAN /\ (ready' <=> ready \/ go)
    BY <1>1 DEF RtcShape
  <1>16. hit => R!Ready /\ ~ (clean /\ retries # {})
    BY <1>7 DEF WaitingPart
  <1>17. CASE ~go
    <2>1. rtc' = now /\ UNCHANGED <<retries, alarm, owed>> /\ (ready' <=> ready)
      BY <1>1, <1>15, <1>17
    <2>2. RtcShape' /\ AlarmPart'
      BY <1>1, <1>3, <1>6, <1>14, <1>15, <2>1 DEF RtcShape, AlarmPart
    <2>3. WaitingPart'
      BY <1>1, <1>3, <1>4, <1>6, <1>10, <1>11, <1>14, <1>16, <2>1 DEF WaitingPart
    <2>4. ArmedPart'
      <3> SUFFICES ASSUME clean, ~ (hit /\ ~rtc.on), owed # 0, retries = {}
                   PROVE  rtc.on /\ IF raised THEN owed <= date ELSE rtc.match = owed /\ date < owed
        BY <1>6, <1>14, <2>1 DEF ArmedPart
      <3>1. rtc.on /\ ~rtc.raised /\ rtc.match = owed /\ rtc.data < owed
        BY <1>1 DEF ArmedPart
      <3>2. CASE hit
        BY <1>2, <1>3, <1>4, <1>7, <3>1, <3>2
      <3>3. CASE ~hit
        BY <1>2, <1>3, <1>4, <1>8, <3>1, <3>3
      <3> QED BY <3>2, <3>3
    <2> QED BY <2>2, <2>3, <2>4
  <1>18. CASE go
    <2> DEFINE match == IF first # 0 THEN first ELSE date + alarm.period
    <2>1. match \in Nat /\ rtc' = [now EXCEPT !.match = match]
      BY <1>1, <1>2, <1>3, <1>6, <1>13, <1>18 DEF R!rtc_set_match
    <2> HIDE DEF match
    <2>2. /\ rtc' \in RtcT /\ rtc'.data = date /\ rtc'.raised = raised /\ rtc'.on = rtc.on
          /\ rtc'.match = match
      BY <1>6, <2>1 DEF RtcT
    <2>3. /\ alarm' = [alarm EXCEPT !.first = first] /\ alarm' \in AlarmT
          /\ alarm'.set = alarm.set /\ alarm'.period = alarm.period /\ alarm'.periodic = alarm.periodic
      BY <1>1, <1>2, <1>13, <1>18 DEF AlarmT
    <2>4. owed' = IF alarm.set THEN R!Expected(alarm.first, alarm.period, date) ELSE owed
      BY <1>1, <1>6, <1>18
    <2>5. R!Expected(alarm.first, alarm.period, date) \in Nat
      BY <1>2, <1>3 DEF R!Expected
    <2>6. retries # {} /\ ready'
      BY <1>15, <1>18
    <2>7. RtcShape'
      BY <1>1, <1>2, <1>3, <1>14, <1>15, <2>2, <2>3, <2>4, <2>5 DEF RtcShape
    <2>8. AlarmPart'
      BY <2>2, <2>3, <2>4 DEF AlarmPart
    <2>9. clean => ~hit /\ ~rtc.raised /\ ~raised
      BY <1>4, <1>16, <2>6 DEF WaitingPart
    <2>10. ArmedPart'
      <3> SUFFICES ASSUME clean, owed' # 0
                   PROVE  rtc.on /\ ~raised /\ match = owed' /\ date < owed'
        BY <1>14, <2>2 DEF ArmedPart
      <3>1. alarm.set /\ rtc.on
        BY <2>4 DEF AlarmPart
      <3>2. owed' = R!Expected(alarm.first, alarm.period, date)
        BY <2>4, <3>1
      <3>3. match = owed' /\ date < owed'
        BY <1>2, <1>3, <1>12, <3>2 DEF match, R!Expected
      <3> QED BY <2>9, <3>1, <3>3
    <2>11. clean => retries' = {}
      BY <1>1, <1>18 DEF WaitingPart
    <2>12. WaitingPart'
      BY <1>11, <1>14, <2>2, <2>6, <2>9, <2>11 DEF WaitingPart
    <2> QED BY <2>7, <2>8, <2>10, <2>12
  <1> QED BY <1>17, <1>18

LEMMA RtcKeeps == ASSUME RtcInv, [AllNext]_allVars PROVE RtcInv'
  <1>1. [R!Next]_rtcVars
    BY DEF AllNext, allVars, rtcVars
  <1>2. CASE R!Next
    BY <1>2, SetAlarmKeeps, RemoveAlarmKeeps, RtcHandlerKeeps, RtcTickKeeps DEF R!Next
  <1>3. CASE UNCHANGED rtcVars
    BY <1>3 DEF rtcVars, RtcInv, RtcShape, AlarmPart, WaitingPart, ArmedPart, R!Ready
  <1> QED BY <1>1, <1>2, <1>3

THEOREM AlarmComesAlways == AllSpec => []AlarmComes
  <1>1. RtcInv => AlarmComes
    BY DEF RtcInv, RtcShape, RtcT, ArmedPart, AlarmComes, R!AlarmComes, R!Interrupt
  <1> QED BY <1>1, RtcInit, RtcKeeps, PTL DEF AllSpec

(***************************************************************************)
(* Clocks, power and the watchdog (Power).                                 *)
(***************************************************************************)

Clocks == {12000, 24000, 36000, 48000, 60000}
PllT   == [on : BOOLEAN, from : {"irc"}, m : 1 .. 5, p : {1, 2^1, 2^2}]
FlashT == [over : BOOLEAN, wait : {0, 1}]
PowerBlocks == {"uart", "ssp", "i2c", "timer", "adc"}
Units  == {"irc", "wdosc", "bod", "pll"}
SysT   == [main : {"irc", "pll"}, pll : PllT, clock : Clocks, irc : {TRUE}, wdosc : BOOLEAN,
           bod : BOOLEAN, clkout : {"off", "irc", "main"}, flash : FlashT,
           powered : SUBSET PowerBlocks, sleep : SUBSET Units, wake : SUBSET Units]
Steps  == {"run", "down", "irc", "flash", "pll_off", "pll", "switch", "propagate"}
DevT   == [uart : BaudRates \cup {0}, ssp : Nat, i2c : I2cRates \cup {0}, timer : TimerRates \cup {0}]
DivT   == [uart : Nat, frac : BOOLEAN, pclk : Nat, prescale : {2}, i2c : Nat, adc : Nat, timer : Int]
WdtT   == [en : BOOLEAN, reset : BOOLEAN, clk : {"irc", "wdosc"}, locks : SUBSET P!Locks]

\* The shape of the state.  The internal oscillator, which every source of the
\* main clock needs, is never switched off.
PowerShape ==
  /\ sys \in SysT
  /\ step \in [pc : Steps, sel : P!Selections]
  /\ dev \in DevT /\ div \in DivT /\ wdt \in WdtT
  /\ changes \in [n : Nat, stopped : BOOLEAN]

\* The flash is slow enough for this frequency.
FlashFor(flash, f) == (flash.over => f <= 24000) /\ (~flash.over /\ flash.wait = 0 => f <= 48000)

\* Where a change of frequency is.
ClockPart ==
  /\ sys.main = "pll" => sys.pll.on /\ FlashFor(sys.flash, sys.pll.m * 12000)
  /\ step.pc \in {"flash", "pll_off", "pll", "switch"} => sys.main = "irc"
  /\ step.pc \in {"pll_off", "pll", "switch"} => FlashFor(sys.flash, step.sel.m * 12000)
  /\ step.pc = "switch" => sys.pll.on /\ sys.pll.m = step.sel.m

\* What each device keeps to.
UartOk(b, d, c) ==
  (b # 0 /\ b <= 1152 /\ ~d.frac) =>
    16 * b * d.uart <= 10 * c /\ 100 * c <= 11 * (16 * b * d.uart)
I2cOk(f, d, c) == f # 0 => d.i2c * f = c
AdcOk(s, d)    == "adc" \in s.powered => s.clock <= 9000 * (d.adc + 1)
SspOk(r, d, c) == (r # 0 /\ d.pclk # 0) => P!SspRate(d, c) < 2 * r

RatesPart ==
  step.pc = "run" =>
    /\ UartOk(dev.uart, div, sys.clock) /\ I2cOk(dev.i2c, div, sys.clock)
    /\ AdcOk(sys, div) /\ SspOk(dev.ssp, div, sys.clock)

\* A watchdog stopped stays so until the next call.
StoppedPart == changes.stopped => step.pc = "run" /\ (~wdt.en \/ (wdt.clk = "wdosc" /\ ~sys.wdosc))

PowerInv == PowerShape /\ ClockPart /\ RatesPart /\ StoppedPart

------------------------------------------------------------------------

\* The quotient and the remainder.
LEMMA Quotient ==
  ASSUME NEW a \in Nat, NEW b \in Nat \ {0}
  PROVE  /\ a \div b \in Nat
         /\ (a \div b) * b <= a /\ a < (a \div b) * b + b
  OBVIOUS

LEMMA Times ==
  ASSUME NEW a \in Nat, NEW b \in Nat, NEW c \in Nat, a <= b
  PROVE  a * c <= b * c
  OBVIOUS

\* The divider of a standard rate is good to a tenth.
LEMMA UartOn ==
  ASSUME NEW b \in BaudRates, NEW c \in Clocks, NEW d \in DivT
  PROVE  /\ P!uart_clk_on(d, b, c) \in DivT
         /\ UartOk(b, P!uart_clk_on(d, b, c), c)
         /\ P!uart_clk_on(d, b, c).i2c = d.i2c /\ P!uart_clk_on(d, b, c).adc = d.adc
         /\ P!uart_clk_on(d, b, c).pclk = d.pclk /\ P!uart_clk_on(d, b, c).prescale = d.prescale
  <1> DEFINE s == 16 * b
             q == (10 * c) \div s
             e == P!uart_clk_on(d, b, c)
  <1>1. b \in Nat \ {0} /\ (b <= 750 \/ b >= 1152)
    BY PartAssumptions DEF P!PowerAssumption
  <1>2. c \in Nat /\ c >= 12000 /\ c <= 60000
    BY DEF Clocks
  <1>3. s \in Nat \ {0} /\ 10 * c \in Nat
    BY <1>1, <1>2
  <1>4. q \in Nat /\ q * s <= 10 * c /\ 10 * c < q * s + s
    BY <1>3, Quotient
  <1>5. b <= 1152 => 100 * c <= 11 * (q * s)
    <2>1. CASE b <= 750
      <3>1. 10 * s <= 10 * c
        BY <1>1, <1>2, <2>1
      <3>2. ~ (q <= 9)
        <4> SUFFICES ASSUME q <= 9 PROVE FALSE
          OBVIOUS
        <4>1. q * s <= 9 * s
          BY <1>3, <1>4, Times
        <4> HIDE DEF q, s
        <4> QED BY <1>2, <1>3, <1>4, <3>1, <4>1
      <3>3. 10 * s <= q * s
        <4> HIDE DEF q, s
        <4>1. 10 <= q
          BY <1>4, <3>2
        <4> QED BY <1>3, <1>4, <4>1, Times
      <3> DEFINE t == q * s
      <3>4. t \in Nat
        <4> HIDE DEF q, s
        <4> QED BY <1>3, <1>4
      <3> HIDE DEF q, s
      <3>5. t <= 10 * c /\ 10 * c < t + s /\ 10 * s <= t
        BY <1>4, <3>3
      <3> HIDE DEF t
      <3>6. 100 * c <= 11 * t
        BY <1>2, <1>3, <3>4, <3>5
      <3> QED BY <3>6 DEF t
    <2>2. CASE b = 1152
      BY <2>2 DEF Clocks
    <2> QED BY <1>1, <2>1, <2>2
  <1>6. 16 * b * q = q * s
    BY <1>1, <1>4
  <1> HIDE DEF q, s
  <1>7. CASE b <= 1152 \/ P!Exact(b, c)
    <2>1. e = [d EXCEPT !.uart = q]
      BY <1>7 DEF P!uart_clk_on, q, s
    <2>2. e \in DivT /\ e.uart = q /\ e.frac = d.frac /\ e.i2c = d.i2c /\ e.adc = d.adc
          /\ e.pclk = d.pclk /\ e.prescale = d.prescale
      BY <1>4, <2>1 DEF DivT
    <2>3. UartOk(b, e, c)
      BY <1>4, <1>5, <1>6, <2>2 DEF UartOk
    <2> QED BY <2>2, <2>3
  <1>8. CASE ~ (b <= 1152 \/ P!Exact(b, c))
    <2>1. UartOk(b, e, c)
      BY <1>8 DEF UartOk
    <2>2. CASE c # 48000
      <3>1. e = d
        BY <1>8, <2>2 DEF P!uart_clk_on
      <3> QED BY <2>1, <3>1
    <2>3. CASE c = 48000
      <3> DEFINE k == IF b <= 2500 THEN 12 ELSE 2
      <3>1. e = [d EXCEPT !.uart = k, !.frac = TRUE]
        BY <1>8, <2>3 DEF P!uart_clk_on
      <3>3. k \in Nat
        OBVIOUS
      <3> HIDE DEF k, e
      <3>2. e \in DivT /\ e.i2c = d.i2c /\ e.adc = d.adc /\ e.pclk = d.pclk /\ e.prescale = d.prescale
        BY <3>1, <3>3 DEF DivT
      <3> QED BY <2>1, <3>2 DEF e
    <2> QED BY <2>2, <2>3
  <1> QED BY <1>7, <1>8

\* The rates of the bus divide every main clock.
LEMMA I2cOn ==
  ASSUME NEW f \in I2cRates, NEW c \in Clocks, NEW d \in DivT
  PROVE  /\ P!i2c_clock_on(d, f, c) \in DivT
         /\ I2cOk(f, P!i2c_clock_on(d, f, c), c)
         /\ P!i2c_clock_on(d, f, c).uart = d.uart /\ P!i2c_clock_on(d, f, c).frac = d.frac
         /\ P!i2c_clock_on(d, f, c).adc = d.adc
         /\ P!i2c_clock_on(d, f, c).pclk = d.pclk /\ P!i2c_clock_on(d, f, c).prescale = d.prescale
  <1> DEFINE q == c \div f
             e == P!i2c_clock_on(d, f, c)
             k == 12000 \div f
  <1>1. f \in Nat \ {0} /\ 12000 % f = 0
    BY PartAssumptions DEF P!PowerAssumption
  <1>2. k \in Nat /\ k * f = 12000
    BY <1>1
  <1>3. PICK m \in 1 .. 5 : c = m * 12000
    BY DEF Clocks
  <1>4. c \in Nat /\ q \in Nat /\ q * f <= c /\ c < q * f + f
    BY <1>1, <1>3, Quotient
  <1>5. c = (m * k) * f /\ m * k \in Nat
    BY <1>1, <1>2, <1>3
  <1> HIDE DEF q, k
  <1>6. q = m * k
    <2> DEFINE n == m * k
    <2>1. n \in Nat /\ c = n * f
      BY <1>5
    <2> HIDE DEF n
    <2>2. ~ (q + 1 <= n)
      <3> SUFFICES ASSUME q + 1 <= n PROVE FALSE
        OBVIOUS
      <3>1. (q + 1) * f <= n * f
        BY <1>1, <1>4, <2>1, Times
      <3>2. (q + 1) * f = q * f + f
        BY <1>1, <1>4
      <3> QED BY <1>1, <1>4, <2>1, <3>1, <3>2
    <2>3. ~ (n + 1 <= q)
      <3> SUFFICES ASSUME n + 1 <= q PROVE FALSE
        OBVIOUS
      <3>1. (n + 1) * f <= q * f
        BY <1>1, <1>4, <2>1, Times
      <3>2. (n + 1) * f = n * f + f
        BY <1>1, <2>1
      <3> QED BY <1>1, <1>4, <2>1, <3>1, <3>2
    <2>4. q = n
      BY <1>4, <2>1, <2>2, <2>3
    <2> QED BY <2>4 DEF n
  <1>7. e = [d EXCEPT !.i2c = q]
    BY DEF P!i2c_clock_on, q
  <1>8. e \in DivT /\ e.i2c = q /\ e.uart = d.uart /\ e.frac = d.frac /\ e.adc = d.adc
        /\ e.pclk = d.pclk /\ e.prescale = d.prescale
    BY <1>4, <1>7 DEF DivT
  <1> HIDE DEF e
  <1>9. I2cOk(f, e, c)
    BY <1>5, <1>6, <1>8 DEF I2cOk
  <1> QED BY <1>8, <1>9 DEF e

\* Or'ing a divider in makes none smaller.
LEMMA OrCovers ==
  ASSUME NEW a \in Nat, NEW b \in 1 .. 6
  PROVE  P!Or(a, b) \in Nat /\ P!Or(a, b) >= b
  BY DEF P!Or

LEMMA AdcUpdate ==
  ASSUME NEW s \in SysT, NEW d \in DivT
  PROVE  /\ P!adc_clk_update(d, s) \in DivT
         /\ AdcOk(s, P!adc_clk_update(d, s))
         /\ P!adc_clk_update(d, s).uart = d.uart /\ P!adc_clk_update(d, s).frac = d.frac
         /\ P!adc_clk_update(d, s).i2c = d.i2c
         /\ P!adc_clk_update(d, s).pclk = d.pclk /\ P!adc_clk_update(d, s).prescale = d.prescale
  <1> DEFINE b == s.clock \div 9000
             e == P!adc_clk_update(d, s)
  <1>1. s.clock \in Clocks /\ d.adc \in Nat
    BY DEF SysT, DivT
  <1>2. s.clock \in Nat /\ b \in 1 .. 6 /\ s.clock <= 9000 * (b + 1)
    BY <1>1 DEF Clocks
  <1>3. CASE "adc" \in s.powered
    <2> DEFINE o == P!Or(d.adc, b)
    <2>1. o \in Nat /\ o >= b
      <3> DEFINE a == d.adc
      <3>1. a \in Nat /\ b \in 1 .. 6
        BY <1>1, <1>2
      <3> HIDE DEF a, b
      <3>2. P!Or(a, b) \in Nat /\ P!Or(a, b) >= b
        BY <3>1, OrCovers, Zenon
      <3> QED BY <3>2 DEF a
    <2>2. e = [d EXCEPT !.adc = o]
      BY <1>3 DEF P!adc_clk_update
    <2> HIDE DEF o, b
    <2>3. e \in DivT /\ e.adc = o /\ e.uart = d.uart /\ e.frac = d.frac /\ e.i2c = d.i2c
          /\ e.pclk = d.pclk /\ e.prescale = d.prescale
      BY <2>1, <2>2 DEF DivT
    <2> HIDE DEF e
    <2>4. AdcOk(s, e)
      BY <1>2, <2>1, <2>3 DEF AdcOk
    <2> QED BY <2>3, <2>4 DEF e
  <1>4. CASE "adc" \notin s.powered
    BY <1>4 DEF P!adc_clk_update, AdcOk
  <1> QED BY <1>3, <1>4

\* The divider of a rate makes a clock below twice that rate.
LEMMA SspOn ==
  ASSUME NEW r \in Nat \ {0}, NEW c \in Clocks, NEW d \in DivT
  PROVE  /\ P!ssp_clk_on(d, r, c) \in DivT
         /\ SspOk(r, P!ssp_clk_on(d, r, c), c)
         /\ P!SspRate(P!ssp_clk_on(d, r, c), c) \in Nat
         /\ P!ssp_clk_on(d, r, c).uart = d.uart /\ P!ssp_clk_on(d, r, c).frac = d.frac
         /\ P!ssp_clk_on(d, r, c).i2c = d.i2c /\ P!ssp_clk_on(d, r, c).adc = d.adc
  <1> DEFINE q == c \div r
             p == q \div 2
             e == P!ssp_clk_on(d, r, c)
  <1>1. c \in Nat
    BY DEF Clocks
  <1>2. q \in Nat /\ c < q * r + r
    BY <1>1, Quotient
  <1> HIDE DEF q
  <1>3. p \in Nat /\ q <= 2 * p + 1
    BY <1>2
  <1>4. e = [d EXCEPT !.prescale = 2, !.pclk = p]
    BY DEF P!ssp_clk_on, q
  <1> HIDE DEF p
  <1>5. e \in DivT /\ e.pclk = p /\ e.prescale = 2 /\ e.uart = d.uart /\ e.frac = d.frac
        /\ e.i2c = d.i2c /\ e.adc = d.adc
    BY <1>3, <1>4 DEF DivT
  <1> HIDE DEF e
  <1> DEFINE rate == P!SspRate(e, c)
  <1>6. CASE p = 0
    BY <1>5, <1>6 DEF P!SspRate, SspOk, e
  <1>7. CASE p # 0
    <2>1. 2 * p \in Nat \ {0}
      BY <1>3, <1>7
    <2>2. rate = c \div (2 * p)
      BY <1>5, <1>7 DEF P!SspRate
    <2>3. rate \in Nat /\ rate * (2 * p) <= c
      BY <1>1, <2>1, <2>2, Quotient
    <2>4. rate < 2 * r
      <3> SUFFICES ASSUME 2 * r <= rate PROVE FALSE
        BY <2>3
      <3>1. (2 * r) * (2 * p) <= rate * (2 * p)
        BY <2>1, <2>3, Times
      <3>2. (q + 1) * r <= (2 * p + 2) * r
        BY <1>2, <1>3, Times
      <3>3. (2 * p + 2) * r <= (4 * p) * r
        BY <1>3, <1>7, Times
      <3>4. (q + 1) * r = q * r + r /\ (4 * p) * r = (2 * r) * (2 * p)
        BY <1>2, <1>3
      <3> DEFINE x == q * r + r
                 y == (2 * p + 2) * r
                 z == (2 * r) * (2 * p)
                 w == rate * (2 * p)
      <3>5. x \in Nat /\ y \in Nat /\ z \in Nat /\ w \in Nat
        BY <1>2, <1>3, <2>3
      <3>6. x <= y /\ y <= z /\ z <= w /\ w <= c /\ c < x
        BY <1>2, <2>3, <3>1, <3>2, <3>3, <3>4
      <3> HIDE DEF x, y, z, w
      <3> QED BY <1>1, <3>5, <3>6
    <2>5. SspOk(r, e, c)
      BY SMTT(30), <2>4 DEF SspOk
    <2> QED BY <1>5, <2>3, <2>5 DEF e
  <1> QED BY <1>6, <1>7, <1>5 DEF e

\* Every device that is on works its divider out again.
LEMMA PropagateSound ==
  ASSUME PowerShape
  PROVE  LET d == P!propagate_main_clock(div, sys) IN
           /\ d \in DivT
           /\ UartOk(dev.uart, d, sys.clock) /\ I2cOk(dev.i2c, d, sys.clock)
           /\ AdcOk(sys, d) /\ SspOk(dev.ssp, d, sys.clock)
  <1> DEFINE c == sys.clock
             u == IF dev.uart = 0 THEN div ELSE P!uart_clk_on(div, dev.uart, c)
             i == IF dev.i2c = 0 THEN u ELSE P!i2c_clock_on(u, dev.i2c, c)
             p == IF dev.ssp = 0 THEN i ELSE P!ssp_clk_on(i, dev.ssp, c)
             d == P!adc_clk_update(p, sys)
  <1>1. /\ c \in Clocks /\ dev.uart \in BaudRates \cup {0} /\ dev.i2c \in I2cRates \cup {0}
        /\ dev.ssp \in Nat /\ div \in DivT /\ sys \in SysT
    BY DEF PowerShape, SysT, DevT
  <1> HIDE DEF c
  <1>2. u \in DivT /\ UartOk(dev.uart, u, c)
    <2>1. CASE dev.uart = 0
      BY <1>1, <2>1 DEF UartOk
    <2>2. CASE dev.uart # 0
      BY <1>1, <2>2, UartOn
    <2> QED BY <2>1, <2>2
  <1> HIDE DEF u
  <1>3. i \in DivT /\ I2cOk(dev.i2c, i, c) /\ i.uart = u.uart /\ i.frac = u.frac
    <2>1. CASE dev.i2c = 0
      BY <1>2, <2>1 DEF I2cOk
    <2>2. CASE dev.i2c # 0
      BY <1>1, <1>2, <2>2, I2cOn
    <2> QED BY <2>1, <2>2
  <1> HIDE DEF i
  <1>4. p \in DivT /\ SspOk(dev.ssp, p, c) /\ p.uart = i.uart /\ p.frac = i.frac /\ p.i2c = i.i2c
    <2>1. CASE dev.ssp = 0
      BY <1>3, <2>1 DEF SspOk
    <2>2. CASE dev.ssp # 0
      BY <1>1, <1>3, <2>2, SspOn
    <2> QED BY <2>1, <2>2
  <1> HIDE DEF p
  <1>5. /\ d \in DivT /\ AdcOk(sys, d) /\ d.uart = p.uart /\ d.frac = p.frac /\ d.i2c = p.i2c
        /\ d.pclk = p.pclk /\ d.prescale = p.prescale
    BY <1>1, <1>4, AdcUpdate
  <1> HIDE DEF d
  <1>6. UartOk(dev.uart, d, c)
    BY <1>2, <1>3, <1>4, <1>5 DEF UartOk
  <1>7. I2cOk(dev.i2c, d, c)
    BY <1>3, <1>4, <1>5 DEF I2cOk
  <1>8. SspOk(dev.ssp, d, c)
    BY <1>4, <1>5 DEF SspOk, P!SspRate
  <1> QED BY <1>5, <1>6, <1>7, <1>8 DEF d, p, i, u, c, P!propagate_main_clock

------------------------------------------------------------------------

LEMMA PowerInit == AllInit => PowerInv
  <1> SUFFICES ASSUME P!Init PROVE PowerInv
    BY DEF AllInit
  <1> DEFINE pll == [on |-> FALSE, from |-> "irc", m |-> 1, p |-> 1]
             flash == [over |-> TRUE, wait |-> 0]
  <1>1. /\ sys = [main |-> "irc", pll |-> pll, clock |-> 12000, irc |-> TRUE, wdosc |-> FALSE,
                  bod |-> FALSE, clkout |-> "off", flash |-> flash, powered |-> {}, sleep |-> {}, wake |-> {}]
        /\ step = [pc |-> "run", sel |-> [m |-> 1, wait |-> 0, over |-> TRUE]]
        /\ dev = [uart |-> 0, ssp |-> 0, i2c |-> 0, timer |-> 0]
        /\ div = [uart |-> 0, frac |-> FALSE, pclk |-> 0, prescale |-> 2, i2c |-> 0, adc |-> 0, timer |-> 0]
        /\ wdt = [en |-> FALSE, reset |-> FALSE, clk |-> "irc", locks |-> {}]
        /\ changes = [n |-> 0, stopped |-> FALSE]
    BY DEF P!Init, P!IRC
  <1>2. pll \in PllT /\ flash \in FlashT
    BY DEF PllT, FlashT
  <1> HIDE DEF pll, flash
  <1>3. /\ sys \in SysT /\ sys.main = "irc" /\ sys.powered = {}
    BY <1>1, <1>2 DEF SysT, Clocks
  <1>4. step \in [pc : Steps, sel : P!Selections] /\ step.pc = "run"
    BY <1>1 DEF Steps, P!Selections
  <1>5. dev \in DevT /\ dev.uart = 0 /\ dev.ssp = 0 /\ dev.i2c = 0
    BY <1>1 DEF DevT
  <1>6. div \in DivT /\ wdt \in WdtT /\ changes \in [n : Nat, stopped : BOOLEAN] /\ ~changes.stopped
    BY <1>1 DEF DivT, WdtT
  <1>7. RatesPart
    BY <1>3, <1>5 DEF RatesPart, UartOk, I2cOk, AdcOk, SspOk
  <1>8. ClockPart /\ StoppedPart
    BY <1>3, <1>4, <1>6 DEF ClockPart, StoppedPart
  <1> QED BY <1>3, <1>4, <1>5, <1>6, <1>7, <1>8 DEF PowerInv, PowerShape

\* A call that starts none of the steps of a change of frequency, touches none of
\* the dividers and gives the converter no clock.
LEMMA CallKeeps ==
  ASSUME PowerInv, P!Change \/ P!stop_watchdog, sys' \in SysT, wdt' \in WdtT, UNCHANGED <<step, dev, div>>,
         sys'.main = sys.main, sys'.pll = sys.pll, sys'.flash = sys.flash, sys'.clock = sys.clock,
         "adc" \in sys'.powered => "adc" \in sys.powered,
         changes' \in [n : Nat, stopped : BOOLEAN], StoppedPart'
  PROVE  PowerInv'
  <1>1. PowerShape'
    BY DEF PowerInv, PowerShape
  <1>2. ClockPart'
    BY DEF PowerInv, ClockPart
  <1>3. RatesPart'
    BY DEF PowerInv, RatesPart, AdcOk
  <1> QED BY <1>1, <1>2, <1>3 DEF PowerInv

LEMMA ChangeIs ==
  ASSUME PowerShape, P!Change
  PROVE  /\ step.pc = "run" /\ changes' \in [n : Nat, stopped : BOOLEAN]
         /\ ~changes'.stopped /\ StoppedPart'
  BY DEF PowerShape, P!Change, StoppedPart

LEMMA PowerSettingsKeep ==
  ASSUME PowerInv,
         \/ P!system_set_default_power_state \/ P!system_brown_out_detection_config
         \/ P!enter_deep_sleep \/ P!clkout_on \/ P!clkout_off \/ P!adc_off
  PROVE  PowerInv'
  <1>1. P!Change /\ UNCHANGED <<step, dev, div, wdt>>
    BY DEF P!system_set_default_power_state, P!system_brown_out_detection_config,
           P!enter_deep_sleep, P!clkout_on, P!clkout_off, P!adc_off
  <1>2. PowerShape
    BY DEF PowerInv
  <1>3. /\ sys \in SysT /\ sys.powered \in SUBSET PowerBlocks
    BY <1>2 DEF PowerShape, SysT
  <1> DEFINE Same == /\ sys' \in SysT /\ sys'.main = sys.main /\ sys'.pll = sys.pll
                     /\ sys'.flash = sys.flash /\ sys'.clock = sys.clock
                     /\ "adc" \in sys'.powered => "adc" \in sys.powered
  <1>4. SUFFICES Same
    BY <1>1, <1>2, CallKeeps, ChangeIs DEF PowerShape
  <1>5. CASE P!system_set_default_power_state
    <2>1. sys' = [sys EXCEPT !.powered = {}]
      BY <1>5 DEF P!system_set_default_power_state
    <2> QED BY <1>3, <2>1 DEF SysT
  <1>6. CASE P!system_brown_out_detection_config
    <2>1. PICK up \in BOOLEAN : sys' = [sys EXCEPT !.bod = up]
      BY <1>6 DEF P!system_brown_out_detection_config
    <2> QED BY <1>3, <2>1 DEF SysT
  <1>7. CASE P!enter_deep_sleep
    <2> DEFINE asleep == IF sys.bod THEN {"bod"} ELSE {}
               awake == P!Powered(sys)
    <2>1. sys' = [sys EXCEPT !.sleep = asleep, !.wake = awake]
      BY <1>7 DEF P!enter_deep_sleep
    <2>2. asleep \in SUBSET Units /\ awake \in SUBSET Units
      BY DEF Units, P!Powered
    <2> HIDE DEF asleep, awake
    <2> QED BY <1>3, <2>1, <2>2 DEF SysT
  <1>8. CASE P!clkout_on
    <2>1. PICK src \in {"irc", "main"} : sys' = [sys EXCEPT !.clkout = src]
      BY <1>8 DEF P!clkout_on
    <2> QED BY <1>3, <2>1 DEF SysT
  <1>9. CASE P!clkout_off
    <2>1. sys' = [sys EXCEPT !.clkout = "off"]
      BY <1>9 DEF P!clkout_off
    <2> QED BY <1>3, <2>1 DEF SysT
  <1>10. CASE P!adc_off
    <2> DEFINE left == sys.powered \ {"adc"}
    <2>1. sys' = [sys EXCEPT !.powered = left]
      BY <1>10 DEF P!adc_off, P!subsystem_power
    <2>2. left \in SUBSET PowerBlocks /\ "adc" \notin left
      BY <1>3
    <2> HIDE DEF left
    <2> QED BY <1>3, <2>1, <2>2 DEF SysT
  <1> QED BY <1>5, <1>6, <1>7, <1>8, <1>9, <1>10

LEMMA DeepPowerDownKeeps == ASSUME PowerInv, P!enter_deep_power_down PROVE PowerInv'
  <1> DEFINE awake == P!Powered(sys)
  <1>1. /\ P!Change /\ UNCHANGED <<dev, div, wdt>> /\ step' = [step EXCEPT !.pc = "down"]
        /\ sys' = [sys EXCEPT !.main = "irc", !.irc = TRUE, !.sleep = {}, !.wake = awake]
    BY DEF P!enter_deep_power_down
  <1>2. awake \in SUBSET Units
    BY DEF Units, P!Powered
  <1> HIDE DEF awake
  <1>3. PowerShape
    BY DEF PowerInv
  <1>4. sys' \in SysT /\ sys'.main = "irc"
    BY <1>1, <1>2, <1>3 DEF PowerShape, SysT
  <1>5. step' \in [pc : Steps, sel : P!Selections] /\ step'.pc = "down"
    BY <1>1, <1>3 DEF PowerShape, Steps
  <1>6. PowerShape' /\ StoppedPart'
    BY <1>1, <1>3, <1>4, <1>5, ChangeIs DEF PowerShape
  <1>7. ClockPart' /\ RatesPart'
    BY <1>4, <1>5 DEF ClockPart, RatesPart
  <1> QED BY <1>6, <1>7 DEF PowerInv

\* The watchdog.  Where a stop leaves it enabled it is left with the watchdog
\* oscillator, which is off.
LEMMA WatchdogKeeps ==
  ASSUME PowerInv, \/ P!watchdog_config \/ P!WatchdogLock \/ P!watchdog_lock_full
                   \/ P!startup_watchdog_disable
  PROVE  PowerInv'
  <1>1. P!Change /\ UNCHANGED <<step, dev, div>>
    BY DEF P!watchdog_config, P!WatchdogLock, P!watchdog_lock_full, P!startup_watchdog_disable
  <1>2. PowerShape
    BY DEF PowerInv
  <1>3. sys \in SysT /\ wdt \in WdtT /\ wdt.locks \subseteq P!Locks
    BY <1>2 DEF PowerShape, WdtT
  <1> DEFINE Same == /\ sys' \in SysT /\ sys'.main = sys.main /\ sys'.pll = sys.pll
                     /\ sys'.flash = sys.flash /\ sys'.clock = sys.clock
                     /\ sys'.powered = sys.powered
  <1>4. SUFFICES Same /\ wdt' \in WdtT
    BY <1>1, <1>2, CallKeeps, ChangeIs
  <1>5. CASE P!watchdog_config
    <2>1. PICK clk \in {"irc", "wdosc"}, reset \in BOOLEAN, a \in P!Locks \cup {"none"}, b \in P!Locks \cup {"none"} :
            /\ sys' = [sys EXCEPT !.irc = @ \/ clk = "irc", !.wdosc = @ \/ clk = "wdosc"]
            /\ wdt' = [en |-> TRUE, reset |-> reset, locks |-> wdt.locks \cup ({a, b} \ {"none"}),
                       clk |-> IF "source" \in wdt.locks THEN wdt.clk ELSE clk]
      BY <1>5 DEF P!watchdog_config
    <2>2. PICK irc \in {TRUE}, wdosc \in BOOLEAN : sys' = [sys EXCEPT !.irc = irc, !.wdosc = wdosc]
      <3>1. (sys.irc \/ clk = "irc") \in {TRUE} /\ (sys.wdosc \/ clk = "wdosc") \in BOOLEAN
        BY <1>3 DEF SysT
      <3> QED BY <2>1, <3>1, Zenon
    <2>3. Same
      BY <1>3, <2>2 DEF SysT
    <2> DEFINE locks == wdt.locks \cup ({a, b} \ {"none"})
               now == IF "source" \in wdt.locks THEN wdt.clk ELSE clk
    <2>4. locks \subseteq P!Locks /\ now \in {"irc", "wdosc"}
      BY <1>3 DEF WdtT
    <2>5. wdt' = [en |-> TRUE, reset |-> reset, locks |-> locks, clk |-> now]
      BY <2>1
    <2> HIDE DEF locks, now
    <2>6. wdt' \in WdtT
      BY <2>4, <2>5 DEF WdtT
    <2> QED BY <2>3, <2>6
  <1>6. CASE P!WatchdogLock \/ P!watchdog_lock_full
    <2>1. PICK locks \in SUBSET P!Locks : wdt' = [wdt EXCEPT !.locks = locks]
      BY <1>3, <1>6 DEF P!WatchdogLock, P!watchdog_lock_full
    <2>2. sys' = sys
      BY <1>6 DEF P!WatchdogLock, P!watchdog_lock_full
    <2> QED BY <1>3, <2>1, <2>2 DEF WdtT
  <1>7. CASE P!startup_watchdog_disable
    <2>1. wdt' = [wdt EXCEPT !.en = FALSE, !.reset = FALSE] /\ sys' = P!WdoscOff(sys, wdt)
      BY <1>7 DEF P!startup_watchdog_disable
    <2>2. wdt' \in WdtT
      BY <1>3, <2>1 DEF WdtT
    <2>3. Same
      BY <1>3, <2>1 DEF P!WdoscOff, SysT
    <2> QED BY <2>2, <2>3
  <1> QED BY <1>5, <1>6, <1>7

LEMMA StopWatchdogKeeps == ASSUME PowerInv, P!stop_watchdog PROVE PowerInv'
  <1> DEFINE open == "enable" \notin wdt.locks
             ok == open \/ "source" \notin wdt.locks
             dark == P!WdoscOff(sys, P!SourceAway(wdt))
             s == IF ~open /\ ok THEN dark ELSE sys
  <1>1. PowerShape
    BY DEF PowerInv
  <1>2. sys \in SysT /\ wdt \in WdtT /\ changes.n \in Nat /\ step.pc = "run"
    BY <1>1 DEF PowerShape, P!stop_watchdog
  <1>3. /\ UNCHANGED <<step, dev, div>>
        /\ wdt' = CASE open -> [wdt EXCEPT !.en = FALSE]
                    [] ~open /\ ok -> [wdt EXCEPT !.clk = "wdosc"]
                    [] OTHER -> wdt
        /\ sys' = IF ok /\ "power" \notin wdt.locks /\ P!IrcUnused(s) THEN [s EXCEPT !.irc = FALSE] ELSE s
        /\ changes' = [n |-> changes.n + 1, stopped |-> ok]
    BY DEF P!stop_watchdog
  <1>4. dark = [sys EXCEPT !.wdosc = FALSE]
    BY <1>2 DEF P!WdoscOff, P!SourceAway, WdtT
  <1>5. /\ dark \in SysT /\ dark.wdosc = FALSE /\ dark.main = sys.main /\ dark.pll = sys.pll
        /\ dark.flash = sys.flash /\ dark.clock = sys.clock /\ dark.powered = sys.powered
    BY <1>2, <1>4 DEF SysT
  <1> HIDE DEF dark
  <1>6. s \in SysT /\ ~P!IrcUnused(s)
    <2>1. s \in SysT
      BY <1>2, <1>5
    <2> HIDE DEF s
    <2>2. s.pll.from = "irc"
      BY <2>1 DEF SysT, PllT
    <2> QED BY <2>1, <2>2 DEF P!IrcUnused
  <1>7. sys' = s
    BY <1>3, <1>6
  <1>8. wdt' \in WdtT /\ changes' \in [n : Nat, stopped : BOOLEAN]
    <2>1. PICK stopped \in BOOLEAN : stopped = ok
      OBVIOUS
    <2>2. changes' = [n |-> changes.n + 1, stopped |-> stopped]
      BY <1>3, <2>1
    <2>3. changes' \in [n : Nat, stopped : BOOLEAN]
      BY <1>2, <2>2
    <2>4. wdt' \in WdtT
      BY <1>2, <1>3 DEF WdtT
    <2> QED BY <2>3, <2>4
  <1>9. StoppedPart'
    <2> SUFFICES ASSUME ok PROVE ~wdt'.en \/ (wdt'.clk = "wdosc" /\ ~sys'.wdosc)
      BY <1>2, <1>3 DEF StoppedPart
    <2>1. CASE open
      BY <1>2, <1>3, <2>1 DEF WdtT
    <2>2. CASE ~open
      BY <1>2, <1>3, <1>5, <1>7, <2>2 DEF WdtT
    <2> QED BY <2>1, <2>2
  <1>10. sys'.main = sys.main /\ sys'.pll = sys.pll /\ sys'.flash = sys.flash
         /\ sys'.clock = sys.clock /\ sys'.powered = sys.powered
    BY <1>5, <1>7
  <1> QED BY <1>3, <1>6, <1>7, <1>8, <1>9, <1>10, CallKeeps

\* The steps of a change of frequency: the main clock stays on the internal
\* oscillator while the flash and the PLL are set up for the one to come.
LEMMA ClockConfigKeeps == ASSUME PowerInv, P!clock_config PROVE PowerInv'
  <1>1. PICK sel \in P!Selections : step' = [pc |-> "irc", sel |-> sel]
    BY DEF P!clock_config
  <1>2. P!Change /\ sys' = [sys EXCEPT !.irc = TRUE] /\ UNCHANGED <<dev, div, wdt>>
    BY DEF P!clock_config
  <1>3. PowerShape
    BY DEF PowerInv
  <1>4. /\ sys' \in SysT /\ sys'.main = sys.main /\ sys'.pll = sys.pll /\ sys'.flash = sys.flash
    BY <1>2, <1>3 DEF PowerShape, SysT
  <1>5. step' \in [pc : Steps, sel : P!Selections] /\ step'.pc = "irc"
    BY <1>1 DEF Steps
  <1>6. PowerShape' /\ StoppedPart'
    BY <1>2, <1>3, <1>4, <1>5, ChangeIs DEF PowerShape
  <1>7. ClockPart' /\ RatesPart'
    BY <1>4, <1>5 DEF PowerInv, ClockPart, RatesPart
  <1> QED BY <1>6, <1>7 DEF PowerInv

\* The state with another field of its own.
LEMMA WithFlash ==
  ASSUME NEW s \in SysT, NEW flash \in FlashT
  PROVE  LET t == [s EXCEPT !.flash = flash] IN
           t \in SysT /\ t.main = s.main /\ t.pll = s.pll /\ t.flash = flash
  BY DEF SysT

LEMMA WithPll ==
  ASSUME NEW s \in SysT, NEW pll \in PllT
  PROVE  LET t == [s EXCEPT !.pll = pll] IN
           t \in SysT /\ t.main = s.main /\ t.pll = pll /\ t.flash = s.flash
  BY DEF SysT

LEMMA WithClock ==
  ASSUME NEW s \in SysT, NEW clock \in Clocks
  PROVE  LET t == [s EXCEPT !.clock = clock] IN
           t \in SysT /\ t.main = s.main /\ t.pll = s.pll /\ t.flash = s.flash
  BY DEF SysT

\* A step that is not the last one.
LEMMA StepOn ==
  ASSUME PowerInv, step.pc \notin {"run", "down"}, P!Still, UNCHANGED div,
         NEW pc \in Steps \ {"run", "down"}, P!Goto(pc), sys' \in SysT, ClockPart'
  PROVE  PowerInv'
  <1>1. step' = [step EXCEPT !.pc = pc] /\ step \in [pc : Steps, sel : P!Selections]
    BY DEF P!Goto, PowerInv, PowerShape
  <1>2. step' \in [pc : Steps, sel : P!Selections] /\ step'.pc = pc
    BY <1>1 DEF Steps
  <1>3. PowerShape' /\ RatesPart'
    BY <1>2 DEF P!Still, PowerInv, PowerShape, RatesPart
  <1>4. StoppedPart'
    BY DEF P!Still, PowerInv, StoppedPart
  <1> QED BY <1>3, <1>4 DEF PowerInv

LEMMA GotoIs ==
  ASSUME PowerShape, NEW pc \in Steps, P!Goto(pc)
  PROVE  step'.pc = pc /\ step'.sel = step.sel
  BY DEF P!Goto, PowerShape

LEMMA ClockStepsKeep ==
  ASSUME PowerInv, \/ P!ToIrc \/ P!flash_accelerator_config \/ P!PllOff \/ P!PllSetup \/ P!ToPll
  PROVE  PowerInv'
  <1>1. PowerShape /\ sys \in SysT /\ sys.flash \in FlashT /\ sys.pll \in PllT
    BY DEF PowerInv, PowerShape, SysT
  <1>2. step.sel \in P!Selections
    BY <1>1 DEF PowerShape
  <1>3. CASE P!ToIrc
    <2>1. step.pc = "irc" /\ sys' = [sys EXCEPT !.main = "irc"] /\ P!Goto("flash") /\ UNCHANGED div /\ P!Still
      BY <1>3 DEF P!ToIrc
    <2>2. step'.pc = "flash"
      BY <1>1, <2>1, GotoIs DEF Steps
    <2>3. sys' \in SysT /\ sys'.main = "irc"
      BY <1>1, <2>1 DEF SysT
    <2>4. ClockPart'
      BY <2>2, <2>3 DEF ClockPart
    <2> QED BY <2>1, <2>3, <2>4, StepOn DEF Steps
  <1>4. CASE P!flash_accelerator_config
    <2> DEFINE flash == IF step.sel.over THEN [sys.flash EXCEPT !.over = TRUE]
                        ELSE [over |-> FALSE, wait |-> step.sel.wait]
    <2>1. /\ step.pc = "flash" /\ P!Goto("pll_off") /\ UNCHANGED div /\ P!Still
          /\ sys' = [sys EXCEPT !.flash = flash]
      BY <1>4 DEF P!flash_accelerator_config
    <2>2. step'.pc = "pll_off" /\ step'.sel = step.sel
      BY <1>1, <2>1, GotoIs DEF Steps
    <2>3. flash \in FlashT /\ FlashFor(flash, step.sel.m * 12000)
      <3>1. CASE step.sel.over
        <4>1. step.sel.m \in {1, 2}
          BY <1>2, <3>1 DEF P!Selections
        <4>2. flash \in FlashT /\ flash.over = TRUE
          BY <1>1, <3>1 DEF FlashT
        <4> QED BY <4>1, <4>2 DEF FlashFor
      <3>2. CASE ~step.sel.over
        <4>1. /\ step.sel.m \in {3, 4, 5} /\ step.sel.wait \in {0, 1}
              /\ step.sel.m = 5 => step.sel.wait = 1
          BY <1>2, <3>2 DEF P!Selections
        <4>2. flash \in FlashT /\ flash.over = FALSE /\ flash.wait = step.sel.wait
          BY <3>2, <4>1 DEF FlashT
        <4> QED BY <4>1, <4>2 DEF FlashFor
      <3> QED BY <3>1, <3>2
    <2> HIDE DEF flash
    <2>4. sys' \in SysT /\ sys'.main = sys.main /\ sys'.flash = flash
      BY <1>1, <2>1, <2>3, WithFlash
    <2>5. sys.main = "irc"
      BY <2>1 DEF PowerInv, ClockPart
    <2>6. ClockPart'
      BY <2>2, <2>3, <2>4, <2>5 DEF ClockPart
    <2> QED BY <2>1, <2>4, <2>6, StepOn DEF Steps
  <1>5. CASE P!PllOff
    <2>1. step.pc = "pll_off" /\ UNCHANGED div /\ P!Still
      BY <1>5 DEF P!PllOff
    <2>2. sys.main = "irc" /\ FlashFor(sys.flash, step.sel.m * 12000)
      BY <2>1 DEF PowerInv, ClockPart
    <2> DEFINE pll == [sys.pll EXCEPT !.on = FALSE]
    <2>3. pll \in PllT
      BY <1>1 DEF PllT
    <2>4. CASE step.sel.m = 1
      <3>1. sys' = [sys EXCEPT !.pll = pll, !.clock = 12000] /\ P!Goto("propagate")
        BY <1>5, <2>4 DEF P!PllOff, P!IRC
      <3> HIDE DEF pll
      <3>2. sys' \in SysT /\ sys'.main = "irc"
        <4> DEFINE t == [sys EXCEPT !.pll = pll]
        <4>1. t \in SysT /\ t.main = sys.main
          BY <1>1, <2>3, WithPll
        <4>2. sys' = [t EXCEPT !.clock = 12000] /\ 12000 \in Clocks
          BY <3>1 DEF Clocks
        <4> HIDE DEF t
        <4> QED BY <2>2, <4>1, <4>2, WithClock
      <3>3. step'.pc = "propagate"
        BY <1>1, <3>1, GotoIs DEF Steps
      <3>4. ClockPart'
        BY <3>2, <3>3 DEF ClockPart
      <3> QED BY <2>1, <3>1, <3>2, <3>4, StepOn DEF Steps
    <2>5. CASE step.sel.m # 1
      <3>1. sys' = [sys EXCEPT !.pll = pll] /\ P!Goto("pll")
        BY <1>5, <2>5 DEF P!PllOff
      <3> HIDE DEF pll
      <3>2. sys' \in SysT /\ sys'.main = "irc" /\ sys'.flash = sys.flash
        BY <1>1, <2>2, <2>3, <3>1, WithPll
      <3>3. step'.pc = "pll" /\ step'.sel = step.sel
        BY <1>1, <3>1, GotoIs DEF Steps
      <3>4. ClockPart'
        BY <2>2, <3>2, <3>3 DEF ClockPart
      <3> QED BY <2>1, <3>1, <3>2, <3>4, StepOn DEF Steps
    <2> QED BY <2>4, <2>5
  <1>6. CASE P!PllSetup
    <2> DEFINE c == step.sel.m * 12000
               pll == [on |-> TRUE, from |-> "irc", m |-> step.sel.m, p |-> 2^P!PostDivider]
    <2>1. /\ step.pc = "pll" /\ P!Goto("switch") /\ UNCHANGED div /\ P!Still
          /\ sys' = [sys EXCEPT !.clock = c, !.pll = pll]
      BY <1>6 DEF P!PllSetup, P!IRC
    <2>2. step.sel.m \in 1 .. 5 /\ c \in Clocks
      BY <1>2 DEF P!Selections, Clocks
    <2>3. pll \in PllT /\ pll.on = TRUE /\ pll.m = step.sel.m
      BY <2>2 DEF PllT, P!PostDivider
    <2> HIDE DEF pll, c
    <2>4. sys' \in SysT /\ sys'.main = sys.main /\ sys'.flash = sys.flash /\ sys'.pll = pll
      BY <1>1, <2>1, <2>2, <2>3 DEF SysT
    <2>5. step'.pc = "switch" /\ step'.sel = step.sel
      BY <1>1, <2>1, GotoIs DEF Steps
    <2>6. sys.main = "irc" /\ FlashFor(sys.flash, step.sel.m * 12000)
      BY <2>1 DEF PowerInv, ClockPart
    <2>7. ClockPart'
      BY <2>3, <2>4, <2>5, <2>6 DEF ClockPart
    <2> QED BY <2>1, <2>4, <2>7, StepOn DEF Steps
  <1>7. CASE P!ToPll
    <2>1. step.pc = "switch" /\ sys' = [sys EXCEPT !.main = "pll"] /\ P!Goto("propagate") /\ UNCHANGED div /\ P!Still
      BY <1>7 DEF P!ToPll
    <2>2. sys' \in SysT /\ sys'.pll = sys.pll /\ sys'.flash = sys.flash
      BY <1>1, <2>1 DEF SysT
    <2>3. step'.pc = "propagate"
      BY <1>1, <2>1, GotoIs DEF Steps
    <2>4. sys.pll.on /\ sys.pll.m = step.sel.m /\ FlashFor(sys.flash, step.sel.m * 12000)
      BY <2>1 DEF PowerInv, ClockPart
    <2>5. ClockPart'
      BY <2>2, <2>3, <2>4 DEF ClockPart
    <2> QED BY <2>1, <2>2, <2>5, StepOn DEF Steps
  <1> QED BY <1>3, <1>4, <1>5, <1>6, <1>7

\* The last step, after which the devices keep to their rates again.
LEMMA PropagateKeeps == ASSUME PowerInv, P!Propagate PROVE PowerInv'
  <1>1. /\ step.pc = "propagate" /\ P!Goto("run") /\ P!Still /\ UNCHANGED sys
        /\ div' = P!propagate_main_clock(div, sys)
    BY DEF P!Propagate
  <1>2. PowerShape
    BY DEF PowerInv
  <1>3. step' \in [pc : Steps, sel : P!Selections] /\ step'.pc = "run"
    BY <1>1, <1>2 DEF P!Goto, PowerShape, Steps
  <1>4. /\ div' \in DivT
        /\ UartOk(dev.uart, div', sys.clock) /\ I2cOk(dev.i2c, div', sys.clock)
        /\ AdcOk(sys, div') /\ SspOk(dev.ssp, div', sys.clock)
    BY <1>1, <1>2, PropagateSound
  <1>5. PowerShape' /\ RatesPart'
    BY <1>1, <1>2, <1>3, <1>4 DEF P!Still, PowerShape, RatesPart
  <1>6. ClockPart' /\ StoppedPart'
    BY <1>1, <1>3 DEF P!Still, PowerInv, ClockPart, StoppedPart
  <1> QED BY <1>5, <1>6 DEF PowerInv

\* A call that switches a device on or off.
LEMMA DeviceKeeps ==
  ASSUME PowerInv, P!Change, UNCHANGED <<step, wdt>>, sys' \in SysT, dev' \in DevT, div' \in DivT,
         sys'.main = sys.main, sys'.pll = sys.pll, sys'.flash = sys.flash, sys'.clock = sys.clock,
         UartOk(dev'.uart, div', sys.clock), I2cOk(dev'.i2c, div', sys.clock),
         AdcOk(sys', div'), SspOk(dev'.ssp, div', sys.clock)
  PROVE  PowerInv'
  <1>1. PowerShape' /\ StoppedPart'
    BY ChangeIs DEF PowerInv, PowerShape
  <1>2. ClockPart' /\ RatesPart'
    BY DEF PowerInv, ClockPart, RatesPart
  <1> QED BY <1>1, <1>2 DEF PowerInv

LEMMA PoweredIs ==
  ASSUME NEW s \in SysT, NEW b \in PowerBlocks, NEW up \in BOOLEAN
  PROVE  LET t == P!subsystem_power(s, b, up) IN
           /\ t \in SysT /\ t.main = s.main /\ t.pll = s.pll /\ t.flash = s.flash /\ t.clock = s.clock
           /\ b # "adc" => ("adc" \in t.powered <=> "adc" \in s.powered)
  <1> DEFINE p == IF up THEN s.powered \cup {b} ELSE s.powered \ {b}
             t == P!subsystem_power(s, b, up)
  <1>1. p \in SUBSET PowerBlocks /\ (b # "adc" => ("adc" \in p <=> "adc" \in s.powered))
    BY DEF SysT
  <1>2. t = [s EXCEPT !.powered = p]
    BY DEF P!subsystem_power
  <1> HIDE DEF p, t
  <1>3. /\ t \in SysT /\ t.main = s.main /\ t.pll = s.pll /\ t.flash = s.flash /\ t.clock = s.clock
        /\ t.powered = p
    BY <1>1, <1>2 DEF SysT
  <1> QED BY <1>1, <1>3 DEF t

LEMMA DeviceOnKeeps ==
  ASSUME PowerInv, P!uart_on \/ P!ssp_master_on \/ P!i2c_on \/ P!countertimer_on
  PROVE  PowerInv'
  <1>1. P!Change /\ UNCHANGED <<step, wdt>>
    BY DEF P!uart_on, P!ssp_master_on, P!i2c_on, P!countertimer_on
  <1>2. PowerShape /\ step.pc = "run"
    BY <1>1 DEF PowerInv, P!Change
  <1> DEFINE c == sys.clock
  <1>3. sys \in SysT /\ dev \in DevT /\ div \in DivT /\ c \in Clocks
    BY <1>2 DEF PowerShape, SysT
  <1>4. UartOk(dev.uart, div, c) /\ I2cOk(dev.i2c, div, c) /\ AdcOk(sys, div) /\ SspOk(dev.ssp, div, c)
    BY <1>2 DEF PowerInv, RatesPart
  <1> HIDE DEF c
  <1> DEFINE Lit == /\ sys' \in SysT /\ sys'.main = sys.main /\ sys'.pll = sys.pll /\ sys'.flash = sys.flash
                    /\ sys'.clock = sys.clock /\ ("adc" \in sys'.powered <=> "adc" \in sys.powered)
  <1>5. Lit
    <2>1. PICK b \in PowerBlocks \ {"adc"} : sys' = P!subsystem_power(sys, b, TRUE)
      BY DEF P!uart_on, P!ssp_master_on, P!i2c_on, P!countertimer_on, PowerBlocks
    <2> DEFINE t == P!subsystem_power(sys, b, TRUE)
    <2>2. /\ t \in SysT /\ t.main = sys.main /\ t.pll = sys.pll /\ t.flash = sys.flash /\ t.clock = sys.clock
          /\ "adc" \in t.powered <=> "adc" \in sys.powered
      BY <1>3, PoweredIs
    <2> HIDE DEF t
    <2>3. sys' = t
      BY <2>1 DEF t
    <2> QED BY <2>2, <2>3
  <1>6. CASE P!uart_on
    <2>1. PICK baud \in BaudRates : dev' = [dev EXCEPT !.uart = baud] /\ div' = P!uart_clk_on(div, baud, c)
      BY <1>6 DEF P!uart_on, c
    <2>2. dev' \in DevT /\ dev'.uart = baud /\ dev'.i2c = dev.i2c /\ dev'.ssp = dev.ssp
      BY <1>3, <2>1 DEF DevT
    <2>3. /\ div' \in DivT /\ UartOk(baud, div', c) /\ div'.i2c = div.i2c /\ div'.adc = div.adc
          /\ div'.pclk = div.pclk /\ div'.prescale = div.prescale
      BY <1>3, <2>1, UartOn
    <2>4. I2cOk(dev'.i2c, div', c) /\ AdcOk(sys', div') /\ SspOk(dev'.ssp, div', c)
      BY <1>4, <1>5, <2>2, <2>3 DEF I2cOk, AdcOk, SspOk, P!SspRate
    <2> QED BY <1>1, <1>5, <2>2, <2>3, <2>4, DeviceKeeps DEF c
  <1>7. CASE P!ssp_master_on
    <2>1. PICK rate \in SspRates :
            div' = P!ssp_clk_on(div, rate, c) /\ dev' = [dev EXCEPT !.ssp = P!SspRate(div', c)]
      BY <1>7 DEF P!ssp_master_on, c
    <2>2. rate \in Nat \ {0}
      BY PartAssumptions DEF P!PowerAssumption
    <2> DEFINE achieved == P!SspRate(div', c)
    <2>3. /\ div' \in DivT /\ achieved \in Nat /\ div'.uart = div.uart /\ div'.frac = div.frac
          /\ div'.i2c = div.i2c /\ div'.adc = div.adc
      BY <1>3, <2>1, <2>2, SspOn
    <2> HIDE DEF achieved
    <2>4. dev' = [dev EXCEPT !.ssp = achieved]
      BY <2>1 DEF achieved
    <2>5. dev' \in DevT /\ dev'.uart = dev.uart /\ dev'.i2c = dev.i2c /\ dev'.ssp = achieved
      BY <1>3, <2>3, <2>4 DEF DevT
    <2>6. SspOk(dev'.ssp, div', c)
      <3>1. achieved # 0 => achieved < 2 * achieved
        BY <2>3
      <3> QED BY <2>5, <3>1 DEF SspOk, achieved
    <2>7. UartOk(dev'.uart, div', c) /\ I2cOk(dev'.i2c, div', c) /\ AdcOk(sys', div')
      BY <1>4, <1>5, <2>3, <2>5 DEF UartOk, I2cOk, AdcOk
    <2> QED BY <1>1, <1>5, <2>3, <2>5, <2>6, <2>7, DeviceKeeps DEF c
  <1>8. CASE P!i2c_on
    <2>1. PICK freq \in I2cRates : dev' = [dev EXCEPT !.i2c = freq] /\ div' = P!i2c_clock_on(div, freq, c)
      BY <1>8 DEF P!i2c_on, c
    <2>2. dev' \in DevT /\ dev'.i2c = freq /\ dev'.uart = dev.uart /\ dev'.ssp = dev.ssp
      BY <1>3, <2>1 DEF DevT
    <2>3. /\ div' \in DivT /\ I2cOk(freq, div', c) /\ div'.uart = div.uart /\ div'.frac = div.frac
          /\ div'.adc = div.adc /\ div'.pclk = div.pclk /\ div'.prescale = div.prescale
      BY <1>3, <2>1, I2cOn
    <2>4. UartOk(dev'.uart, div', c) /\ AdcOk(sys', div') /\ SspOk(dev'.ssp, div', c)
      BY <1>4, <1>5, <2>2, <2>3 DEF UartOk, AdcOk, SspOk, P!SspRate
    <2> QED BY <1>1, <1>5, <2>2, <2>3, <2>4, DeviceKeeps DEF c
  <1>9. CASE P!countertimer_on
    <2>1. PICK rate \in TimerRates : dev' = [dev EXCEPT !.timer = rate]
                                     /\ div' = [div EXCEPT !.timer = (c \div rate) - 1]
      BY <1>9 DEF P!countertimer_on, c
    <2>2. rate \in Nat \ {0} /\ c \in Nat
      BY <1>3, PartAssumptions DEF P!PowerAssumption, Clocks
    <2> DEFINE k == (c \div rate) - 1
    <2>3. k \in Int
      BY <2>2, Quotient
    <2> HIDE DEF k
    <2>4. div' = [div EXCEPT !.timer = k]
      BY <2>1 DEF k
    <2>5. dev' \in DevT /\ dev'.i2c = dev.i2c /\ dev'.uart = dev.uart /\ dev'.ssp = dev.ssp
      BY <1>3, <2>1 DEF DevT
    <2>6. /\ div' \in DivT /\ div'.uart = div.uart /\ div'.frac = div.frac /\ div'.i2c = div.i2c
          /\ div'.adc = div.adc /\ div'.pclk = div.pclk /\ div'.prescale = div.prescale
      BY <1>3, <2>3, <2>4 DEF DivT
    <2>7. UartOk(dev'.uart, div', c) /\ I2cOk(dev'.i2c, div', c) /\ AdcOk(sys', div') /\ SspOk(dev'.ssp, div', c)
      BY <1>4, <1>5, <2>5, <2>6 DEF UartOk, I2cOk, AdcOk, SspOk, P!SspRate
    <2> QED BY <1>1, <1>5, <2>5, <2>6, <2>7, DeviceKeeps DEF c
  <1> QED BY <1>6, <1>7, <1>8, <1>9

LEMMA DeviceOffKeeps == ASSUME PowerInv, P!DeviceOff PROVE PowerInv'
  <1>1. P!Change /\ UNCHANGED <<step, div, wdt>>
    BY DEF P!DeviceOff
  <1>2. PowerShape /\ step.pc = "run"
    BY <1>1 DEF PowerInv, P!Change
  <1>3. sys \in SysT /\ dev \in DevT /\ div \in DivT
    BY <1>2 DEF PowerShape
  <1>4. /\ UartOk(dev.uart, div, sys.clock) /\ I2cOk(dev.i2c, div, sys.clock)
        /\ AdcOk(sys, div) /\ SspOk(dev.ssp, div, sys.clock)
    BY <1>2 DEF PowerInv, RatesPart
  <1>5. PICK d \in {"uart", "ssp", "i2c", "timer"} :
          dev' = [dev EXCEPT ![d] = 0] /\ sys' = P!subsystem_power(sys, d, FALSE)
    BY <1>3 DEF P!DeviceOff, DevT
  <1>6. /\ sys' \in SysT /\ sys'.main = sys.main /\ sys'.pll = sys.pll /\ sys'.flash = sys.flash
        /\ sys'.clock = sys.clock /\ ("adc" \in sys'.powered <=> "adc" \in sys.powered)
    <2> DEFINE t == P!subsystem_power(sys, d, FALSE)
    <2>1. d \in PowerBlocks /\ d # "adc"
      BY DEF PowerBlocks
    <2>2. /\ t \in SysT /\ t.main = sys.main /\ t.pll = sys.pll /\ t.flash = sys.flash /\ t.clock = sys.clock
          /\ "adc" \in t.powered <=> "adc" \in sys.powered
      BY <1>3, <2>1, PoweredIs
    <2> HIDE DEF t
    <2>3. sys' = t
      BY <1>5 DEF t
    <2> QED BY <2>2, <2>3
  <1>7. /\ dev' \in DevT /\ dev'.uart \in {dev.uart, 0} /\ dev'.i2c \in {dev.i2c, 0}
        /\ dev'.ssp \in {dev.ssp, 0}
    BY <1>3, <1>5 DEF DevT
  <1>8. /\ UartOk(dev'.uart, div', sys.clock) /\ I2cOk(dev'.i2c, div', sys.clock)
        /\ AdcOk(sys', div') /\ SspOk(dev'.ssp, div', sys.clock)
    BY <1>1, <1>4, <1>6, <1>7 DEF UartOk, I2cOk, AdcOk, SspOk
  <1> QED BY <1>1, <1>3, <1>6, <1>7, <1>8, DeviceKeeps

LEMMA AdcOnKeeps == ASSUME PowerInv, P!adc_on PROVE PowerInv'
  <1> DEFINE s == P!subsystem_power(sys, "adc", TRUE)
  <1>1. /\ P!Change /\ UNCHANGED <<step, dev, wdt>>
        /\ sys' = [s EXCEPT !.bod = TRUE] /\ div' = P!adc_clk_update(div, sys')
    BY DEF P!adc_on
  <1>2. PowerShape /\ step.pc = "run"
    BY <1>1 DEF PowerInv, P!Change
  <1>3. sys \in SysT /\ dev \in DevT /\ div \in DivT
    BY <1>2 DEF PowerShape
  <1>4. UartOk(dev.uart, div, sys.clock) /\ I2cOk(dev.i2c, div, sys.clock) /\ SspOk(dev.ssp, div, sys.clock)
    BY <1>2 DEF PowerInv, RatesPart
  <1>5. /\ s \in SysT /\ s.main = sys.main /\ s.pll = sys.pll /\ s.flash = sys.flash /\ s.clock = sys.clock
    BY <1>3, PoweredIs DEF PowerBlocks
  <1> HIDE DEF s
  <1>6. /\ sys' \in SysT /\ sys'.main = sys.main /\ sys'.pll = sys.pll /\ sys'.flash = sys.flash
        /\ sys'.clock = sys.clock
    BY <1>1, <1>5 DEF SysT
  <1>7. /\ div' \in DivT /\ AdcOk(sys', div') /\ div'.uart = div.uart /\ div'.frac = div.frac
        /\ div'.i2c = div.i2c /\ div'.pclk = div.pclk /\ div'.prescale = div.prescale
    BY <1>1, <1>3, <1>6, AdcUpdate
  <1>8. UartOk(dev.uart, div', sys.clock) /\ I2cOk(dev.i2c, div', sys.clock) /\ SspOk(dev.ssp, div', sys.clock)
    BY <1>4, <1>7 DEF UartOk, I2cOk, SspOk, P!SspRate
  <1> QED BY <1>1, <1>3, <1>6, <1>7, <1>8, DeviceKeeps

LEMMA PowerKeeps == ASSUME PowerInv, [AllNext]_allVars PROVE PowerInv'
  <1>1. [P!Next]_powerVars
    BY DEF AllNext, allVars, powerVars
  <1>2. CASE P!Next
    BY <1>2, PowerSettingsKeep, DeepPowerDownKeeps, WatchdogKeeps, StopWatchdogKeeps,
       ClockConfigKeeps, ClockStepsKeep, PropagateKeeps, DeviceOnKeeps, DeviceOffKeeps, AdcOnKeeps
    DEF P!Next
  <1>3. CASE UNCHANGED powerVars
    BY <1>3 DEF powerVars, PowerInv, PowerShape, ClockPart, RatesPart, StoppedPart
  <1> QED BY <1>1, <1>2, <1>3

THEOREM PowerSoundAlways == AllSpec => []PowerSound
  <1>1. ASSUME PowerInv PROVE PowerSound
    <2>1. PowerShape /\ sys \in SysT /\ sys.flash \in FlashT /\ sys.pll \in PllT
      BY <1>1 DEF PowerInv, PowerShape, SysT
    <2>2. P!ClockAlive
      <3>1. CASE sys.main = "irc"
        <4>1. sys.irc
          BY <2>1 DEF SysT
        <4>2. P!Running = 12000
          BY <3>1 DEF P!Running, P!IRC
        <4> QED BY <3>1, <4>1, <4>2 DEF P!ClockAlive
      <3>2. CASE sys.main # "irc"
        <4>1. sys.main = "pll" /\ sys.irc
          BY <2>1, <3>2 DEF SysT
        <4>2. sys.pll.on /\ FlashFor(sys.flash, sys.pll.m * 12000)
          BY <1>1, <4>1 DEF PowerInv, ClockPart
        <4> QED BY <4>1, <4>2 DEF P!ClockAlive, P!Running, P!IRC, FlashFor
      <3> QED BY <3>1, <3>2
    <2>3. P!RatesFollow
      <3> SUFFICES ASSUME step.pc = "run" PROVE P!RatesFollow
        BY DEF P!RatesFollow
      <3>1. /\ UartOk(dev.uart, div, sys.clock) /\ I2cOk(dev.i2c, div, sys.clock)
            /\ AdcOk(sys, div) /\ SspOk(dev.ssp, div, sys.clock)
        BY <1>1 DEF PowerInv, RatesPart
      <3> QED BY <3>1 DEF P!RatesFollow, UartOk, I2cOk, AdcOk, SspOk
    <2>4. P!StoppedMeansStopped
      BY <1>1 DEF PowerInv, StoppedPart, P!StoppedMeansStopped
    <2> QED BY <2>2, <2>3, <2>4 DEF PowerSound, P!PowerSound
  <1> QED BY <1>1, PowerInit, PowerKeeps, PTL DEF AllSpec

(***************************************************************************)
(* The SPI driver (Ssp).                                                   *)
(***************************************************************************)

Loops == {"fill", "drain", "again"}

\* The shape of the state; the FIFOs are empty between two transfers.
SspShape ==
  /\ ssp \in [on : BOOLEAN, mutex : BOOLEAN, tx : Seq(Nat), rx : Seq(Nat), overrun : BOOLEAN]
  /\ xfer \in [pc : {"off", "idle"} \cup Loops, width : {"bytes", "words"}, size : Nat, count : Nat,
               in : Seq(Nat)]
  /\ lag \in [turns : Nat, left : Nat, stall : Nat]
  /\ Len(ssp.tx) <= Depth /\ Len(ssp.rx) <= Depth
  /\ xfer.pc \notin Loops => ssp.tx = <<>> /\ ssp.rx = <<>>
  /\ xfer.pc \in Loops => lag.left <= lag.stall /\ xfer.count <= xfer.size

\* With no frame lost the buffer, the receive FIFO and the transmit FIFO hold the
\* frames sent so far in order.
InOrder ==
  (xfer.pc \in Loops /\ ~ssp.overrun) =>
    /\ xfer.count = Len(xfer.in) + Len(ssp.rx) + Len(ssp.tx)
    /\ \A i \in 1 .. Len(xfer.in) : xfer.in[i] = i
    /\ \A i \in 1 .. Len(ssp.rx) : ssp.rx[i] = Len(xfer.in) + i
    /\ \A i \in 1 .. Len(ssp.tx) : ssp.tx[i] = Len(xfer.in) + Len(ssp.rx) + i

\* How many frames n to send and r received there are at a place of the loop, t
\* turns after the last one left, b of those the interrupt lets by having gone (0:
\* it has not come), and k still to send.
Bounded(pc, n, r, t, b, k) ==
  /\ pc = "fill" /\ k # 0 /\ b = 0 => 3 * r + t <= n
  /\ pc = "fill" /\ k # 0 /\ b # 0 =>
       /\ r + t <= n + 5 /\ 3 * r + t <= n + 5 * b - 1 /\ n + r <= 15
       /\ 2 * r <= n + 3 * b - 1 /\ t <= 2 * n
  /\ pc = "fill" /\ k = 0 /\ b = 0 => r <= 2 /\ 2 * r + t <= 6
  /\ pc = "fill" /\ k = 0 /\ b # 0 => r <= b + 4 /\ 2 * r + t <= 2 * b + 10
  /\ pc = "drain" /\ k # 0 /\ b = 0 => r <= 2 /\ r + t + 19 <= 3 * n
  /\ pc = "drain" /\ k # 0 /\ b # 0 =>
       /\ r + 5 <= n + 2 * b /\ r + t + 12 <= 2 * n + 3 * b /\ r <= b + 4
       /\ 2 * r + 2 * t <= 3 * n + 3 /\ r + t <= b + 7 /\ 5 <= n + r
  /\ pc = "drain" /\ k = 0 /\ b = 0 => r <= 2 /\ r + t <= 5
  /\ pc = "drain" /\ k = 0 /\ b # 0 => r <= b + 4 /\ r + t <= b + 7
  /\ pc = "again" /\ k # 0 /\ b = 0 => r <= 1 /\ 7 <= n /\ r + t + 4 <= n
  /\ pc = "again" /\ k # 0 /\ b # 0 =>
       /\ 2 * r + t + 5 <= n + 4 * b /\ 2 * n + r <= 16 /\ 5 <= n + r
       /\ r + 12 <= 2 * n + 3 * b /\ r + t + 4 <= n + 2 * b
  /\ pc = "again" /\ k = 0 /\ b = 0 => r <= 1 /\ r + t <= 4
  /\ pc = "again" /\ k = 0 /\ b # 0 => r + t <= 5 /\ r <= b + 1

Short(t) == IF t < 4 THEN t ELSE 4

\* A transfer in time loses nothing.
InTime ==
  (xfer.pc \in Loops /\ Pace >= 4 /\ lag.stall <= 4) =>
    /\ ~ssp.overrun
    /\ Bounded(xfer.pc, Len(ssp.tx), Len(ssp.rx), Short(lag.turns), lag.stall - lag.left,
               xfer.size - xfer.count)

\* What the transfer before this moment has left in the buffer.
Kept ==
  (xfer.pc \notin Loops /\ Pace >= 4 /\ lag.stall <= 4) =>
    ~ssp.overrun /\ Len(xfer.in) = xfer.size /\ (\A i \in 1 .. xfer.size : xfer.in[i] = i)

SspInv == SspShape /\ InOrder /\ InTime /\ Kept

------------------------------------------------------------------------

\* A frame leaves, in its time or during the interrupt.
LEMMA ShiftBounded ==
  ASSUME NEW pc \in Loops, NEW n \in 1 .. 8, NEW r \in 0 .. 8, NEW t \in 0 .. 4, NEW b \in 0 .. 4,
         NEW c \in 0 .. 4, NEW k \in Nat, Bounded(pc, n, r, t, b, k),
         (t = 4 /\ c = b) \/ c = b + 1
  PROVE  r < 8 /\ Bounded(pc, n - 1, r + 1, 0, c, k)
  <1>1. CASE pc = "fill" /\ k # 0
    BY <1>1 DEF Bounded
  <1>2. CASE pc = "fill" /\ k = 0
    BY <1>2 DEF Bounded
  <1>3. CASE pc = "drain" /\ k # 0
    BY <1>3 DEF Bounded
  <1>4. CASE pc = "drain" /\ k = 0
    BY <1>4 DEF Bounded
  <1>5. CASE pc = "again" /\ k # 0
    BY <1>5 DEF Bounded
  <1>6. CASE pc = "again" /\ k = 0
    BY <1>6 DEF Bounded
  <1> QED BY <1>1, <1>2, <1>3, <1>4, <1>5, <1>6 DEF Loops

\* A turn of a loop: t + 1, and the interrupt, once it has come, is over.
LEMMA FillBounded ==
  ASSUME NEW n \in 0 .. 7, NEW r \in 0 .. 7, NEW t \in 0 .. 4, NEW b \in 0 .. 4, NEW c \in 0 .. 4,
         NEW k \in Nat, Bounded("fill", n, r, t, b, k + 1), c >= b, b = 0 => c = 0
  PROVE  Bounded("fill", n + 1, r, Short(t + 1), c, k)
  BY DEF Bounded, Short

LEMMA FillEndBounded ==
  ASSUME NEW n \in 0 .. 8, NEW r \in 0 .. 8, NEW t \in 0 .. 4, NEW b \in 0 .. 4, NEW c \in 0 .. 4,
         NEW k \in Nat, Bounded("fill", n, r, t, b, k), c >= b, b = 0 => c = 0,
         ~ (k # 0 /\ n < 8 /\ r < 8)
  PROVE  Bounded("drain", n, r, Short(t + 1), c, k)
  BY DEF Bounded, Short

LEMMA DrainBounded ==
  ASSUME NEW n \in 0 .. 8, NEW r \in 1 .. 8, NEW t \in 0 .. 4, NEW b \in 0 .. 4, NEW c \in 0 .. 4,
         NEW k \in Nat, Bounded("drain", n, r, t, b, k), c >= b, b = 0 => c = 0,
         ~ (k # 0 /\ n <= 4) \/ r = 8
  PROVE  Bounded("drain", n, r - 1, Short(t + 1), c, k)
  BY DEF Bounded, Short

LEMMA DrainEndBounded ==
  ASSUME NEW n \in 0 .. 8, NEW r \in 0 .. 8, NEW t \in 0 .. 4, NEW b \in 0 .. 4, NEW c \in 0 .. 4,
         NEW k \in Nat, Bounded("drain", n, r, t, b, k), c >= b, b = 0 => c = 0,
         r = 0 \/ (k # 0 /\ n <= 4)
  PROVE  Bounded("again", n, r, Short(t + 1), c, k)
  BY DEF Bounded, Short

LEMMA AgainBounded ==
  ASSUME NEW n \in 0 .. 8, NEW r \in 0 .. 8, NEW t \in 0 .. 4, NEW b \in 0 .. 4, NEW c \in 0 .. 4,
         NEW k \in Nat, Bounded("again", n, r, t, b, k), c >= b, b = 0 => c = 0
  PROVE  Bounded("fill", n, r, Short(t + 1), c, k)
  BY DEF Bounded, Short

------------------------------------------------------------------------

LEMMA ShortIs ==
  ASSUME NEW t \in Nat
  PROVE  Short(t) \in 0 .. 4
  BY DEF Short

\* Before the first transfer, and between two.
LEMMA SspInit == AllInit => SspInv
  <1> SUFFICES ASSUME S!Init PROVE SspInv
    BY DEF AllInit
  <1>1. /\ ssp = [on |-> FALSE, mutex |-> FALSE, tx |-> <<>>, rx |-> <<>>, overrun |-> FALSE]
        /\ xfer = [pc |-> "off", width |-> "bytes", size |-> 0, count |-> 0, in |-> <<>>]
        /\ lag = [turns |-> 0, left |-> 0, stall |-> 0]
    BY DEF S!Init, S!NoTransfer
  <1>2. Depth \in Nat
    BY PartAssumptions DEF S!SspAssumption
  <1> QED BY <1>1, <1>2 DEF SspInv, SspShape, InOrder, InTime, Kept, Loops

LEMMA RestKeeps ==
  ASSUME SspShape', Kept', xfer'.pc \notin Loops
  PROVE  SspInv'
  BY DEF SspInv, InOrder, InTime

LEMMA IdleKeeps ==
  ASSUME SspInv,
         \/ S!ssp_master_on \/ S!ssp_off \/ S!spi_get_mutex \/ S!spi_release_mutex
         \/ S!spi_transfer_single_frame
  PROVE  SspInv'
  <1>1. SspShape
    BY DEF SspInv
  <1>2. xfer.pc \notin Loops /\ ssp.tx = <<>> /\ ssp.rx = <<>>
    BY <1>1 DEF SspShape, Loops, S!ssp_master_on, S!ssp_off, S!spi_get_mutex, S!spi_release_mutex,
                S!spi_transfer_single_frame
  <1> Depth \in Nat
    BY PartAssumptions DEF S!SspAssumption
  <1>3. CASE S!ssp_master_on \/ S!ssp_off \/ S!spi_get_mutex \/ S!spi_release_mutex
    <2>1. PICK up \in BOOLEAN, held \in BOOLEAN :
            \/ ssp' = [ssp EXCEPT !.on = up] \/ ssp' = [ssp EXCEPT !.on = up, !.mutex = held]
            \/ ssp' = [ssp EXCEPT !.mutex = held]
      BY <1>3, Zenon DEF S!ssp_master_on, S!ssp_off, S!spi_get_mutex, S!spi_release_mutex
    <2>2. /\ ssp' \in [on : BOOLEAN, mutex : BOOLEAN, tx : Seq(Nat), rx : Seq(Nat), overrun : BOOLEAN]
          /\ ssp'.tx = <<>> /\ ssp'.rx = <<>> /\ ssp'.overrun = ssp.overrun
      BY <1>1, <1>2, <2>1 DEF SspShape
    <2>3. UNCHANGED lag
      BY <1>3 DEF S!ssp_master_on, S!ssp_off, S!spi_get_mutex, S!spi_release_mutex
    <2>4. \/ UNCHANGED xfer
          \/ \E pc \in {"off", "idle"} :
               xfer' = [pc |-> pc, width |-> "bytes", size |-> 0, count |-> 0, in |-> <<>>]
      BY <1>3 DEF S!ssp_master_on, S!ssp_off, S!spi_get_mutex, S!spi_release_mutex, S!NoTransfer
    <2>5. CASE UNCHANGED xfer
      BY <1>1, <1>2, <2>2, <2>3, <2>5 DEF SspInv, SspShape, InOrder, InTime, Kept
    <2>6. CASE \E pc \in {"off", "idle"} :
                 xfer' = [pc |-> pc, width |-> "bytes", size |-> 0, count |-> 0, in |-> <<>>]
      <3>1. /\ xfer' \in [pc : {"off", "idle"} \cup Loops, width : {"bytes", "words"}, size : Nat,
                          count : Nat, in : Seq(Nat)]
            /\ xfer'.pc \notin Loops /\ Len(xfer'.in) = 0 /\ xfer'.size = 0
        BY <2>6 DEF Loops
      <3>2. SspShape'
        BY <1>1, <2>2, <2>3, <3>1 DEF SspShape
      <3>3. Kept'
        BY <1>2, <2>2, <2>3, <3>1 DEF SspInv, Kept
      <3> QED BY <3>1, <3>2, <3>3, RestKeeps
    <2> QED BY <2>4, <2>5, <2>6
  <1>4. CASE S!spi_transfer_single_frame
    <2>1. /\ xfer' = [xfer EXCEPT !.size = 1, !.count = 1, !.in = <<1>>]
          /\ lag' = [lag EXCEPT !.stall = 0] /\ ssp' = [ssp EXCEPT !.overrun = FALSE]
      BY <1>4 DEF S!spi_transfer_single_frame
    <2>2. /\ ssp' \in [on : BOOLEAN, mutex : BOOLEAN, tx : Seq(Nat), rx : Seq(Nat), overrun : BOOLEAN]
          /\ ssp'.tx = <<>> /\ ssp'.rx = <<>> /\ ssp'.overrun = FALSE
      BY <1>1, <1>2, <2>1 DEF SspShape
    <2>3. lag' \in [turns : Nat, left : Nat, stall : Nat]
      BY <1>1, <2>1 DEF SspShape
    <2>4. <<1>> \in Seq(Nat) /\ Len(<<1>>) = 1 /\ <<1>>[1] = 1
      OBVIOUS
    <2>5. /\ xfer' \in [pc : {"off", "idle"} \cup Loops, width : {"bytes", "words"}, size : Nat,
                        count : Nat, in : Seq(Nat)]
          /\ xfer'.pc \notin Loops /\ Len(xfer'.in) = 1 /\ xfer'.size = 1 /\ xfer'.in[1] = 1
      BY <1>1, <1>2, <2>1, <2>4 DEF SspShape
    <2>6. SspShape'
      BY <1>1, <2>2, <2>3, <2>5 DEF SspShape
    <2>7. Kept'
      BY <2>2, <2>5 DEF Kept
    <2> QED BY <2>5, <2>6, <2>7, RestKeeps
  <1> QED BY <1>3, <1>4

LEMMA StartKeeps ==
  ASSUME SspInv, S!spi_transfer_multiple_frames
  PROVE  SspInv'
  <1>1. SspShape /\ ssp.tx = <<>> /\ ssp.rx = <<>>
    BY DEF SspInv, SspShape, Loops, S!spi_transfer_multiple_frames
  <1>2. PICK size \in 1 .. MaxSize, width \in {"bytes", "words"}, n \in Stalls :
          /\ xfer' = [pc |-> "fill", width |-> width, size |-> size, count |-> 0, in |-> <<>>]
          /\ lag' = [turns |-> 0, left |-> n, stall |-> n] /\ ssp' = [ssp EXCEPT !.overrun = FALSE]
    BY DEF S!spi_transfer_multiple_frames
  <1>3. size \in Nat /\ size >= 1 /\ n \in Nat
    BY PartAssumptions DEF S!SspAssumption
  <1>4. /\ ssp' \in [on : BOOLEAN, mutex : BOOLEAN, tx : Seq(Nat), rx : Seq(Nat), overrun : BOOLEAN]
        /\ ssp'.tx = <<>> /\ ssp'.rx = <<>> /\ ssp'.overrun = FALSE
    BY <1>1, <1>2 DEF SspShape
  <1>5. /\ xfer' \in [pc : {"off", "idle"} \cup Loops, width : {"bytes", "words"}, size : Nat,
                      count : Nat, in : Seq(Nat)]
        /\ xfer'.pc = "fill" /\ xfer'.in = <<>> /\ xfer'.count = 0 /\ xfer'.size = size
    BY <1>2, <1>3 DEF Loops
  <1>6. lag' \in [turns : Nat, left : Nat, stall : Nat] /\ lag'.turns = 0 /\ lag'.left = n /\ lag'.stall = n
    BY <1>2, <1>3
  <1>7. Bounded("fill", 0, 0, 0, 0, size)
    BY <1>3 DEF Bounded
  <1>8. Bounded(xfer'.pc, Len(ssp'.tx), Len(ssp'.rx), Short(lag'.turns), lag'.stall - lag'.left,
                xfer'.size - xfer'.count)
    <2>1. /\ Len(ssp'.tx) = 0 /\ Len(ssp'.rx) = 0 /\ Short(lag'.turns) = 0
          /\ lag'.stall - lag'.left = 0 /\ xfer'.size - xfer'.count = size
      BY <1>3, <1>4, <1>5, <1>6 DEF Short
    <2> QED BY <1>5, <1>7, <2>1
  <1>9. SspShape' /\ InOrder' /\ Kept'
    BY <1>1, <1>3, <1>4, <1>5, <1>6 DEF SspShape, InOrder, Kept, Loops
  <1>10. InTime'
    BY <1>4, <1>8 DEF InTime
  <1> QED BY <1>9, <1>10 DEF SspInv

------------------------------------------------------------------------

LEMMA LenIs ==
  ASSUME NEW q \in Seq(Nat), Len(q) <= 8
  PROVE  Len(q) \in 0 .. 8
  <1> DEFINE n == Len(q)
  <1>1. n \in Nat /\ n <= 8
    OBVIOUS
  <1> HIDE DEF n
  <1>2. n \in 0 .. 8
    BY <1>1
  <1> QED BY <1>2 DEF n

\* What a transfer in time is at.
LEMMA InTimeIs ==
  ASSUME SspInv, Depth = 8, xfer.pc \in Loops, lag.stall <= 4
  PROVE  /\ Len(ssp.tx) \in 0 .. 8 /\ Len(ssp.rx) \in 0 .. 8 /\ Short(lag.turns) \in 0 .. 4
         /\ lag.stall - lag.left \in 0 .. 4
         /\ xfer.size - xfer.count \in Nat
  <1>1. /\ ssp.tx \in Seq(Nat) /\ ssp.rx \in Seq(Nat) /\ Len(ssp.tx) <= 8 /\ Len(ssp.rx) <= 8
        /\ lag.turns \in Nat /\ lag.left \in Nat /\ lag.stall \in Nat /\ lag.left <= lag.stall
        /\ xfer.size \in Nat /\ xfer.count \in Nat /\ xfer.count <= xfer.size
    BY DEF SspInv, SspShape
  <1>2. Short(lag.turns) \in 0 .. 4
    BY <1>1, ShortIs
  <1>3. Len(ssp.tx) \in 0 .. 8 /\ Len(ssp.rx) \in 0 .. 8
    BY <1>1, LenIs
  <1>4. lag.stall - lag.left \in 0 .. 4
    BY SMTT(30), <1>1
  <1>5. xfer.size - xfer.count \in Nat
    BY <1>1
  <1> QED BY <1>2, <1>3, <1>4, <1>5

\* One turn.
LEMMA TurnIs ==
  ASSUME SspShape, xfer.pc \in Loops, S!Turn
  PROVE  /\ lag' \in [turns : Nat, left : Nat, stall : Nat]
         /\ lag'.stall = lag.stall /\ lag'.left <= lag.left
         /\ lag.stall - lag.left = 0 => lag'.stall - lag'.left = 0
         /\ Pace >= 4 => Short(lag'.turns) = Short(Short(lag.turns) + 1)
  <1> DEFINE turns == IF lag.turns < Pace THEN lag.turns + 1 ELSE lag.turns
             left == IF lag.left < lag.stall THEN 0 ELSE lag.left
  <1>1. lag' = [lag EXCEPT !.turns = turns, !.left = left]
    BY DEF S!Turn
  <1>2. /\ lag \in [turns : Nat, left : Nat, stall : Nat] /\ lag.left <= lag.stall
        /\ lag.turns \in Nat /\ lag.left \in Nat /\ lag.stall \in Nat
    BY DEF SspShape
  <1>3. Pace \in Nat
    BY PartAssumptions DEF S!SspAssumption
  <1>4. turns \in Nat /\ left \in Nat /\ left <= lag.left /\ (lag.left = lag.stall => left = lag.left)
    BY <1>2, <1>3
  <1>5. Pace >= 4 => Short(turns) = Short(Short(lag.turns) + 1)
    BY <1>2, <1>3 DEF Short
  <1> HIDE DEF turns, left
  <1>6. lag' \in [turns : Nat, left : Nat, stall : Nat] /\ lag'.turns = turns /\ lag'.left = left
        /\ lag'.stall = lag.stall
    BY <1>1, <1>2, <1>4
  <1> QED BY <1>2, <1>4, <1>5, <1>6

LEMMA ShiftKeeps ==
  ASSUME SspInv, Depth = 8, S!Shift
  PROVE  SspInv'
  <1> DEFINE tx == ssp.tx
             rx == ssp.rx
             n == Len(tx)
             r == Len(rx)
  <1>1. SspShape
    BY DEF SspInv
  <1>2. /\ xfer.pc \in Loops /\ n >= 1 /\ tx \in Seq(Nat) /\ rx \in Seq(Nat) /\ r <= 8 /\ n <= 8
        /\ tx # <<>> /\ n \in Nat /\ r \in Nat
    BY <1>1 DEF SspShape, S!Shift
  <1>3. /\ lag' \in [turns : Nat, left : Nat, stall : Nat] /\ lag'.turns = 0
        /\ lag'.stall = lag.stall /\ lag'.left <= lag.left
        /\ (lag.turns = Pace /\ lag'.left = lag.left) \/ lag'.left = lag.left - 1
    <2>1. lag \in [turns : Nat, left : Nat, stall : Nat]
      BY <1>1 DEF SspShape
    <2>2. CASE lag.turns = Pace /\ lag' = [lag EXCEPT !.turns = 0]
      BY <2>1, <2>2
    <2>3. CASE lag.left > 0 /\ lag' = [lag EXCEPT !.left = @ - 1, !.turns = 0]
      <3> DEFINE left == lag.left - 1
      <3>1. left \in Nat /\ left <= lag.left
        BY <2>1, <2>3
      <3>2. lag' = [lag EXCEPT !.left = left, !.turns = 0]
        BY <2>3
      <3>3. lag' \in [turns : Nat, left : Nat, stall : Nat] /\ lag'.turns = 0
            /\ lag'.stall = lag.stall /\ lag'.left = left
        <4> HIDE DEF left
        <4> QED BY <2>1, <3>1, <3>2
      <3> QED BY <3>1, <3>3
    <2> QED BY <2>2, <2>3 DEF S!Shift
  <1>5. UNCHANGED xfer
    BY DEF S!Shift
  <1> DEFINE pc == xfer.pc
             t == Short(lag.turns)
             b == lag.stall - lag.left
             k == xfer.size - xfer.count
  <1>6. Tail(tx) \in Seq(Nat) /\ Len(Tail(tx)) = n - 1 /\ Head(tx) \in Nat /\ Head(tx) = tx[1]
        /\ \A i \in 1 .. n - 1 : Tail(tx)[i] = tx[i + 1]
    BY <1>2
  <1>7. ASSUME Pace >= 4, lag.stall <= 4
        PROVE  /\ ~ssp.overrun /\ r < 8
               /\ Bounded(pc, n - 1, r + 1, 0, lag.stall - lag'.left, k)
    <2>1. ~ssp.overrun /\ Bounded(pc, n, r, t, b, k)
      BY <1>2, <1>7 DEF SspInv, InTime
    <2>2. n \in 0 .. 8 /\ r \in 0 .. 8 /\ t \in 0 .. 4 /\ b \in 0 .. 4 /\ k \in Nat
      BY <1>2, <1>7, InTimeIs
    <2>3. n \in 1 .. 8
      <3> HIDE DEF n
      <3> QED BY <1>2, <2>2
    <2> DEFINE c == lag.stall - lag'.left
    <2>4. /\ lag.turns \in Nat /\ lag.left \in Nat /\ lag.stall \in Nat /\ lag.left <= lag.stall
          /\ lag'.left \in Nat
      BY <1>1, <1>2, <1>3 DEF SspShape
    <2>5. c \in 0 .. 4 /\ ((t = 4 /\ c = b) \/ c = b + 1)
      <3>1. lag.turns = Pace => t = 4
        BY <1>7, <2>4 DEF Short
      <3> HIDE DEF t
      <3> QED BY <1>3, <1>7, <2>4, <3>1
    <2> HIDE DEF n, r, t, b, k, c, pc
    <2>6. r < 8 /\ Bounded(pc, n - 1, r + 1, 0, c, k)
      BY <1>2, <2>1, <2>2, <2>3, <2>5, ShiftBounded DEF pc
    <2> QED BY <2>1, <2>6 DEF c
  <1>8. CASE r = 8
    <2>1. ssp' = [ssp EXCEPT !.tx = Tail(tx), !.rx = rx, !.overrun = TRUE]
      BY <1>1, <1>8 DEF S!Shift, S!RxFull, SspShape
    <2>3. /\ ssp' \in [on : BOOLEAN, mutex : BOOLEAN, tx : Seq(Nat), rx : Seq(Nat), overrun : BOOLEAN]
          /\ ssp'.overrun = TRUE /\ ssp'.rx = rx /\ ssp'.tx = Tail(tx)
      BY <1>1, <1>6, <2>1 DEF SspShape
    <2>4. SspShape'
      BY SMTT(30), <1>1, <1>2, <1>3, <1>5, <1>6, <2>3 DEF SspShape
    <2>5. InOrder'
      BY <2>3 DEF InOrder
    <2>6. ~ (Pace >= 4 /\ lag.stall <= 4)
      BY <1>7, <1>8
    <2>7. InTime' /\ Kept'
      BY <1>3, <2>6 DEF InTime, Kept
    <2> QED BY <2>4, <2>5, <2>7 DEF SspInv
  <1>9. CASE r # 8
    <2> DEFINE longer == Append(rx, Head(tx))
    <2>1. ssp' = [ssp EXCEPT !.tx = Tail(tx), !.rx = longer]
      BY <1>1, <1>9 DEF S!Shift, S!RxFull, SspShape
    <2>2. longer \in Seq(Nat) /\ Len(longer) = r + 1 /\ longer[r + 1] = tx[1]
          /\ \A i \in 1 .. r : longer[i] = rx[i]
      BY <1>2, <1>6
    <2> HIDE DEF longer
    <2>3. /\ ssp' \in [on : BOOLEAN, mutex : BOOLEAN, tx : Seq(Nat), rx : Seq(Nat), overrun : BOOLEAN]
          /\ ssp'.overrun = ssp.overrun /\ ssp'.rx = longer /\ ssp'.tx = Tail(tx)
      BY <1>1, <1>6, <2>1, <2>2 DEF SspShape
    <2>4. SspShape'
      <3>1. Len(ssp'.tx) <= Depth /\ Len(ssp'.rx) <= Depth
        <4> HIDE DEF n, r
        <4>1. n - 1 <= Depth /\ r + 1 <= Depth
          BY <1>2, <1>9
        <4> QED BY <1>6, <2>2, <2>3, <4>1
      <3> QED BY <1>1, <1>2, <1>3, <1>5, <2>3, <3>1 DEF SspShape
    <2>5. InOrder'
      <3> DEFINE m == Len(xfer.in)
      <3> SUFFICES ASSUME ~ssp.overrun
                   PROVE  /\ xfer.count = m + (r + 1) + (n - 1)
                          /\ \A i \in 1 .. m : xfer.in[i] = i
                          /\ \A i \in 1 .. r + 1 : longer[i] = m + i
                          /\ \A i \in 1 .. n - 1 : Tail(tx)[i] = m + (r + 1) + i
        BY <1>2, <1>5, <1>6, <2>2, <2>3 DEF InOrder
      <3>1. /\ xfer.count = m + r + n
            /\ \A i \in 1 .. m : xfer.in[i] = i
            /\ \A i \in 1 .. r : rx[i] = m + i
            /\ \A i \in 1 .. n : tx[i] = m + r + i
        BY <1>2 DEF SspInv, InOrder
      <3>2. m \in Nat
        BY <1>1 DEF SspShape
      <3> HIDE DEF m, n, r
      <3>3. ASSUME NEW i \in 1 .. r + 1 PROVE longer[i] = m + i
        <4>1. tx[1] = m + r + 1
          BY <1>2, <3>1
        <4>2. i = r + 1 \/ i \in 1 .. r
          BY <1>2
        <4> QED BY <1>2, <2>2, <3>1, <3>2, <4>1, <4>2
      <3>4. ASSUME NEW i \in 1 .. n - 1 PROVE Tail(tx)[i] = m + (r + 1) + i
        <4>1. i + 1 \in 1 .. n
          BY <1>2
        <4>2. tx[i + 1] = m + r + (i + 1) /\ Tail(tx)[i] = tx[i + 1]
          BY <1>6, <3>1, <4>1
        <4>3. i \in Nat /\ r \in Nat
          BY <1>2
        <4>4. m + r + (i + 1) = m + (r + 1) + i
          BY <3>2, <4>3
        <4> QED BY <4>2, <4>4
      <3>5. m + r + n = m + (r + 1) + (n - 1)
        BY <1>2, <3>2
      <3> QED BY <3>1, <3>3, <3>4, <3>5
    <2>6. InTime'
      <3> SUFFICES ASSUME Pace >= 4, lag.stall <= 4
                   PROVE  /\ ~ssp'.overrun
                          /\ Bounded(pc, Len(ssp'.tx), Len(ssp'.rx), Short(lag'.turns),
                                     lag.stall - lag'.left, k)
        BY <1>3, <1>5 DEF InTime
      <3>1. Short(lag'.turns) = 0 /\ Len(ssp'.tx) = n - 1 /\ Len(ssp'.rx) = r + 1
        BY <1>3, <1>6, <2>2, <2>3 DEF Short
      <3> HIDE DEF n, r, k, pc
      <3> QED BY <1>7, <2>3, <3>1
    <2>7. Kept'
      BY <1>2, <1>5 DEF Kept
    <2> QED BY <2>4, <2>5, <2>6, <2>7 DEF SspInv
  <1> QED BY <1>8, <1>9

\* One turn of the loop that fills the transmit FIFO.
LEMMA FillKeeps ==
  ASSUME SspInv, Depth = 8, S!Fill
  PROVE  SspInv'
  <1> DEFINE tx == ssp.tx
             rx == ssp.rx
             n == Len(tx)
             r == Len(rx)
             pc == xfer.pc
             t == Short(lag.turns)
             b == lag.stall - lag.left
             c == lag'.stall - lag'.left
             k == xfer.size - xfer.count
  <1>1. SspShape /\ pc = "fill" /\ pc \in Loops /\ S!Turn
    BY DEF SspInv, S!Fill, Loops
  <1>2. /\ tx \in Seq(Nat) /\ rx \in Seq(Nat) /\ n \in Nat /\ r \in Nat /\ n <= 8 /\ r <= 8
        /\ xfer.size \in Nat /\ xfer.count \in Nat /\ xfer.count <= xfer.size /\ k \in Nat
    BY <1>1 DEF SspShape
  <1>3. /\ lag' \in [turns : Nat, left : Nat, stall : Nat]
        /\ lag'.stall = lag.stall /\ lag'.left <= lag.left /\ (b = 0 => c = 0)
        /\ Pace >= 4 => Short(lag'.turns) = Short(t + 1)
    BY <1>1, TurnIs
  <1>4. lag'.left <= lag'.stall
    BY <1>1, <1>3 DEF SspShape
  <1>5. ASSUME lag.stall <= 4
        PROVE  /\ n \in 0 .. 8 /\ r \in 0 .. 8 /\ t \in 0 .. 4 /\ b \in 0 .. 4 /\ c \in 0 .. 4 /\ c >= b
    <2>1. n \in 0 .. 8 /\ r \in 0 .. 8 /\ t \in 0 .. 4 /\ b \in 0 .. 4
      BY <1>1, <1>5, InTimeIs
    <2>2. lag.left \in Nat /\ lag.stall \in Nat /\ lag'.left \in Nat
      BY <1>1, <1>3 DEF SspShape
    <2>3. c \in 0 .. 4 /\ c >= b
      BY <1>3, <1>4, <1>5, <2>2
    <2> QED BY <2>1, <2>3
  <1>6. ASSUME Pace >= 4, lag.stall <= 4
        PROVE  ~ssp.overrun /\ Bounded("fill", n, r, t, b, k)
    BY <1>1, <1>6 DEF SspInv, InTime
  <1>7. CASE S!CanFill
    <2> DEFINE longer == Append(tx, xfer.count + 1)
    <2>1. /\ ssp' = [ssp EXCEPT !.tx = longer] /\ xfer' = [xfer EXCEPT !.count = @ + 1]
      BY <1>7 DEF S!Fill
    <2>2. k # 0 /\ n < 8 /\ r < 8 /\ xfer.count < xfer.size
      <3>1. xfer.count < xfer.size /\ n < 8 /\ r # 8
        BY <1>7 DEF S!CanFill, S!More, S!TxNotFull, S!RxFull
      <3>2. k # 0
        BY <1>2, <3>1
      <3> HIDE DEF n, r, k
      <3> QED BY <1>2, <3>1, <3>2
    <2>3. longer \in Seq(Nat) /\ Len(longer) = n + 1 /\ longer[n + 1] = xfer.count + 1
          /\ \A i \in 1 .. n : longer[i] = tx[i]
      BY SMTT(30), <1>2
    <2> HIDE DEF longer
    <2>4. /\ ssp' \in [on : BOOLEAN, mutex : BOOLEAN, tx : Seq(Nat), rx : Seq(Nat), overrun : BOOLEAN]
          /\ ssp'.overrun = ssp.overrun /\ ssp'.rx = rx /\ ssp'.tx = longer
      BY <1>1, <2>1, <2>3 DEF SspShape
    <2>5. /\ xfer' \in [pc : {"off", "idle"} \cup Loops, width : {"bytes", "words"}, size : Nat,
                         count : Nat, in : Seq(Nat)]
          /\ xfer'.pc = "fill" /\ xfer'.in = xfer.in /\ xfer'.size = xfer.size
          /\ xfer'.count = xfer.count + 1
      <3> DEFINE one == xfer.count + 1
      <3>1. one \in Nat /\ xfer' = [xfer EXCEPT !.count = one]
        BY <1>2, <2>1
      <3> HIDE DEF one
      <3>2. /\ xfer' \in [pc : {"off", "idle"} \cup Loops, width : {"bytes", "words"}, size : Nat,
                           count : Nat, in : Seq(Nat)]
            /\ xfer'.pc = "fill" /\ xfer'.in = xfer.in /\ xfer'.size = xfer.size /\ xfer'.count = one
        BY <1>1, <3>1 DEF SspShape
      <3> QED BY <3>2 DEF one
    <2>6. SspShape'
      <3>1. Len(ssp'.tx) <= Depth /\ Len(ssp'.rx) <= Depth
        <4> HIDE DEF n, r
        <4>1. n + 1 <= Depth /\ r <= Depth
          BY <1>2, <2>2
        <4> QED BY <2>3, <2>4, <4>1 DEF r
      <3> QED BY SMTT(30), <1>1, <1>2, <1>3, <1>4, <2>2, <2>4, <2>5, <3>1 DEF SspShape
    <2>7. InOrder'
      <3> DEFINE m == Len(xfer.in)
      <3> SUFFICES ASSUME ~ssp.overrun
                   PROVE  /\ xfer.count + 1 = m + r + (n + 1)
                          /\ \A i \in 1 .. m : xfer.in[i] = i
                          /\ \A i \in 1 .. r : rx[i] = m + i
                          /\ \A i \in 1 .. n + 1 : longer[i] = m + r + i
        BY <2>3, <2>4, <2>5 DEF InOrder
      <3>1. /\ xfer.count = m + r + n
            /\ \A i \in 1 .. m : xfer.in[i] = i
            /\ \A i \in 1 .. r : rx[i] = m + i
            /\ \A i \in 1 .. n : tx[i] = m + r + i
        BY <1>1 DEF SspInv, InOrder
      <3>2. m \in Nat
        BY <1>1 DEF SspShape
      <3> HIDE DEF m, n, r
      <3>3. xfer.count + 1 = m + r + (n + 1)
        BY <1>2, <3>1, <3>2
      <3>4. ASSUME NEW i \in 1 .. n + 1 PROVE longer[i] = m + r + i
        <4>1. i = n + 1 \/ i \in 1 .. n
          BY <1>2
        <4> QED BY <2>3, <3>1, <3>3, <4>1
      <3> QED BY <3>1, <3>3, <3>4
    <2>8. InTime'
      <3> SUFFICES ASSUME Pace >= 4, lag.stall <= 4
                   PROVE  /\ ~ssp'.overrun
                          /\ Bounded("fill", Len(ssp'.tx), Len(ssp'.rx), Short(lag'.turns), c,
                                     xfer'.size - xfer'.count)
        BY <1>3, <2>5 DEF InTime
      <3> DEFINE left == xfer'.size - xfer'.count
      <3>1. left \in Nat /\ k = left + 1
        BY SMTT(30), <1>2, <2>2, <2>5
      <3>2. Bounded("fill", n + 1, r, Short(t + 1), c, left)
        <4>1. n \in 0 .. 7 /\ r \in 0 .. 7
          <5> HIDE DEF n, r
          <5> QED BY <1>2, <2>2
        <4>2. Bounded("fill", n, r, t, b, left + 1)
          BY <1>6, <3>1
        <4> HIDE DEF n, r, t, b, c, left
        <4> QED BY <1>3, <1>5, <3>1, <4>1, <4>2, FillBounded
      <3>3. Short(lag'.turns) = Short(t + 1) /\ Len(ssp'.tx) = n + 1 /\ Len(ssp'.rx) = r
        BY <1>3, <2>3, <2>4
      <3> HIDE DEF n, r, t, c, left
      <3> QED BY <1>6, <2>4, <3>2, <3>3 DEF left
    <2>9. Kept'
      BY <2>5 DEF Kept, Loops
    <2> QED BY <2>6, <2>7, <2>8, <2>9 DEF SspInv
  <1>8. CASE ~S!CanFill
    <2>1. UNCHANGED ssp /\ xfer' = [xfer EXCEPT !.pc = "drain"]
      BY <1>8 DEF S!Fill
    <2>2. /\ xfer' \in [pc : {"off", "idle"} \cup Loops, width : {"bytes", "words"}, size : Nat,
                         count : Nat, in : Seq(Nat)]
          /\ xfer'.pc = "drain" /\ xfer'.in = xfer.in /\ xfer'.size = xfer.size
          /\ xfer'.count = xfer.count
      BY <1>1, <2>1 DEF SspShape, Loops
    <2>3. SspShape'
      BY <1>1, <1>2, <1>3, <1>4, <2>1, <2>2 DEF SspShape, Loops
    <2>4. InOrder'
      BY <1>1, <2>1, <2>2 DEF SspInv, InOrder
    <2>5. InTime'
      <3> SUFFICES ASSUME Pace >= 4, lag.stall <= 4
                   PROVE  ~ssp.overrun /\ Bounded("drain", n, r, Short(lag'.turns), c, k)
        BY <1>3, <2>1, <2>2 DEF InTime
      <3>1. ASSUME k # 0, n < 8, r < 8 PROVE FALSE
        <4>1. xfer.count < xfer.size
          BY <1>2, <3>1
        <4>2. n < Depth /\ r # Depth
          <5> HIDE DEF n, r
          <5> QED BY SMTT(30), <1>2, <3>1
        <4> QED BY <1>8, <4>1, <4>2 DEF S!CanFill, S!More, S!TxNotFull, S!RxFull
      <3> HIDE DEF n, r, t, b, c, k
      <3>2. Bounded("drain", n, r, Short(t + 1), c, k)
        BY <1>2, <1>3, <1>5, <1>6, <3>1, FillEndBounded
      <3> QED BY <1>3, <1>6, <3>2
    <2>6. Kept'
      BY <2>2 DEF Kept, Loops
    <2> QED BY <2>3, <2>4, <2>5, <2>6 DEF SspInv
  <1> QED BY <1>7, <1>8

\* One turn of the loop that empties the receive FIFO.
LEMMA DrainKeeps ==
  ASSUME SspInv, Depth = 8, S!Drain
  PROVE  SspInv'
  <1> DEFINE tx == ssp.tx
             rx == ssp.rx
             n == Len(tx)
             r == Len(rx)
             pc == xfer.pc
             t == Short(lag.turns)
             b == lag.stall - lag.left
             c == lag'.stall - lag'.left
             k == xfer.size - xfer.count
             m == Len(xfer.in)
  <1>1. SspShape /\ pc = "drain" /\ pc \in Loops /\ S!Turn
    BY DEF SspInv, S!Drain, Loops
  <1>2. /\ tx \in Seq(Nat) /\ rx \in Seq(Nat) /\ n \in Nat /\ r \in Nat /\ n <= 8 /\ r <= 8
        /\ xfer.size \in Nat /\ xfer.count \in Nat /\ xfer.count <= xfer.size /\ k \in Nat
        /\ xfer.in \in Seq(Nat) /\ m \in Nat
    BY <1>1 DEF SspShape
  <1>3. /\ lag' \in [turns : Nat, left : Nat, stall : Nat]
        /\ lag'.stall = lag.stall /\ lag'.left <= lag.left /\ (b = 0 => c = 0)
        /\ Pace >= 4 => Short(lag'.turns) = Short(t + 1)
    BY <1>1, TurnIs
  <1>4. lag'.left <= lag'.stall
    BY <1>1, <1>3 DEF SspShape
  <1>5. ASSUME lag.stall <= 4
        PROVE  /\ n \in 0 .. 8 /\ r \in 0 .. 8 /\ t \in 0 .. 4 /\ b \in 0 .. 4 /\ c \in 0 .. 4 /\ c >= b
    <2>1. n \in 0 .. 8 /\ r \in 0 .. 8 /\ t \in 0 .. 4 /\ b \in 0 .. 4
      BY <1>1, <1>5, InTimeIs
    <2>2. lag.left \in Nat /\ lag.stall \in Nat /\ lag'.left \in Nat
      BY <1>1, <1>3 DEF SspShape
    <2>3. c \in 0 .. 4 /\ c >= b
      BY <1>3, <1>4, <1>5, <2>2
    <2> QED BY <2>1, <2>3
  <1>6. ASSUME Pace >= 4, lag.stall <= 4
        PROVE  ~ssp.overrun /\ Bounded("drain", n, r, t, b, k)
    BY <1>1, <1>6 DEF SspInv, InTime
  <1>7. xfer.count < xfer.size <=> k # 0
    BY <1>2
  <1>8. Depth \div 2 = 4
    OBVIOUS
  <1>9. CASE S!CanDrain
    <2> DEFINE longer == Append(xfer.in, Head(rx))
    <2>1. /\ xfer' = [xfer EXCEPT !.in = longer] /\ ssp' = [ssp EXCEPT !.rx = Tail(rx)]
      BY <1>9 DEF S!Drain
    <2>2. r >= 1 /\ (~ (k # 0 /\ n <= 4) \/ r = 8)
      <3>1. rx # <<>> \/ r = Depth
        BY <1>9 DEF S!CanDrain, S!DrainBytes, S!DrainWords, S!RxFull, S!RxNotEmpty
      <3>2. r >= 1
        <4>1. rx # <<>> => r >= 1
          BY <1>2
        <4> HIDE DEF r
        <4> QED BY <1>2, <3>1, <4>1
      <3>3. ~ (xfer.count < xfer.size /\ n <= 4) \/ r = 8
        BY <1>8, <1>9 DEF S!CanDrain, S!DrainBytes, S!DrainWords, S!RxFull, S!More, S!TxHalfEmpty
      <3> QED BY <1>7, <3>2, <3>3
    <2>3. /\ longer \in Seq(Nat) /\ Len(longer) = m + 1 /\ longer[m + 1] = rx[1]
          /\ \A i \in 1 .. m : longer[i] = xfer.in[i]
      <3>1. Head(rx) \in Nat /\ Head(rx) = rx[1]
        BY SMTT(30), <1>2, <2>2
      <3> QED BY <1>2, <3>1
    <2>4. /\ Tail(rx) \in Seq(Nat) /\ Len(Tail(rx)) = r - 1
          /\ \A i \in 1 .. r - 1 : Tail(rx)[i] = rx[i + 1]
      BY <1>2, <2>2
    <2> HIDE DEF longer
    <2>5. /\ ssp' \in [on : BOOLEAN, mutex : BOOLEAN, tx : Seq(Nat), rx : Seq(Nat), overrun : BOOLEAN]
          /\ ssp'.overrun = ssp.overrun /\ ssp'.rx = Tail(rx) /\ ssp'.tx = tx
      BY <1>1, <2>1, <2>4 DEF SspShape
    <2>6. /\ xfer' \in [pc : {"off", "idle"} \cup Loops, width : {"bytes", "words"}, size : Nat,
                         count : Nat, in : Seq(Nat)]
          /\ xfer'.pc = "drain" /\ xfer'.in = longer /\ xfer'.size = xfer.size
          /\ xfer'.count = xfer.count
      BY <1>1, <2>1, <2>3 DEF SspShape
    <2>7. SspShape'
      <3>1. Len(ssp'.tx) <= Depth /\ Len(ssp'.rx) <= Depth
        <4> HIDE DEF n, r
        <4>1. n <= Depth /\ r - 1 <= Depth
          BY <1>2, <2>2
        <4> QED BY <2>4, <2>5, <4>1 DEF n
      <3> QED BY <1>1, <1>2, <1>3, <1>4, <2>5, <2>6, <3>1 DEF SspShape
    <2>8. InOrder'
      <3> SUFFICES ASSUME ~ssp.overrun
                   PROVE  /\ xfer.count = (m + 1) + (r - 1) + n
                          /\ \A i \in 1 .. m + 1 : longer[i] = i
                          /\ \A i \in 1 .. r - 1 : Tail(rx)[i] = (m + 1) + i
                          /\ \A i \in 1 .. n : tx[i] = (m + 1) + (r - 1) + i
        <4>1. /\ Len(xfer'.in) = m + 1 /\ Len(ssp'.rx) = r - 1 /\ Len(ssp'.tx) = n
              /\ xfer'.in = longer /\ ssp'.rx = Tail(rx) /\ ssp'.tx = tx
              /\ xfer'.count = xfer.count /\ ssp'.overrun = ssp.overrun
          BY <2>3, <2>4, <2>5, <2>6
        <4> HIDE DEF m, n, r
        <4> QED BY <4>1 DEF InOrder
      <3>1. /\ xfer.count = m + r + n
            /\ \A i \in 1 .. m : xfer.in[i] = i
            /\ \A i \in 1 .. r : rx[i] = m + i
            /\ \A i \in 1 .. n : tx[i] = m + r + i
        BY <1>1 DEF SspInv, InOrder
      <3> HIDE DEF m, n, r
      <3>2. m + r + n = (m + 1) + (r - 1) + n /\ m + r = (m + 1) + (r - 1)
        BY <1>2
      <3>3. ASSUME NEW i \in 1 .. m + 1 PROVE longer[i] = i
        <4>1. i = m + 1 \/ i \in 1 .. m
          BY <1>2
        <4>2. rx[1] = m + 1
          BY <1>2, <2>2, <3>1
        <4> QED BY <2>3, <3>1, <4>1, <4>2
      <3>4. ASSUME NEW i \in 1 .. r - 1 PROVE Tail(rx)[i] = (m + 1) + i
        <4>1. i + 1 \in 1 .. r /\ i \in Nat
          BY <1>2
        <4>2. rx[i + 1] = m + (i + 1) /\ Tail(rx)[i] = rx[i + 1]
          BY <2>4, <3>1, <4>1
        <4>3. m + (i + 1) = (m + 1) + i
          BY <1>2, <4>1
        <4> QED BY <4>2, <4>3
      <3> QED BY <3>1, <3>2, <3>3, <3>4
    <2>9. InTime'
      <3> SUFFICES ASSUME Pace >= 4, lag.stall <= 4
                   PROVE  /\ ~ssp'.overrun
                          /\ Bounded("drain", n, r - 1, Short(lag'.turns), c, k)
        BY <1>3, <2>4, <2>5, <2>6 DEF InTime
      <3> HIDE DEF n, r, t, b, c, k
      <3>1. r \in 1 .. 8
        BY SMTT(30), <1>2, <2>2
      <3>2. Bounded("drain", n, r - 1, Short(t + 1), c, k)
        BY <1>2, <1>3, <1>5, <1>6, <2>2, <3>1, DrainBounded
      <3> QED BY <1>3, <1>6, <2>5, <3>2
    <2>10. Kept'
      BY <2>6 DEF Kept, Loops
    <2> QED BY <2>7, <2>8, <2>9, <2>10 DEF SspInv
  <1>10. CASE ~S!CanDrain
    <2>1. UNCHANGED ssp /\ xfer' = [xfer EXCEPT !.pc = "again"]
      BY <1>10 DEF S!Drain
    <2>2. /\ xfer' \in [pc : {"off", "idle"} \cup Loops, width : {"bytes", "words"}, size : Nat,
                         count : Nat, in : Seq(Nat)]
          /\ xfer'.pc = "again" /\ xfer'.in = xfer.in /\ xfer'.size = xfer.size
          /\ xfer'.count = xfer.count
      BY <1>1, <2>1 DEF SspShape, Loops
    <2>3. SspShape'
      BY <1>1, <1>2, <1>3, <1>4, <2>1, <2>2 DEF SspShape, Loops
    <2>4. InOrder'
      BY <1>1, <2>1, <2>2 DEF SspInv, InOrder
    <2>5. InTime'
      <3> SUFFICES ASSUME Pace >= 4, lag.stall <= 4
                   PROVE  ~ssp.overrun /\ Bounded("again", n, r, Short(lag'.turns), c, k)
        BY <1>3, <2>1, <2>2 DEF InTime
      <3>1. rx = <<>> \/ (xfer.count < xfer.size /\ n <= 4)
        BY <1>8, <1>10 DEF S!CanDrain, S!DrainBytes, S!DrainWords, S!RxNotEmpty, S!More, S!TxHalfEmpty
      <3>2. r = 0 \/ (k # 0 /\ n <= 4)
        BY SMTT(30), <1>7, <3>1
      <3> HIDE DEF n, r, t, b, c, k
      <3>3. Bounded("again", n, r, Short(t + 1), c, k)
        BY <1>2, <1>3, <1>5, <1>6, <3>2, DrainEndBounded
      <3> QED BY <1>3, <1>6, <3>3
    <2>6. Kept'
      BY <2>2 DEF Kept, Loops
    <2> QED BY <2>3, <2>4, <2>5, <2>6 DEF SspInv
  <1> QED BY <1>9, <1>10

\* The condition of the outer loop.
LEMMA AgainKeeps ==
  ASSUME SspInv, Depth = 8, S!Again
  PROVE  SspInv'
  <1> DEFINE n == Len(ssp.tx)
             r == Len(ssp.rx)
             t == Short(lag.turns)
             b == lag.stall - lag.left
             c == lag'.stall - lag'.left
             k == xfer.size - xfer.count
  <1>1. SspShape /\ xfer.pc = "again" /\ xfer.pc \in Loops /\ S!Turn /\ UNCHANGED ssp
    BY DEF SspInv, S!Again, Loops
  <1>2. /\ xfer.size \in Nat /\ xfer.count \in Nat /\ xfer.count <= xfer.size /\ k \in Nat
        /\ xfer.in \in Seq(Nat)
    BY <1>1 DEF SspShape
  <1>3. /\ lag' \in [turns : Nat, left : Nat, stall : Nat]
        /\ lag'.stall = lag.stall /\ lag'.left <= lag.left /\ (b = 0 => c = 0)
        /\ Pace >= 4 => Short(lag'.turns) = Short(t + 1)
    BY <1>1, TurnIs
  <1>4. lag'.left <= lag'.stall
    BY <1>1, <1>3 DEF SspShape
  <1>5. ASSUME Pace >= 4, lag.stall <= 4
        PROVE  ~ssp.overrun /\ Bounded("again", n, r, t, b, k)
    BY <1>1, <1>5 DEF SspInv, InTime
  <1>6. CASE S!Over
    <2>1. xfer' = [xfer EXCEPT !.pc = "idle"]
      BY <1>6 DEF S!Again
    <2>2. ssp.tx = <<>> /\ ssp.rx = <<>> /\ xfer.count = xfer.size
      BY <1>2, <1>6 DEF S!Over, S!More, S!RxNotEmpty
    <2>3. /\ xfer' \in [pc : {"off", "idle"} \cup Loops, width : {"bytes", "words"}, size : Nat,
                         count : Nat, in : Seq(Nat)]
          /\ xfer'.pc \notin Loops /\ xfer'.in = xfer.in /\ xfer'.size = xfer.size
      BY <1>1, <2>1 DEF SspShape, Loops
    <2>4. SspShape'
      BY <1>1, <1>3, <2>2, <2>3 DEF SspShape
    <2>5. Kept'
      <3> SUFFICES ASSUME Pace >= 4, lag.stall <= 4
                   PROVE  Len(xfer.in) = xfer.size /\ (\A i \in 1 .. xfer.size : xfer.in[i] = i)
        BY <1>1, <1>3, <1>5, <2>3 DEF Kept
      <3>1. /\ xfer.count = Len(xfer.in) + Len(ssp.rx) + Len(ssp.tx)
            /\ \A i \in 1 .. Len(xfer.in) : xfer.in[i] = i
        BY <1>1, <1>5 DEF SspInv, InOrder
      <3>2. Len(ssp.rx) = 0 /\ Len(ssp.tx) = 0 /\ Len(xfer.in) \in Nat
        BY <1>2, <2>2
      <3>3. Len(xfer.in) = xfer.size
        BY <2>2, <3>1, <3>2
      <3> QED BY <3>1, <3>3
    <2> QED BY <2>3, <2>4, <2>5, RestKeeps
  <1>7. CASE ~S!Over
    <2>1. xfer' = [xfer EXCEPT !.pc = "fill"]
      BY <1>7 DEF S!Again
    <2>2. /\ xfer' \in [pc : {"off", "idle"} \cup Loops, width : {"bytes", "words"}, size : Nat,
                         count : Nat, in : Seq(Nat)]
          /\ xfer'.pc = "fill" /\ xfer'.in = xfer.in /\ xfer'.size = xfer.size
          /\ xfer'.count = xfer.count
      BY <1>1, <2>1 DEF SspShape, Loops
    <2>3. SspShape'
      BY <1>1, <1>2, <1>3, <1>4, <2>2 DEF SspShape, Loops
    <2>4. InOrder'
      BY <1>1, <2>2 DEF SspInv, InOrder
    <2>5. InTime'
      <3> SUFFICES ASSUME Pace >= 4, lag.stall <= 4
                   PROVE  ~ssp.overrun /\ Bounded("fill", n, r, Short(lag'.turns), c, k)
        BY <1>1, <1>3, <2>2 DEF InTime
      <3>1. n \in 0 .. 8 /\ r \in 0 .. 8 /\ t \in 0 .. 4 /\ b \in 0 .. 4
        BY <1>1, InTimeIs
      <3>2. lag.left \in Nat /\ lag.stall \in Nat /\ lag'.left \in Nat
        BY <1>1, <1>3 DEF SspShape
      <3>3. c \in 0 .. 4 /\ c >= b
        BY SMTT(30), <1>3, <1>4, <3>2
      <3> HIDE DEF n, r, t, b, c, k
      <3>4. Bounded("fill", n, r, Short(t + 1), c, k)
        BY <1>2, <1>3, <1>5, <3>1, <3>3, AgainBounded
      <3> QED BY <1>3, <1>5, <3>4
    <2>6. Kept'
      BY <2>2 DEF Kept, Loops
    <2> QED BY <2>3, <2>4, <2>5, <2>6 DEF SspInv
  <1> QED BY <1>6, <1>7

LEMMA SspKeeps == ASSUME SspInv, Depth = 8, [AllNext]_allVars PROVE SspInv'
  <1>1. [S!Next]_sspVars
    BY DEF AllNext, allVars, sspVars
  <1>2. CASE S!Next
    BY <1>2, IdleKeeps, StartKeeps, ShiftKeeps, FillKeeps, DrainKeeps, AgainKeeps DEF S!Next
  <1>3. CASE UNCHANGED sspVars
    BY <1>3 DEF sspVars, SspInv, SspShape, InOrder, InTime, Kept
  <1> QED BY <1>1, <1>2, <1>3

THEOREM FramesKeptAlways ==
  ASSUME Depth = 8
  PROVE  AllSpec => []FramesKept
  <1>1. ASSUME SspInv PROVE FramesKept
    <2> SUFFICES ASSUME Pace >= 4, lag.stall <= Depth \div 2
                 PROVE  /\ xfer.pc = "idle" => /\ xfer.in = [i \in 1 .. xfer.size |-> i]
                                               /\ ssp.rx = <<>> /\ ssp.tx = <<>>
                        /\ ~ssp.overrun
                        /\ (xfer.pc = "again" /\ ssp.tx = <<>> /\ S!More) => (S!CanFill \/ S!CanDrain)
      BY DEF FramesKept, S!FramesKept
    <2>1. SspShape /\ lag.stall <= 4
      BY <1>1 DEF SspInv
    <2>2. CASE xfer.pc \notin Loops
      <3>1. ~ssp.overrun /\ Len(xfer.in) = xfer.size /\ (\A i \in 1 .. xfer.size : xfer.in[i] = i)
        BY <1>1, <2>1, <2>2 DEF SspInv, Kept
      <3>2. xfer.in \in Seq(Nat) /\ ssp.tx = <<>> /\ ssp.rx = <<>> /\ xfer.size \in Nat
        BY <2>1, <2>2 DEF SspShape
      <3>3. xfer.in = [i \in 1 .. xfer.size |-> i]
        BY <3>1, <3>2
      <3> QED BY <2>2, <3>1, <3>2, <3>3 DEF Loops
    <2>3. CASE xfer.pc \in Loops
      <3> DEFINE r == Len(ssp.rx)
                 t == Short(lag.turns)
                 b == lag.stall - lag.left
                 k == xfer.size - xfer.count
      <3>1. ~ssp.overrun /\ Bounded(xfer.pc, Len(ssp.tx), r, t, b, k)
        BY <1>1, <2>1, <2>3 DEF SspInv, InTime
      <3>2. ASSUME xfer.pc = "again", ssp.tx = <<>>, S!More
            PROVE  S!CanFill
        <4>1. r \in 0 .. 8 /\ t \in 0 .. 4 /\ b \in 0 .. 4 /\ k \in Nat
          BY <1>1, <2>1, <2>3, InTimeIs
        <4>2. k # 0
          BY <2>1, <3>2 DEF S!More, SspShape
        <4>3. Bounded("again", 0, r, t, b, k)
          BY <3>1, <3>2
        <4> HIDE DEF r, t, b, k
        <4>4. r # 8
          BY <4>1, <4>2, <4>3 DEF Bounded
        <4> QED BY <3>2, <4>4 DEF S!CanFill, S!TxNotFull, S!RxFull, r
      <3> QED BY <2>3, <3>1, <3>2 DEF Loops
    <2> QED BY <2>2, <2>3
  <1> QED BY <1>1, SspInit, SspKeeps, PTL DEF AllSpec

(***************************************************************************)
(* The devices on the I2C bus (I2cDevices).                                *)
(***************************************************************************)

Regs == I!Registers
I2cSteps ==
  [op : {"write"}, what : Seq(Regs \X Nat) \ {<<>>}] \cup [op : {"read"}, what : Seq(Regs) \ {<<>>}]
    \cup [op : {"here"}, what : Seq(Regs)]
I2cNames ==
  {"none", "time_write", "time_read", "get_timestamp", "erase", "read_ram", "write_ram", "is_up",
   "config", "read", "read_id", "configure", "start", "write"}
Confs  == [probe_ok : BOOLEAN, time_set : BOOLEAN, last : Regs]
I2cChips == [reg : [Regs -> Nat], ptr : Regs]
Calls  == [pc : {"idle", "probe", "run", "return"}, name : I2cNames, plan : Seq(I2cSteps),
           got : Seq(Seq(Regs)), seen : Nat, lost : BOOLEAN,
           ret : {"none", "error", "already", "no", "done", "fault"}]
Counts == [calls : Nat, losses : Nat, failed : BOOLEAN]

I2cShape == kind \in Kinds /\ conf \in Confs /\ chip \in I2cChips /\ call \in Calls /\ count \in Counts

\* The steps that leave alone what the RTC's marker stands for.
PlainSteps ==
  {s \in I2cSteps : s.op = "write" => \A j \in DOMAIN s.what : s.what[j][1] \notin {"setup", "marker"}}

\* The marker is written with what it stands for, by a configuration that found
\* none.
MarkerPart ==
  /\ I!MarkerMeansConfigured
  /\ \/ call.plan \in Seq(PlainSteps)
     \/ /\ call.name = "config" /\ call.pc # "probe" /\ Len(call.plan) = 2
        /\ call.plan[1] \in PlainSteps /\ \E n \in Nat : call.plan[2] = I!ConfigRegs(n)[1]
        /\ call.pc = "run" => \/ Len(call.got) = 1 /\ chip.reg["marker"] = 0
                              \/ Len(call.got) = 2
  /\ (call.pc \in {"run", "probe"} /\ I!Decides) =>
       /\ call.plan = <<I!Read(<<"marker">>)>>
       /\ (call.pc = "run" /\ Len(call.got) = 1 /\ call.seen = 0) => chip.reg["marker"] = 0

\* As long as no transfer failed the temperature sensor's pointer is where its
\* driver believes it.
PointerPart ==
  kind = "tmp101" =>
    /\ ~count.failed /\ conf.last = "temperature" => chip.ptr = "temperature"
    /\ \/ \A i \in DOMAIN call.plan : call.plan[i].op # "here"
       \/ /\ call.plan = <<I!Here(<<"temperature">>)>>
          /\ call.pc \in {"probe", "run"} => conf.last = "temperature"

\* The first n steps of the call are done: what they were to write is in the chip,
\* what they were to read was read.
PartsTo(n) == UNION {{i} \X DOMAIN call.plan[i].what : i \in {m \in 1 .. n : call.plan[m].op = "write"}}
WrittenTo(n) ==
  \A w \in PartsTo(n) :
    (\A v \in PartsTo(n) : I!Later(v, w) => I!Part(v)[1] # I!Part(w)[1]) =>
      chip.reg[I!Part(w)[1]] = I!Part(w)[2]
DonePart ==
  (call.pc = "run" \/ call.ret = "done") =>
    /\ Len(call.got) <= Len(call.plan) /\ (call.pc # "run" => Len(call.got) = Len(call.plan))
    /\ call.lost \/ WrittenTo(Len(call.got))
    /\ (count.failed /\ kind = "tmp101") \/ \A i \in DOMAIN call.got : call.got[i] = I!Asked[i]

\* A call that runs has no result yet.
CoursePart ==
  /\ call.pc \in {"probe", "run"} => call.ret = "none"
  /\ call.pc = "probe" => Len(call.got) <= Len(I!Probe)

I2cInv == I2cShape /\ MarkerPart /\ PointerPart /\ DonePart /\ CoursePart


LEMMA I2cInit == I!Init => I2cInv
<1>1. SUFFICES ASSUME I!Init PROVE I2cInv
  OBVIOUS
<1>2. I2cShape
  BY <1>1 DEF I!Init, I!NoCall, I!Reset, I2cShape, Confs, I2cChips, Calls, Counts, I2cNames, Regs, I!Registers
<1>3. MarkerPart /\ PointerPart /\ DonePart /\ CoursePart
  BY <1>1 DEF I!Init, I!NoCall, I!Reset, MarkerPart, PointerPart, DonePart, CoursePart, I!MarkerMeansConfigured,
     I!Registers, I!Decides
<1> QED
  BY <1>2, <1>3 DEF I2cInv

\* What a transfer leaves in the registers, cut after k bytes.
LEMMA StoredIs ==
  ASSUME NEW s \in I2cSteps, s.op = "write", NEW k \in Int, chip \in I2cChips
  PROVE  /\ I!Stored(s, k) \in [Regs -> Nat]
         /\ \A r \in Regs : (\A i \in DOMAIN s.what : i <= k => s.what[i][1] # r) =>
                              I!Stored(s, k)[r] = chip.reg[r]
         /\ \A i \in DOMAIN s.what :
              (i <= k /\ \A j \in DOMAIN s.what : j <= k /\ j > i => s.what[j][1] # s.what[i][1]) =>
                I!Stored(s, k)[s.what[i][1]] = s.what[i][2]
<1> DEFINE in == {i \in DOMAIN s.what : i <= k}
           last(r) == {i \in in : s.what[i][1] = r /\ \A j \in in : j > i => s.what[j][1] # r}
           at(r) == IF last(r) = {} THEN chip.reg[r] ELSE s.what[CHOOSE i \in last(r) : TRUE][2]
<1>1. PICK l \in Nat : l = Len(s.what) /\ DOMAIN s.what = 1 .. l
  BY DEF I2cSteps
<1>2. \A i \in 1 .. l : s.what[i] \in Regs \X Nat
  BY <1>1 DEF I2cSteps
<1>3. I!Stored(s, k) = [r \in Regs |-> at(r)]
  BY DEF I!Stored, Regs
<1>4. \A r \in Regs : last(r) # {} => (CHOOSE i \in last(r) : TRUE) \in last(r)
  OBVIOUS
<1>5. ASSUME NEW r \in Regs PROVE at(r) \in Nat
  <2>1. CASE last(r) = {}
    BY <2>1 DEF I2cChips
  <2>2. CASE last(r) # {}
    <3>1. PICK c : c = (CHOOSE i \in last(r) : TRUE)
      OBVIOUS
    <3>2. c \in 1 .. l
      BY <3>1, <2>2, <1>4, <1>1
    <3>3. s.what[c][2] \in Nat
      BY <3>2, <1>2
    <3> QED
      BY <3>1, <3>3, <2>2
  <2> QED
    BY <2>1, <2>2
<1>6. ASSUME NEW r \in Regs, \A i \in DOMAIN s.what : i <= k => s.what[i][1] # r
      PROVE  at(r) = chip.reg[r]
  <2>1. last(r) = {}
    BY <1>6
  <2> QED
    BY <2>1
<1>7. ASSUME NEW i \in DOMAIN s.what, i <= k,
             \A j \in DOMAIN s.what : j <= k /\ j > i => s.what[j][1] # s.what[i][1]
      PROVE  at(s.what[i][1]) = s.what[i][2] /\ s.what[i][1] \in Regs
  <2>1. i \in 1 .. l /\ s.what[i][1] \in Regs
    BY <1>1, <1>2
  <2>2. i \in last(s.what[i][1])
    BY <1>7
  <2>3. ASSUME NEW c \in last(s.what[i][1]) PROVE c = i
    <3>1. c \in 1 .. l /\ c <= k /\ s.what[c][1] = s.what[i][1]
      BY <1>1
    <3>2. ~(c > i) /\ ~(i > c)
      BY <3>1, <1>7, <2>1, <1>1
    <3> QED
      BY <3>1, <3>2, <2>1
  <2>4. (CHOOSE c \in last(s.what[i][1]) : TRUE) = i
    <3>1. (CHOOSE c \in last(s.what[i][1]) : TRUE) \in last(s.what[i][1])
      BY <2>1, <2>2, <1>4
    <3> QED
      BY <3>1, <2>3
  <2> QED
    BY <2>1, <2>2, <2>4
<1> HIDE DEF at
<1> QED
  BY <1>3, <1>5, <1>6, <1>7

\* The chip after a transfer.
LEMMA TakenIs ==
  ASSUME NEW s \in I2cSteps, NEW k \in -1 .. Len(s.what), chip \in I2cChips
  PROVE  /\ I!Taken(s, k) \in I2cChips
         /\ s.op # "write" => I!Taken(s, k).reg = chip.reg
         /\ s.op = "write" =>
              /\ \A r \in Regs : (\A i \in DOMAIN s.what : i <= k => s.what[i][1] # r) =>
                                   I!Taken(s, k).reg[r] = chip.reg[r]
              /\ \A i \in DOMAIN s.what :
                   (i <= k /\ \A j \in DOMAIN s.what : j <= k /\ j > i => s.what[j][1] # s.what[i][1]) =>
                     I!Taken(s, k).reg[s.what[i][1]] = s.what[i][2]
         /\ k # -1 /\ s.op = "read" => I!Taken(s, k).ptr = s.what[1]
         /\ k # -1 /\ s.op = "write" => I!Taken(s, k).ptr = s.what[1][1]
         /\ s.op = "here" => I!Taken(s, k) = chip
<1>0. k \in Int /\ Len(s.what) \in Nat /\ DOMAIN s.what = 1 .. Len(s.what)
  BY DEF I2cSteps
<1>1. CASE s.op = "write"
  <2>1. 1 \in DOMAIN s.what /\ s.what[1] \in Regs \X Nat
    BY <1>1, <1>0 DEF I2cSteps
  <2>2. CASE k = -1
    <3>1. I!Taken(s, k) = chip
      BY <2>2 DEF I!Taken
    <3>2. \A i \in DOMAIN s.what : ~(i <= k)
      BY <1>0, <2>2
    <3> QED
      BY <1>1, <2>2, <3>1, <3>2
  <2>3. CASE k # -1
    <3>1. I!Taken(s, k) = [reg |-> I!Stored(s, k), ptr |-> s.what[1][1]]
      BY <1>1, <2>3 DEF I!Taken
    <3>2. I!Taken(s, k) \in I2cChips
      BY <3>1, <2>1, <1>1, <1>0, StoredIs DEF I2cChips
    <3>3. I!Taken(s, k).reg = I!Stored(s, k) /\ I!Taken(s, k).ptr = s.what[1][1]
      BY <3>1
    <3>4. \A r \in Regs : (\A i \in DOMAIN s.what : i <= k => s.what[i][1] # r) =>
                            I!Taken(s, k).reg[r] = chip.reg[r]
      <4> DEFINE st == I!Stored(s, k)
      <4>1. \A r \in Regs : (\A i \in DOMAIN s.what : i <= k => s.what[i][1] # r) => st[r] = chip.reg[r]
        BY <1>0, <1>1, StoredIs
      <4>2. I!Taken(s, k).reg = st
        BY <3>3
      <4> HIDE DEF st
      <4> QED
        BY <4>1, <4>2
    <3>5. \A i \in DOMAIN s.what :
            (i <= k /\ \A j \in DOMAIN s.what : j <= k /\ j > i => s.what[j][1] # s.what[i][1]) =>
              I!Taken(s, k).reg[s.what[i][1]] = s.what[i][2]
      <4> DEFINE st == I!Stored(s, k)
      <4>1. \A i \in DOMAIN s.what :
              (i <= k /\ \A j \in DOMAIN s.what : j <= k /\ j > i => s.what[j][1] # s.what[i][1]) =>
                st[s.what[i][1]] = s.what[i][2]
        BY <1>0, <1>1, StoredIs
      <4>2. I!Taken(s, k).reg = st
        BY <3>3
      <4> HIDE DEF st
      <4> QED
        BY <4>1, <4>2
    <3> QED
      BY <3>2, <3>3, <3>4, <3>5, <1>1
  <2> QED
    BY <2>2, <2>3
<1>2. CASE s.op = "read"
  <2>1. 1 \in DOMAIN s.what /\ s.what[1] \in Regs
    BY <1>2, <1>0 DEF I2cSteps
  <2>2. I!Taken(s, k) = chip \/ I!Taken(s, k) = [chip EXCEPT !.ptr = s.what[1]]
    BY <1>2 DEF I!Taken
  <2>3. k # -1 => I!Taken(s, k) = [chip EXCEPT !.ptr = s.what[1]]
    BY <1>2 DEF I!Taken
  <2> QED
    BY <1>2, <2>1, <2>2, <2>3 DEF I2cChips
<1>3. CASE s.op = "here"
  BY <1>3 DEF I!Taken
<1> QED
  BY <1>1, <1>2, <1>3 DEF I2cSteps

\* The registers a transfer reads from.
LEMMA SourceIs ==
  ASSUME NEW s \in I2cSteps, s.op # "write", I2cShape
  PROVE  /\ I!Source(s) \in Seq(Regs) /\ Len(I!Source(s)) = Len(s.what)
         /\ (s.op # "here" \/ kind # "tmp101") => I!Source(s) = s.what
<1>1. s.what \in Seq(Regs) /\ Len(s.what) \in Nat /\ DOMAIN s.what = 1 .. Len(s.what)
  BY DEF I2cSteps
<1>2. chip.ptr \in Regs
  BY DEF I2cShape, I2cChips
<1>3. [i \in 1 .. Len(s.what) |-> chip.ptr] \in Seq(Regs) /\ Len([i \in 1 .. Len(s.what) |-> chip.ptr]) = Len(s.what)
  BY <1>1, <1>2
<1> QED
  BY <1>1, <1>3 DEF I!Source

\* What the steps of the devices are.
LEMMA StepTypes ==
  /\ \A r \in Regs, n \in Nat : I!Write(<<<<r, n>>>>) \in I2cSteps
  /\ \A r, q \in Regs, n, m \in Nat : I!Write(<<<<r, n>>, <<q, m>>>>) \in I2cSteps
  /\ \A r, q, t \in Regs, n, m, l \in Nat : I!Write(<<<<r, n>>, <<q, m>>, <<t, l>>>>) \in I2cSteps
  /\ \A r \in Regs : I!Read(<<r>>) \in PlainSteps /\ I!Here(<<r>>) \in PlainSteps
  /\ \A r, q \in Regs : I!Read(<<r, q>>) \in PlainSteps
  /\ I!Here(<<>>) \in PlainSteps
<1>1. \A r \in Regs, n \in Nat : <<<<r, n>>>> \in Seq(Regs \X Nat) \ {<<>>}
  OBVIOUS
<1>2. \A r, q \in Regs, n, m \in Nat : <<<<r, n>>, <<q, m>>>> \in Seq(Regs \X Nat) \ {<<>>}
  OBVIOUS
<1>3. \A r, q, t \in Regs, n, m, l \in Nat : <<<<r, n>>, <<q, m>>, <<t, l>>>> \in Seq(Regs \X Nat) \ {<<>>}
  OBVIOUS
<1>4. \A r, q \in Regs : <<r>> \in Seq(Regs) \ {<<>>} /\ <<r, q>> \in Seq(Regs) \ {<<>>}
  OBVIOUS
<1>5. <<>> \in Seq(Regs)
  OBVIOUS
<1> QED
  BY <1>1, <1>2, <1>3, <1>4, <1>5 DEF I2cSteps, PlainSteps, I!Write, I!Read, I!Here

PlainRegs == Regs \ {"setup", "marker"}
LEMMA PlainWrites ==
  /\ \A r \in PlainRegs, n \in Nat : I!Write(<<<<r, n>>>>) \in PlainSteps
  /\ \A r, q \in PlainRegs, n, m \in Nat : I!Write(<<<<r, n>>, <<q, m>>>>) \in PlainSteps
<1>1. ASSUME NEW r \in PlainRegs, NEW n \in Nat PROVE I!Write(<<<<r, n>>>>) \in PlainSteps
  <2>1. I!Write(<<<<r, n>>>>) \in I2cSteps
    BY StepTypes DEF PlainRegs
  <2> QED
    BY <2>1 DEF I!Write, PlainSteps, PlainRegs
<1>2. ASSUME NEW r \in PlainRegs, NEW q \in PlainRegs, NEW n \in Nat, NEW m \in Nat
      PROVE  I!Write(<<<<r, n>>, <<q, m>>>>) \in PlainSteps
  <2>1. I!Write(<<<<r, n>>, <<q, m>>>>) \in I2cSteps
    BY StepTypes DEF PlainRegs
  <2> QED
    BY <2>1 DEF I!Write, PlainSteps, PlainRegs
<1> QED
  BY <1>1, <1>2

\* The probes are plain.
LEMMA ProbeIs == I2cShape => I!Probe \in Seq(PlainSteps) /\ (kind = "tmp101" => I!Probe = <<I!Here(<<>>)>>)
<1>1. SUFFICES ASSUME I2cShape
               PROVE  I!Probe \in Seq(PlainSteps) /\ (kind = "tmp101" => I!Probe = <<I!Here(<<>>)>>)
  OBVIOUS
<1>2. kind \in {"rtc", "tsl256x", "bme280", "tmp101", "veml6070", "chirp"} /\ count.calls \in Nat
  BY <1>1, PartAssumptions DEF I2cShape, Counts, I!I2cDevicesAssumption
<1>3. {"low", "id", "control"} \subseteq Regs /\ "control" \in PlainRegs
  BY DEF Regs, PlainRegs, I!Registers
<1>4. /\ I!rtc_pcf85363_probe \in Seq(PlainSteps) /\ I!tmp101_probe_sensor \in Seq(PlainSteps)
      /\ I!chirp_probe_sensor \in Seq(PlainSteps) /\ I!veml6070_probe_sensor \in Seq(PlainSteps)
      /\ I!bme280_probe_sensor \in Seq(PlainSteps)
  BY <1>3, StepTypes DEF I!rtc_pcf85363_probe, I!tmp101_probe_sensor, I!chirp_probe_sensor,
     I!veml6070_probe_sensor, I!bme280_probe_sensor
<1>5. I!tsl256x_probe_sensor \in Seq(PlainSteps)
  BY <1>2, <1>3, StepTypes, PlainWrites DEF I!tsl256x_probe_sensor
<1>6. /\ kind = "rtc" => I!Probe = I!rtc_pcf85363_probe
      /\ kind = "tmp101" => I!Probe = I!tmp101_probe_sensor
      /\ kind = "chirp" => I!Probe = I!chirp_probe_sensor
      /\ kind = "veml6070" => I!Probe = I!veml6070_probe_sensor
      /\ kind = "bme280" => I!Probe = I!bme280_probe_sensor
      /\ kind = "tsl256x" => I!Probe = I!tsl256x_probe_sensor
  BY DEF I!Probe
<1>7. I!Probe \in Seq(PlainSteps)
  BY <1>2, <1>4, <1>5, <1>6
<1> QED
  BY <1>6, <1>7 DEF I!tmp101_probe_sensor

\* The step that is next.
LEMMA NextStep ==
  ASSUME I2cInv, call.pc \in {"probe", "run"}, ~I!Over
  PROVE  /\ I!Steps \in Seq(I2cSteps) /\ Len(call.got) + 1 \in DOMAIN I!Steps
         /\ I!Steps[Len(call.got) + 1] \in I2cSteps
<1>1. call.plan \in Seq(I2cSteps) /\ I!Probe \in Seq(I2cSteps) /\ Len(call.got) \in Nat
  <2>1. I!Probe \in Seq(PlainSteps)
    BY ProbeIs DEF I2cInv
  <2> QED
    BY <2>1 DEF I2cInv, I2cShape, Calls, PlainSteps
<1>2. I!Steps \in Seq(I2cSteps)
  BY <1>1 DEF I!Steps
<1>3. Len(call.got) <= Len(I!Steps) /\ Len(call.got) # Len(I!Steps)
  BY DEF I2cInv, DonePart, CoursePart, I!Steps, I!Over
<1>4. PICK l \in Nat : l = Len(I!Steps) /\ DOMAIN I!Steps = 1 .. l
  BY <1>2
<1>5. Len(call.got) + 1 \in 1 .. l
  BY <1>1, <1>3, <1>4
<1> QED
  BY <1>2, <1>4, <1>5

\* A transfer, with the step it is of and the bytes of it that go through.
Moves(s, k) ==
  /\ call.pc \in {"probe", "run"} /\ ~I!Over /\ s = I!Steps[Len(call.got) + 1]
  /\ k \in -1 .. Len(s.what)
  /\ chip' = I!Taken(s, k)
  /\ conf' = [conf EXCEPT !.last = IF call.pc = "run" THEN I!LastRegister(s) ELSE @,
                !.probe_ok = @ /\ ~(I!Failed(s, k) /\ I!ForgetsProbe)]
  /\ count' = [count EXCEPT !.failed = @ \/ I!Failed(s, k)]
  /\ call' = IF I!Failed(s, k)
             THEN [call EXCEPT !.pc = "return", !.ret = "error"]
             ELSE [call EXCEPT !.seen = I!Seen(s),
                     !.got = Append(@, IF s.op = "write" THEN <<>> ELSE I!Source(s))]
  /\ kind' = kind

LEMMA TransferMoves == I!Transfer => \E s, k : Moves(s, k)
<1>1. SUFFICES ASSUME I!Transfer PROVE \E s, k : Moves(s, k)
  OBVIOUS
<1> DEFINE s == I!Steps[Len(call.got) + 1]
<1>2. PICK k \in -1 .. Len(s.what) :
        /\ chip' = I!Taken(s, k)
        /\ conf' = [conf EXCEPT !.last = IF call.pc = "run" THEN I!LastRegister(s) ELSE @,
                      !.probe_ok = @ /\ ~(I!Failed(s, k) /\ I!ForgetsProbe)]
        /\ count' = [count EXCEPT !.failed = @ \/ I!Failed(s, k)]
        /\ call' = IF I!Failed(s, k)
                   THEN [call EXCEPT !.pc = "return", !.ret = "error"]
                   ELSE [call EXCEPT !.seen = I!Seen(s),
                           !.got = Append(@, IF s.op = "write" THEN <<>> ELSE I!Source(s))]
  BY <1>1 DEF I!Transfer
<1>3. call.pc \in {"probe", "run"} /\ ~I!Over /\ kind' = kind
  BY <1>1 DEF I!Transfer
<1>4. Moves(s, k)
  BY <1>2, <1>3 DEF Moves
<1> QED
  BY <1>4

LEMMA MovesShape ==
  ASSUME I2cInv, NEW s, NEW k, Moves(s, k)
  PROVE  /\ s \in I2cSteps /\ k \in Int /\ Len(s.what) \in Nat /\ DOMAIN s.what = 1 .. Len(s.what)
         /\ I2cShape'
<1>1. s \in I2cSteps
  BY NextStep DEF Moves
<1>2. k \in Int /\ Len(s.what) \in Nat /\ DOMAIN s.what = 1 .. Len(s.what)
  BY <1>1 DEF Moves, I2cSteps
<1>3. I2cShape
  BY DEF I2cInv
<1>4. chip' \in I2cChips
  <2>1. I!Taken(s, k) \in I2cChips
    BY <1>1, <1>3, TakenIs DEF Moves, I2cShape
  <2> QED
    BY <2>1 DEF Moves
<1>5. I!LastRegister(s) \in Regs
  <2>1. s.op \in {"read", "write"} => 1 \in DOMAIN s.what
    BY <1>1, <1>2 DEF I2cSteps
  <2>2. s.op = "read" => s.what[1] \in Regs
    BY <2>1, <1>1 DEF I2cSteps
  <2>3. s.op = "write" => s.what[1] \in Regs \X Nat
    BY <2>1, <1>1 DEF I2cSteps
  <2>4. s.op \in {"read", "write", "here"}
    BY <1>1 DEF I2cSteps
  <2> QED
    BY <2>2, <2>3, <2>4, <1>3 DEF I!LastRegister, I2cShape, Confs
<1>6. conf' \in Confs
  BY <1>3, <1>5 DEF Moves, I2cShape, Confs
<1>7. count' \in Counts
  BY <1>3 DEF Moves, I2cShape, Counts, I!Failed
<1>8. call' \in Calls
  <2>1. CASE I!Failed(s, k)
    BY <2>1, <1>3 DEF Moves, I2cShape, Calls
  <2>2. CASE ~I!Failed(s, k)
    <3>1. (IF s.op = "write" THEN <<>> ELSE I!Source(s)) \in Seq(Regs)
      BY <1>1, <1>3, SourceIs
    <3>2. I!Seen(s) \in Nat
      <4>1. CASE s.op = "write" \/ s.what = <<>>
        BY <4>1 DEF I!Seen
      <4>2. CASE s.op # "write" /\ s.what # <<>>
        <5>1. Len(s.what) \in 1 .. Len(s.what)
          BY <1>1, <1>2, <4>2 DEF I2cSteps
        <5>2. I!Source(s) \in Seq(Regs) /\ Len(I!Source(s)) = Len(s.what)
          BY <1>1, <1>3, <4>2, SourceIs
        <5>3. I!Source(s)[Len(s.what)] \in Regs
          BY <5>1, <5>2, <1>2
        <5> QED
          BY <5>3, <4>2, <1>3 DEF I!Seen, I2cShape, I2cChips
      <4> QED
        BY <4>1, <4>2
    <3>3. Append(call.got, IF s.op = "write" THEN <<>> ELSE I!Source(s)) \in Seq(Seq(Regs))
      BY <3>1, <1>3 DEF I2cShape, Calls
    <3> QED
      BY <2>2, <3>2, <3>3, <1>3 DEF Moves, I2cShape, Calls
  <2> QED
    BY <2>1, <2>2
<1> QED
  BY <1>1, <1>2, <1>3, <1>4, <1>6, <1>7, <1>8 DEF I2cShape, Moves

\* A transfer that went through did all of its step; the marker stays unless it is
\* written.
LEMMA MovesMarker ==
  ASSUME I2cInv, NEW s, NEW k, Moves(s, k)
  PROVE  MarkerPart'
<1>0. /\ s \in I2cSteps /\ k \in Int /\ Len(s.what) \in Nat /\ DOMAIN s.what = 1 .. Len(s.what)
      /\ I2cShape /\ I2cShape' /\ MarkerPart /\ k \in -1 .. Len(s.what)
  BY MovesShape DEF I2cInv, Moves
<1>1. "marker" \in Regs /\ "setup" \in Regs
  BY DEF Regs, I!Registers
<1>2. /\ call'.plan = call.plan /\ call'.name = call.name /\ kind' = kind
      /\ call'.pc = call.pc \/ call'.pc = "return"
      /\ call'.pc = call.pc => /\ k = Len(s.what)
                               /\ call'.got = Append(call.got, IF s.op = "write" THEN <<>> ELSE I!Source(s))
                               /\ Len(call'.got) = Len(call.got) + 1 /\ call'.seen = I!Seen(s)
  BY <1>0 DEF Moves, I!Failed, I2cShape, Calls
<1>3. CASE s \in PlainSteps
  <2>1. chip'.reg["marker"] = chip.reg["marker"] /\ chip'.reg["setup"] = chip.reg["setup"]
    <3>1. CASE s.op # "write"
      BY <1>0, <3>1, TakenIs DEF Moves, I2cShape
    <3>2. CASE s.op = "write"
      <4>1. \A j \in DOMAIN s.what : s.what[j][1] # "setup" /\ s.what[j][1] # "marker"
        BY <1>3, <3>2 DEF PlainSteps
      <4>2. \A r \in Regs : (\A i \in DOMAIN s.what : i <= k => s.what[i][1] # r) =>
                              I!Taken(s, k).reg[r] = chip.reg[r]
        BY <1>0, <3>2, TakenIs DEF I2cShape
      <4> QED
        BY <4>1, <4>2, <1>1 DEF Moves
    <3> QED
      BY <3>1, <3>2
  <2>2. I!MarkerMeansConfigured'
    BY <2>1, <1>0 DEF MarkerPart, I!MarkerMeansConfigured
  <2>3. (call'.pc \in {"run", "probe"} /\ I!Decides') =>
           /\ call'.plan = <<I!Read(<<"marker">>)>>
           /\ (call'.pc = "run" /\ Len(call'.got) = 1 /\ call'.seen = 0) => chip'.reg["marker"] = 0
    <3>1. SUFFICES ASSUME call'.pc \in {"run", "probe"}, I!Decides'
                   PROVE  /\ call'.plan = <<I!Read(<<"marker">>)>>
                          /\ (call'.pc = "run" /\ Len(call'.got) = 1 /\ call'.seen = 0) => chip'.reg["marker"] = 0
      OBVIOUS
    <3>2. call'.pc = call.pc /\ call.pc \in {"run", "probe"} /\ I!Decides /\ kind = "rtc"
      BY <3>1, <1>2 DEF I!Decides, Moves
    <3>3. call.plan = <<I!Read(<<"marker">>)>>
      BY <3>2, <1>0 DEF MarkerPart
    <3>4. ASSUME call.pc = "run", Len(call'.got) = 1, call'.seen = 0 PROVE chip.reg["marker"] = 0
      <4>1. Len(call.got) = 0
        BY <3>4, <3>2, <1>2, <1>0 DEF I2cShape, Calls
      <4>2. s = I!Read(<<"marker">>)
        BY <3>3, <3>4, <4>1 DEF Moves, I!Steps
      <4>3. s.op = "read" /\ s.what = <<"marker">>
        BY <4>2 DEF I!Read
      <4>4. I!Source(s) = s.what
        BY <1>0, <4>3, SourceIs
      <4>5. I!Seen(s) = chip.reg["marker"]
        BY <4>3, <4>4 DEF I!Seen
      <4> QED
        BY <4>5, <3>4, <3>2, <1>2
    <3> QED
      BY <3>2, <3>3, <3>4, <1>2, <2>1
  <2>4. \/ call'.plan \in Seq(PlainSteps)
        \/ /\ call'.name = "config" /\ call'.pc # "probe" /\ Len(call'.plan) = 2
           /\ call'.plan[1] \in PlainSteps /\ \E n \in Nat : call'.plan[2] = I!ConfigRegs(n)[1]
           /\ call'.pc = "run" => \/ Len(call'.got) = 1 /\ chip'.reg["marker"] = 0
                                 \/ Len(call'.got) = 2
    <3>1. CASE call.plan \in Seq(PlainSteps)
      BY <3>1, <1>2
    <3>2. CASE call.plan \notin Seq(PlainSteps)
      <4>1. /\ call.name = "config" /\ call.pc # "probe" /\ Len(call.plan) = 2
            /\ call.plan[1] \in PlainSteps /\ \E n \in Nat : call.plan[2] = I!ConfigRegs(n)[1]
            /\ call.pc = "run" => Len(call.got) \in {1, 2}
        BY <3>2, <1>0 DEF MarkerPart
      <4>2. ASSUME call'.pc = "run" PROVE Len(call'.got) = 2
        <5>1. call.pc = "run" /\ Len(call.got) # 2
          BY <4>1, <4>2, <1>2 DEF Moves, I!Over, I!Steps
        <5>2. Len(call.got) = 1
          BY <5>1, <4>1
        <5>3. Len(call'.got) = Len(call.got) + 1
          BY <5>1, <4>2, <1>2
        <5> QED
          BY <5>2, <5>3
      <4> QED
        BY <4>1, <4>2, <1>2, <1>0 DEF Moves
    <3> QED
      BY <3>1, <3>2
  <2> QED
    BY <2>2, <2>3, <2>4 DEF MarkerPart
<1>4. CASE s \notin PlainSteps
  <2>1. I!Probe \in Seq(PlainSteps)
    BY <1>0, ProbeIs
  <2>2. Len(call.got) + 1 \in DOMAIN I!Steps /\ s = I!Steps[Len(call.got) + 1]
    BY NextStep DEF Moves
  <2>3. call.pc = "run" /\ call.plan \notin Seq(PlainSteps)
    <3>1. ASSUME I!Steps \in Seq(PlainSteps) PROVE FALSE
      BY <3>1, <2>2, <1>4
    <3> QED
      BY <3>1, <2>1 DEF I!Steps, Moves
  <2>4. PICK n \in Nat : call.plan[2] = I!ConfigRegs(n)[1]
    BY <2>3, <1>0 DEF MarkerPart
  <2>5. /\ call.name = "config" /\ Len(call.plan) = 2 /\ call.plan[1] \in PlainSteps
        /\ Len(call.got) = 1 /\ chip.reg["marker"] = 0
    BY <2>2, <2>3, <1>0 DEF MarkerPart, Moves, I!Over, I!Steps
  <2>6. s.op = "write" /\ s.what = <<<<"setup", n>>, <<"marker", n>>, <<"watchdog", n>>>>
    BY <2>2, <2>3, <2>4, <2>5 DEF I!Steps, I!ConfigRegs, I!Write
  <2>7. /\ \A r \in Regs : (\A i \in DOMAIN s.what : i <= k => s.what[i][1] # r) =>
                              chip'.reg[r] = chip.reg[r]
        /\ \A i \in DOMAIN s.what :
             (i <= k /\ \A j \in DOMAIN s.what : j <= k /\ j > i => s.what[j][1] # s.what[i][1]) =>
               chip'.reg[s.what[i][1]] = s.what[i][2]
    <3>1. chip' = I!Taken(s, k) /\ chip \in I2cChips
      BY <1>0 DEF Moves, I2cShape
    <3> QED
      BY <3>1, <1>0, <2>6, TakenIs
  <2>8. DOMAIN s.what = {1, 2, 3}
    BY <2>6
  <2>9. I!MarkerMeansConfigured'
    <3>1. CASE k < 2
      <4>1. \A i \in DOMAIN s.what : i <= k => s.what[i][1] # "marker"
        BY <2>6, <2>8, <3>1, <1>0
      <4>2. chip'.reg["marker"] = chip.reg["marker"]
        BY <4>1, <2>7, <1>1
      <4> QED
        BY <4>2, <2>5 DEF I!MarkerMeansConfigured
    <3>2. CASE k >= 2
      <4>1. chip'.reg["setup"] = n
        <5>1. \A j \in DOMAIN s.what : j <= k /\ j > 1 => s.what[j][1] # s.what[1][1]
          BY <2>6, <2>8
        <5> QED
          BY <5>1, <2>6, <2>7, <2>8, <3>2, <1>0
      <4>2. chip'.reg["marker"] = n
        <5>1. \A j \in DOMAIN s.what : j <= k /\ j > 2 => s.what[j][1] # s.what[2][1]
          BY <2>6, <2>8
        <5> QED
          BY <5>1, <2>6, <2>7, <2>8, <3>2, <1>0
      <4> QED
        BY <4>1, <4>2 DEF I!MarkerMeansConfigured
    <3> QED
      BY <3>1, <3>2, <1>0
  <2>10. call'.pc = "run" => Len(call'.got) = 2
    BY <2>3, <2>5, <1>2
  <2>11. ~I!Decides'
    <3>1. Len(call'.plan) = 2
      BY <2>5, <1>2
    <3> QED
      BY <3>1 DEF I!Decides
  <2> QED
    BY <2>3, <2>4, <2>5, <2>9, <2>10, <2>11, <1>2 DEF MarkerPart, Moves
<1> QED
  BY <1>3, <1>4

LEMMA MovesPointer ==
  ASSUME I2cInv, NEW s, NEW k, Moves(s, k)
  PROVE  PointerPart'
<1>1. SUFFICES ASSUME kind = "tmp101"
               PROVE  /\ ~count'.failed /\ conf'.last = "temperature" => chip'.ptr = "temperature"
                      /\ \/ \A i \in DOMAIN call'.plan : call'.plan[i].op # "here"
                         \/ /\ call'.plan = <<I!Here(<<"temperature">>)>>
                            /\ call'.pc \in {"probe", "run"} => conf'.last = "temperature"
  BY DEF PointerPart, Moves
<1>0. /\ s \in I2cSteps /\ k \in Int /\ Len(s.what) \in Nat /\ DOMAIN s.what = 1 .. Len(s.what)
      /\ I2cShape /\ I2cShape' /\ PointerPart /\ k \in -1 .. Len(s.what)
  BY MovesShape DEF I2cInv, Moves
<1>2. /\ call'.plan = call.plan
      /\ call'.pc \in {"probe", "run"} => call'.pc = call.pc
  BY <1>0 DEF Moves, I2cShape, Calls
<1>3. conf'.last = IF call.pc = "run" THEN I!LastRegister(s) ELSE conf.last
  BY <1>0 DEF Moves, I2cShape, Confs
<1>4. s.op = "here" => conf'.last = conf.last /\ chip'.ptr = chip.ptr
  <2>1. s.op = "here" => I!Taken(s, k) = chip
    BY <1>0, TakenIs DEF I2cShape
  <2> QED
    BY <2>1, <1>3 DEF I!LastRegister, Moves
<1>5. call.pc = "probe" => s.op = "here"
  <2>1. SUFFICES ASSUME call.pc = "probe" PROVE s.op = "here"
    OBVIOUS
  <2>2. I!Steps = <<I!Here(<<>>)>> /\ Len(call.got) + 1 \in DOMAIN I!Steps
    BY <1>0, <1>1, <2>1, ProbeIs, NextStep DEF I!Steps, Moves
  <2>3. s = I!Here(<<>>)
    BY <2>2 DEF Moves
  <2> QED
    BY <2>3 DEF I!Here
<1>6. ~count'.failed => ~count.failed /\ k = Len(s.what)
  <2>1. count'.failed = (count.failed \/ I!Failed(s, k))
    BY <1>0 DEF Moves, I2cShape, Counts
  <2>2. I!Failed(s, k) \/ k = Len(s.what)
    BY <1>0 DEF I!Failed
  <2> QED
    BY <2>1, <2>2
<1>7. ASSUME ~count'.failed, s.op # "here" PROVE conf'.last = chip'.ptr
  <2>1. call.pc = "run" /\ k # -1
    BY <1>0, <1>5, <1>6, <1>7 DEF Moves
  <2>2. conf'.last = I!LastRegister(s)
    BY <2>1, <1>3
  <2>3. s.op \in {"read", "write"}
    BY <1>0, <1>7 DEF I2cSteps
  <2>4. s.op = "read" => chip'.ptr = s.what[1]
    BY <1>0, <2>1, TakenIs DEF I2cShape, Moves
  <2>5. s.op = "write" => chip'.ptr = s.what[1][1]
    BY <1>0, <2>1, TakenIs DEF I2cShape, Moves
  <2> QED
    BY <2>2, <2>3, <2>4, <2>5 DEF I!LastRegister
<1>8. ~count'.failed /\ conf'.last = "temperature" => chip'.ptr = "temperature"
  BY <1>0, <1>1, <1>4, <1>6, <1>7 DEF PointerPart
<1>9. ASSUME call'.plan = <<I!Here(<<"temperature">>)>> PROVE s.op = "here"
  <2>1. CASE call.pc = "run"
    <3>1. I!Steps = <<I!Here(<<"temperature">>)>> /\ Len(call.got) + 1 \in DOMAIN I!Steps
      BY <1>2, <1>9, <2>1, NextStep DEF I!Steps, Moves
    <3>2. s = I!Here(<<"temperature">>)
      BY <3>1 DEF Moves
    <3> QED
      BY <3>2 DEF I!Here
  <2> QED
    BY <2>1, <1>5 DEF Moves
<1>10. \/ \A i \in DOMAIN call'.plan : call'.plan[i].op # "here"
       \/ /\ call'.plan = <<I!Here(<<"temperature">>)>>
          /\ call'.pc \in {"probe", "run"} => conf'.last = "temperature"
  <2>1. CASE \A i \in DOMAIN call.plan : call.plan[i].op # "here"
    BY <2>1, <1>2
  <2>2. CASE /\ call.plan = <<I!Here(<<"temperature">>)>>
             /\ call.pc \in {"probe", "run"} => conf.last = "temperature"
    <3>1. conf'.last = conf.last
      BY <2>2, <1>2, <1>4, <1>9
    <3> QED
      BY <2>2, <3>1, <1>2
  <2> QED
    BY <2>1, <2>2, <1>0, <1>1 DEF PointerPart
<1> QED
  BY <1>8, <1>10

\* The parts of one step more.
LEMMA PartsGrow ==
  ASSUME NEW n \in Nat, NEW w
  PROVE  /\ w \in PartsTo(n) <=> \E i \in 1 .. n : \E j \in DOMAIN call.plan[i].what :
                                   call.plan[i].op = "write" /\ w = <<i, j>>
         /\ w \in PartsTo(n + 1) <=> \/ w \in PartsTo(n)
                                     \/ /\ call.plan[n + 1].op = "write"
                                        /\ \E j \in DOMAIN call.plan[n + 1].what : w = <<n + 1, j>>
<1>1. \A m \in Nat : w \in PartsTo(m) <=> \E i \in 1 .. m : \E j \in DOMAIN call.plan[i].what :
                                            call.plan[i].op = "write" /\ w = <<i, j>>
  BY DEF PartsTo
<1>2. \A i : i \in 1 .. (n + 1) <=> i \in 1 .. n \/ i = n + 1
  OBVIOUS
<1> QED
  BY <1>1, <1>2

LEMMA MovesCourse ==
  ASSUME I2cInv, NEW s, NEW k, Moves(s, k)
  PROVE  CoursePart'
<1>0. I2cShape /\ I2cShape' /\ CoursePart /\ call.pc \in {"probe", "run"}
  BY MovesShape DEF I2cInv, Moves
<1>1. I!Probe' = I!Probe
  <2>1. kind' = kind /\ count'.calls = count.calls
    BY <1>0 DEF Moves, I2cShape, Counts
  <2> QED
    BY <2>1 DEF I!Probe, I!rtc_pcf85363_probe, I!tmp101_probe_sensor, I!chirp_probe_sensor,
       I!veml6070_probe_sensor, I!bme280_probe_sensor, I!tsl256x_probe_sensor
<1>2. CASE I!Failed(s, k)
  BY <1>0, <1>2 DEF Moves, I2cShape, Calls, CoursePart
<1>3. CASE ~I!Failed(s, k)
  <2>1. call'.pc = call.pc /\ call'.ret = call.ret /\ Len(call'.got) = Len(call.got) + 1
    BY <1>0, <1>3 DEF Moves, I2cShape, Calls
  <2>2. call.pc = "probe" => Len(call.got) + 1 <= Len(I!Probe)
    <3>1. SUFFICES ASSUME call.pc = "probe" PROVE Len(call.got) + 1 <= Len(I!Probe)
      OBVIOUS
    <3>2. I!Probe \in Seq(I2cSteps) /\ Len(call.got) + 1 \in DOMAIN I!Probe
      BY <3>1, NextStep DEF I!Steps, Moves
    <3> QED
      BY <3>2
  <2> QED
    BY <2>1, <2>2, <1>0, <1>1 DEF CoursePart
<1> QED
  BY <1>2, <1>3

LEMMA MovesDone ==
  ASSUME I2cInv, NEW s, NEW k, Moves(s, k)
  PROVE  DonePart'
<1>0. /\ s \in I2cSteps /\ k \in Int /\ Len(s.what) \in Nat /\ DOMAIN s.what = 1 .. Len(s.what)
      /\ I2cShape /\ I2cShape' /\ DonePart /\ CoursePart /\ PointerPart /\ k \in -1 .. Len(s.what)
      /\ call.pc \in {"probe", "run"}
  BY MovesShape DEF I2cInv, Moves
<1>1. CASE I!Failed(s, k) \/ call.pc = "probe"
  <2>1. call'.pc # "run" /\ call'.ret # "done"
    BY <1>0, <1>1 DEF Moves, I2cShape, Calls, CoursePart
  <2> QED
    BY <2>1 DEF DonePart
<1>2. CASE ~I!Failed(s, k) /\ call.pc = "run"
  <2>1. PICK n \in Nat : n = Len(call.got)
    BY <1>0 DEF I2cShape, Calls
  <2>2. PICK l \in Nat : l = Len(call.plan) /\ DOMAIN call.plan = 1 .. l
    BY <1>0 DEF I2cShape, Calls
  <2>3. k = Len(s.what)
    BY <1>0, <1>2 DEF I!Failed
  <2>4. n + 1 \in 1 .. l /\ s = call.plan[n + 1]
    <3>1. Len(call.got) + 1 \in DOMAIN call.plan /\ s = call.plan[Len(call.got) + 1]
      BY <1>2, NextStep DEF I!Steps, Moves
    <3> QED
      BY <3>1, <2>1, <2>2
  <2> DEFINE brought == IF s.op = "write" THEN <<>> ELSE I!Source(s)
  <2>5. brought \in Seq(Regs)
    BY <1>0, SourceIs
  <2>6. /\ call'.pc = "run" /\ call'.plan = call.plan /\ call'.lost = call.lost
        /\ call'.got = Append(call.got, brought) /\ chip' = I!Taken(s, k) /\ kind' = kind
        /\ count'.failed = count.failed
    BY <1>0, <1>2 DEF Moves, I2cShape, Calls, Counts
  <2>7. Len(call'.got) = n + 1 /\ call'.got[n + 1] = brought /\ \A i \in 1 .. n : call'.got[i] = call.got[i]
    BY <2>1, <2>5, <2>6, <1>0 DEF I2cShape, Calls
  <2>8. I!Asked' = I!Asked
    BY <2>6 DEF I!Asked
  <2>9. (count.failed /\ kind = "tmp101") \/ brought = I!Asked[n + 1]
    <3>1. I!Asked[n + 1] = IF s.op = "write" THEN <<>> ELSE s.what
      BY <2>2, <2>4 DEF I!Asked
    <3>2. CASE s.op # "here" \/ kind # "tmp101"
      BY <3>1, <3>2, <1>0, SourceIs
    <3>3. CASE s.op = "here" /\ kind = "tmp101" /\ ~count.failed
      <4>1. call.plan = <<I!Here(<<"temperature">>)>> /\ conf.last = "temperature"
        BY <3>3, <2>2, <2>4, <1>0 DEF PointerPart
      <4>2. chip.ptr = "temperature"
        BY <4>1, <3>3, <1>0 DEF PointerPart
      <4>3. s = I!Here(<<"temperature">>)
        BY <4>1, <2>2, <2>4
      <4>4. s.what = <<"temperature">>
        BY <4>3 DEF I!Here
      <4>5. I!Source(s) = [i \in 1 .. 1 |-> "temperature"]
        BY <4>2, <4>4, <3>3 DEF I!Source
      <4>6. [i \in 1 .. 1 |-> "temperature"] = <<"temperature">>
        OBVIOUS
      <4> QED
        BY <3>1, <3>3, <4>4, <4>5, <4>6
    <3> QED
      BY <3>2, <3>3
  <2>10. (count'.failed /\ kind' = "tmp101") \/ \A i \in DOMAIN call'.got : call'.got[i] = I!Asked'[i]
    <3>1. SUFFICES ASSUME ~(count.failed /\ kind = "tmp101"), NEW i \in 1 .. (n + 1)
                   PROVE  call'.got[i] = I!Asked[i]
      <4>1. call'.got \in Seq(Seq(Regs))
        BY <1>0 DEF I2cShape, Calls
      <4>2. DOMAIN call'.got = 1 .. (n + 1)
        BY <4>1, <2>7
      <4> QED
        BY <4>2, <3>1, <2>6, <2>8
    <3>2. CASE i = n + 1
      BY <3>1, <3>2, <2>7, <2>9
    <3>3. CASE i # n + 1
      <4>1. i \in 1 .. n /\ i \in DOMAIN call.got
        BY <3>3, <2>1, <1>0 DEF I2cShape, Calls
      <4>2. call.got[i] = I!Asked[i]
        BY <4>1, <3>1, <1>0, <1>2 DEF DonePart
      <4> QED
        BY <4>1, <4>2, <2>7
    <3> QED
      BY <3>2, <3>3
  <2>11. call'.lost \/ WrittenTo(n + 1)'
    <3>1. SUFFICES ASSUME ~call.lost PROVE WrittenTo(n + 1)'
      BY <2>6
    <3>2. WrittenTo(n)
      BY <3>1, <1>0, <1>2, <2>1 DEF DonePart
    <3>3. /\ PartsTo(n + 1)' = PartsTo(n + 1) /\ \A w : I!Part(w)' = I!Part(w)
          /\ \A w, v : I!Later(v, w)' = I!Later(v, w)
      BY <2>6 DEF PartsTo, I!Part, I!Later
    <3>4. SUFFICES ASSUME NEW w \in PartsTo(n + 1),
                          \A v \in PartsTo(n + 1) : I!Later(v, w) => I!Part(v)[1] # I!Part(w)[1]
                   PROVE  chip'.reg[I!Part(w)[1]] = I!Part(w)[2]
      BY <3>3 DEF WrittenTo
    <3>5. CASE w \in PartsTo(n)
      <4>i. PICK i \in 1 .. n : \E j \in DOMAIN call.plan[i].what : call.plan[i].op = "write" /\ w = <<i, j>>
        BY <3>5, PartsGrow
      <4>1. PICK j \in DOMAIN call.plan[i].what : call.plan[i].op = "write" /\ w = <<i, j>>
        BY <4>i
      <4>2. I!Part(w) = call.plan[i].what[j] /\ I!Part(w)[1] \in Regs
        <5>1. i \in DOMAIN call.plan /\ call.plan[i] \in I2cSteps
          BY <4>1, <2>2, <2>4, <1>0 DEF I2cShape, Calls
        <5>2. call.plan[i].what[j] \in Regs \X Nat
          BY <5>1, <4>1 DEF I2cSteps
        <5> QED
          BY <5>2, <4>1 DEF I!Part
      <4>3. \A v \in PartsTo(n) : v \in PartsTo(n + 1)
        BY PartsGrow
      <4>4. chip.reg[I!Part(w)[1]] = I!Part(w)[2]
        BY <3>2, <3>4, <3>5, <4>3 DEF WrittenTo
      <4>5. chip'.reg[I!Part(w)[1]] = chip.reg[I!Part(w)[1]]
        <5>1. CASE s.op # "write"
          BY <5>1, <2>6, <1>0, TakenIs DEF I2cShape
        <5>2. CASE s.op = "write"
          <6>1. ASSUME NEW m \in DOMAIN s.what PROVE s.what[m][1] # I!Part(w)[1]
            <7>1. <<n + 1, m>> \in PartsTo(n + 1)
              BY <5>2, <2>4, PartsGrow
            <7>2. I!Later(<<n + 1, m>>, w)
              BY <4>1 DEF I!Later
            <7>3. I!Part(<<n + 1, m>>) = s.what[m]
              BY <2>4 DEF I!Part
            <7> QED
              BY <7>1, <7>2, <7>3, <3>4
          <6>2. \A r \in Regs : (\A m \in DOMAIN s.what : m <= k => s.what[m][1] # r) =>
                                  I!Taken(s, k).reg[r] = chip.reg[r]
            BY <5>2, <1>0, TakenIs DEF I2cShape
          <6> QED
            BY <6>1, <6>2, <4>2, <2>6
        <5> QED
          BY <5>1, <5>2
      <4> QED
        BY <4>4, <4>5
    <3>6. CASE w \notin PartsTo(n)
      <4>1. PICK j \in DOMAIN s.what : s.op = "write" /\ w = <<n + 1, j>>
        BY <3>4, <3>6, <2>4, PartsGrow
      <4>2. I!Part(w) = s.what[j]
        BY <4>1, <2>4 DEF I!Part
      <4>3. ASSUME NEW m \in DOMAIN s.what, m > j PROVE s.what[m][1] # s.what[j][1]
        <5>1. <<n + 1, m>> \in PartsTo(n + 1)
          BY <4>1, <2>4, PartsGrow
        <5>2. I!Later(<<n + 1, m>>, w)
          BY <4>1, <4>3 DEF I!Later
        <5>3. I!Part(<<n + 1, m>>) = s.what[m]
          BY <2>4 DEF I!Part
        <5> QED
          BY <5>1, <5>2, <5>3, <4>2, <3>4
      <4>4. j <= k
        BY <4>1, <2>3, <1>0
      <4>5. I!Taken(s, k).reg[s.what[j][1]] = s.what[j][2]
        BY <4>1, <4>3, <4>4, <1>0, TakenIs DEF I2cShape
      <4> QED
        BY <4>2, <4>5, <2>6
    <3> QED
      BY <3>5, <3>6
  <2>12. Len(call'.got) <= Len(call'.plan)
    BY <2>2, <2>4, <2>6, <2>7
  <2> QED
    BY <2>6, <2>7, <2>10, <2>11, <2>12 DEF DonePart, WrittenTo, PartsTo
<1> QED
  BY <1>0, <1>1, <1>2

LEMMA TransferKeeps == ASSUME I2cInv, I!Transfer PROVE I2cInv'
<1>1. PICK s, k : Moves(s, k)
  BY TransferMoves
<1> QED
  BY <1>1, MovesShape, MovesMarker, MovesPointer, MovesCourse, MovesDone DEF I2cInv

\* A call starts.
LEMMA BeginKeeps ==
  ASSUME I2cInv, NEW k, NEW name \in I2cNames, NEW probes, NEW steps \in Seq(PlainSteps),
         I!Begin(k, name, probes, steps),
         k = "rtc" /\ name \in {"config", "is_up"} => steps = <<I!Read(<<"marker">>)>>,
         k = "tmp101" => \/ \A i \in DOMAIN steps : steps[i].op # "here"
                         \/ steps = <<I!Here(<<"temperature">>)>> /\ conf.last = "temperature"
  PROVE  I2cInv'
<1>0. I2cShape /\ MarkerPart /\ PointerPart /\ kind = k
  BY DEF I2cInv, I!Begin
<1>1. /\ kind' = kind /\ conf' = conf /\ chip' = chip
      /\ call' = [I!NoCall EXCEPT !.pc = IF probes /\ ~conf.probe_ok THEN "probe" ELSE "run",
                    !.name = name, !.plan = steps]
      /\ count' = [count EXCEPT !.calls = @ + 1]
  BY DEF I!Begin
<1>2. /\ call'.plan = steps /\ call'.name = name /\ call'.got = <<>> /\ call'.pc \in {"probe", "run"}
      /\ call'.ret = "none" /\ call'.lost = FALSE /\ call'.seen = 0 /\ call'.pc \in {"probe", "run"}
  BY <1>1 DEF I!NoCall
<1>3. steps \in Seq(I2cSteps)
  BY DEF PlainSteps
<1>4. I2cShape'
  <2>1. call' \in Calls
    <3>1. <<>> \in Seq(Seq(Regs))
      OBVIOUS
    <3> QED
      BY <1>1, <1>3, <3>1 DEF I!NoCall, Calls
  <2>2. count' \in Counts
    BY <1>0, <1>1 DEF I2cShape, Counts
  <2> QED
    BY <1>0, <1>1, <2>1, <2>2 DEF I2cShape
<1>5. Len(call'.got) = 0 /\ DOMAIN call'.got = {}
  BY <1>2
<1>6. MarkerPart'
  <2>1. I!MarkerMeansConfigured'
    BY <1>0, <1>1 DEF MarkerPart, I!MarkerMeansConfigured
  <2>2. I!Decides' => call'.plan = <<I!Read(<<"marker">>)>>
    BY <1>0, <1>1, <1>2 DEF I!Decides
  <2> QED
    BY <1>2, <1>5, <2>1, <2>2 DEF MarkerPart
<1>7. PointerPart'
  <2>1. count'.failed = count.failed
    BY <1>0, <1>1 DEF I2cShape, Counts
  <2> QED
    BY <1>0, <1>1, <1>2, <2>1 DEF PointerPart
<1>8. DonePart'
  <2>1. PartsTo(0)' = {}
    BY DEF PartsTo
  <2>2. Len(call'.got) <= Len(call'.plan)
    BY <1>2, <1>3, <1>5
  <2> QED
    BY <1>2, <1>5, <2>1, <2>2 DEF DonePart, WrittenTo, PartsTo
<1>9. CoursePart'
  <2>1. Len(I!Probe') \in {1, 2}
    <3>1. kind' \in {"rtc", "tsl256x", "bme280", "tmp101", "veml6070", "chirp"}
      BY <1>4, PartAssumptions DEF I2cShape, I!I2cDevicesAssumption
    <3>2. /\ kind' \in {"rtc", "tmp101", "chirp", "veml6070", "bme280"} => Len(I!Probe') = 1
          /\ kind' = "tsl256x" => Len(I!Probe') = 2
      BY DEF I!Probe, I!rtc_pcf85363_probe, I!tmp101_probe_sensor, I!chirp_probe_sensor,
         I!veml6070_probe_sensor, I!bme280_probe_sensor, I!tsl256x_probe_sensor
    <3> QED
      BY <3>1, <3>2
  <2> QED
    BY <1>2, <1>5, <2>1 DEF CoursePart
<1> QED
  BY <1>4, <1>6, <1>7, <1>8, <1>9 DEF I2cInv

LEMMA OneStepKeeps ==
  ASSUME I2cInv, NEW k, NEW name \in I2cNames, NEW probes, NEW s \in PlainSteps,
         I!Begin(k, name, probes, <<s>>), s.op # "here",
         k = "rtc" /\ name \in {"config", "is_up"} => s = I!Read(<<"marker">>)
  PROVE  I2cInv'
<1>1. <<s>> \in Seq(PlainSteps) /\ \A i \in DOMAIN <<s>> : <<s>>[i].op # "here"
  OBVIOUS
<1> QED
  BY <1>1, BeginKeeps

LEMMA StepOps ==
  \A w : I!Read(w).op = "read" /\ I!Write(w).op = "write" /\ I!Here(w).op = "here"
  BY DEF I!Read, I!Write, I!Here

LEMMA RegisterNames ==
  /\ {"stop", "prescaler", "time_lo", "time_hi", "timestamps", "watchdog", "ram", "control", "timing",
      "id", "data", "calT", "calP", "calHa", "calHb", "temperature", "config", "high", "low", "value",
      "command"} \subseteq PlainRegs
  /\ PlainRegs \subseteq Regs /\ "marker" \in Regs /\ "setup" \in Regs
  BY DEF PlainRegs, Regs, I!Registers

LEMMA RtcCallKeeps == ASSUME I2cInv, I!Rtc PROVE I2cInv'
<1>1. I!Now \in Nat
  BY DEF I2cInv, I2cShape, Counts, I!Now
<1>2. CASE I!rtc_pcf85363_time_read \/ I!rtc_pcf85363_get_timestamp \/ I!rtc_pcf85363a_read_ram
           \/ I!rtc_pcf85363a_is_up \/ I!rtc_pcf85363a_config
  <2>1. /\ I!Read(<<"time_lo", "time_hi">>) \in PlainSteps /\ I!Read(<<"timestamps">>) \in PlainSteps
        /\ I!Read(<<"ram">>) \in PlainSteps /\ I!Read(<<"marker">>) \in PlainSteps
    BY StepTypes, RegisterNames
  <2>2. \/ I!Begin("rtc", "time_read", TRUE, <<I!Read(<<"time_lo", "time_hi">>)>>)
        \/ I!Begin("rtc", "get_timestamp", TRUE, <<I!Read(<<"timestamps">>)>>)
        \/ I!Begin("rtc", "read_ram", TRUE, <<I!Read(<<"ram">>)>>)
        \/ I!Begin("rtc", "is_up", TRUE, <<I!Read(<<"marker">>)>>)
        \/ I!Begin("rtc", "config", TRUE, <<I!Read(<<"marker">>)>>)
    BY <1>2 DEF I!rtc_pcf85363_time_read, I!rtc_pcf85363_get_timestamp, I!rtc_pcf85363a_read_ram,
       I!rtc_pcf85363a_is_up, I!rtc_pcf85363a_config, I!rtc_pcf85363_get_regs
  <2>3. {"time_read", "get_timestamp", "read_ram", "is_up", "config"} \subseteq I2cNames
    BY DEF I2cNames
  <2> QED
    BY <2>1, <2>2, <2>3, StepOps, OneStepKeeps
<1>3. CASE I!rtc_pcf85363_erase_timestamps \/ I!rtc_pcf85363a_write_ram
  <2>1. I!Write(<<<<"timestamps", 0>>>>) \in PlainSteps /\ I!Write(<<<<"ram", I!Now>>>>) \in PlainSteps
    BY <1>1, PlainWrites, RegisterNames
  <2>2. \/ I!Begin("rtc", "erase", TRUE, <<I!Write(<<<<"timestamps", 0>>>>)>>)
        \/ I!Begin("rtc", "write_ram", TRUE, <<I!Write(<<<<"ram", I!Now>>>>)>>)
    BY <1>3 DEF I!rtc_pcf85363_erase_timestamps, I!rtc_pcf85363a_write_ram, I!rtc_pcf85363_set_regs
  <2>3. {"erase", "write_ram"} \subseteq I2cNames
    BY DEF I2cNames
  <2> QED
    BY <2>1, <2>2, <2>3, StepOps, OneStepKeeps
<1>4. CASE I!rtc_pcf85363_time_write
  <2> DEFINE stop == I!Write(<<<<"stop", I!Now>>, <<"prescaler", I!Now>>>>)
             set  == I!Write(<<<<"time_lo", I!Now>>, <<"time_hi", I!Now>>>>)
             go   == I!Write(<<<<"stop", 0>>>>)
  <2>1. stop \in PlainSteps /\ set \in PlainSteps /\ go \in PlainSteps
    BY <1>1, PlainWrites, RegisterNames
  <2>2. stop.op # "here" /\ set.op # "here" /\ go.op # "here"
    BY StepOps
  <2>3. I!Begin("rtc", "time_write", TRUE, <<stop, set, go>>)
    BY <1>4 DEF I!rtc_pcf85363_time_write
  <2>4. "time_write" \in I2cNames
    BY DEF I2cNames
  <2> HIDE DEF stop, set, go
  <2>5. <<stop, set, go>> \in Seq(PlainSteps)
    BY <2>1
  <2> QED
    BY <2>3, <2>4, <2>5, BeginKeeps
<1> QED
  BY <1>2, <1>3, <1>4 DEF I!Rtc

LEMMA SensorKeeps == ASSUME I2cInv, I!Sensor PROVE I2cInv'
<1>1. I!Now \in Nat
  BY DEF I2cInv, I2cShape, Counts, I!Now
<1>2. {"read", "read_id", "configure", "config", "start", "write"} \subseteq I2cNames
  BY DEF I2cNames
<1>3. CASE I!tsl256x_sensor_read \/ I!tsl256x_read_id \/ I!bme280_sensor_read \/ I!chirp_sensor_read
  <2>1. /\ I!Read(<<"data">>) \in PlainSteps /\ I!Read(<<"id">>) \in PlainSteps
        /\ I!Read(<<"value">>) \in PlainSteps
    BY StepTypes, RegisterNames
  <2>2. \/ I!Begin("tsl256x", "read", FALSE, <<I!Read(<<"data">>)>>)
        \/ I!Begin("tsl256x", "read_id", FALSE, <<I!Read(<<"id">>)>>)
        \/ I!Begin("bme280", "read", TRUE, <<I!Read(<<"data">>)>>)
        \/ I!Begin("chirp", "read", TRUE, <<I!Read(<<"value">>)>>)
    BY <1>3 DEF I!tsl256x_sensor_read, I!tsl256x_read_id, I!bme280_sensor_read, I!chirp_sensor_read
  <2> QED
    BY <1>2, <2>1, <2>2, StepOps, OneStepKeeps
<1>4. CASE \/ I!tsl256x_configure \/ I!tmp101_sensor_config \/ I!tmp101_sensor_start_conversion
           \/ I!veml6070_configure \/ I!chirp_sensor_write
  <2>1. /\ I!Write(<<<<"timing", I!Now>>>>) \in PlainSteps /\ I!Write(<<<<"config", I!Now>>>>) \in PlainSteps
        /\ I!Write(<<<<"command", I!Now>>>>) \in PlainSteps
    BY <1>1, PlainWrites, RegisterNames
  <2>2. \/ I!Begin("tsl256x", "configure", TRUE, <<I!Write(<<<<"timing", I!Now>>>>)>>)
        \/ I!Begin("tmp101", "config", TRUE, <<I!Write(<<<<"config", I!Now>>>>)>>)
        \/ I!Begin("tmp101", "start", TRUE, <<I!Write(<<<<"config", I!Now>>>>)>>)
        \/ I!Begin("veml6070", "configure", TRUE, <<I!Write(<<<<"command", I!Now>>>>)>>)
        \/ I!Begin("chirp", "write", TRUE, <<I!Write(<<<<"command", I!Now>>>>)>>)
    BY <1>4 DEF I!tsl256x_configure, I!tmp101_sensor_config, I!tmp101_sensor_start_conversion,
       I!veml6070_configure, I!chirp_sensor_write
  <2> QED
    BY <1>2, <2>1, <2>2, StepOps, OneStepKeeps
<1>5. CASE I!bme280_configure
  <2> DEFINE set == I!Write(<<<<"control", I!Now>>, <<"config", I!Now>>>>)
  <2>1. set \in PlainSteps
    BY <1>1, PlainWrites, RegisterNames
  <2>2. I!bme280_get_calibration_data \in Seq(PlainSteps)
    <3>1. /\ I!Read(<<"calT">>) \in PlainSteps /\ I!Read(<<"calP">>) \in PlainSteps
          /\ I!Read(<<"calHa">>) \in PlainSteps /\ I!Read(<<"calHb">>) \in PlainSteps
      BY StepTypes, RegisterNames
    <3> QED
      BY <3>1 DEF I!bme280_get_calibration_data
  <2>3. I!Begin("bme280", "configure", TRUE, <<set>> \o I!bme280_get_calibration_data)
    BY <1>5 DEF I!bme280_configure
  <2> HIDE DEF set
  <2>4. <<set>> \o I!bme280_get_calibration_data \in Seq(PlainSteps)
    BY <2>1, <2>2
  <2> QED
    BY <1>2, <2>3, <2>4, BeginKeeps
<1>6. CASE I!tmp101_sensor_read
  <2>1. CASE conf.last = "temperature"
    <3>1. I!Begin("tmp101", "read", TRUE, <<I!Here(<<"temperature">>)>>)
      BY <1>6, <2>1 DEF I!tmp101_sensor_read
    <3>2. I!Here(<<"temperature">>) \in PlainSteps
      BY StepTypes, RegisterNames
    <3>3. <<I!Here(<<"temperature">>)>> \in Seq(PlainSteps)
      BY <3>2
    <3> QED
      BY <1>2, <2>1, <3>1, <3>3, BeginKeeps
  <2>2. CASE conf.last # "temperature"
    <3>1. I!Begin("tmp101", "read", TRUE, <<I!Read(<<"temperature">>)>>)
      BY <1>6, <2>2 DEF I!tmp101_sensor_read
    <3>2. I!Read(<<"temperature">>) \in PlainSteps
      BY StepTypes, RegisterNames
    <3> QED
      BY <1>2, <3>1, <3>2, StepOps, OneStepKeeps
  <2> QED
    BY <2>1, <2>2
<1>7. CASE I!veml6070_sensor_read
  <2>1. I!Begin("veml6070", "read", TRUE, <<I!Here(<<"high">>), I!Here(<<"low">>)>>)
    BY <1>7 DEF I!veml6070_sensor_read
  <2>2. I!Here(<<"high">>) \in PlainSteps /\ I!Here(<<"low">>) \in PlainSteps
    BY StepTypes, RegisterNames
  <2>3. <<I!Here(<<"high">>), I!Here(<<"low">>)>> \in Seq(PlainSteps)
    BY <2>2
  <2> QED
    BY <1>2, <2>1, <2>3, BeginKeeps
<1> QED
  BY <1>3, <1>4, <1>5, <1>6, <1>7 DEF I!Sensor

LEMMA ProbedKeeps == ASSUME I2cInv, I!Probed PROVE I2cInv'
<1>0. /\ I2cShape /\ MarkerPart /\ PointerPart /\ DonePart /\ CoursePart
      /\ call.pc = "probe" /\ I!Over /\ kind' = kind /\ chip' = chip /\ count' = count
  BY DEF I2cInv, I!Probed
<1>1. PICK right \in BOOLEAN :
        /\ conf' = [conf EXCEPT !.probe_ok = right]
        /\ call' = IF right THEN [call EXCEPT !.pc = "run", !.got = <<>>]
                   ELSE [call EXCEPT !.pc = "return", !.ret = "error"]
  BY DEF I!Probed
<1>2. /\ call'.plan = call.plan /\ call'.name = call.name
      /\ \/ call'.pc = "run" /\ call'.got = <<>> /\ call'.ret = call.ret
         \/ call'.pc = "return" /\ call'.ret = "error"
  BY <1>0, <1>1 DEF I2cShape, Calls
<1>3. I2cShape'
  <2>1. <<>> \in Seq(Seq(Regs))
    OBVIOUS
  <2>2. call' \in Calls
    BY <1>0, <1>1, <2>1 DEF I2cShape, Calls
  <2>3. conf' \in Confs /\ conf'.last = conf.last
    BY <1>0, <1>1 DEF I2cShape, Confs
  <2> QED
    BY <1>0, <2>2, <2>3 DEF I2cShape
<1>4. call'.got = <<>> => Len(call'.got) = 0 /\ DOMAIN call'.got = {}
  OBVIOUS
<1>5. MarkerPart'
  <2>1. I!MarkerMeansConfigured' /\ (I!Decides' => I!Decides)
    BY <1>0, <1>2 DEF MarkerPart, I!MarkerMeansConfigured, I!Decides
  <2>2. call'.plan \in Seq(PlainSteps)
    BY <1>0, <1>2 DEF MarkerPart
  <2>3. I!Decides' => call'.plan = <<I!Read(<<"marker">>)>>
    BY <1>0, <1>2, <2>1 DEF MarkerPart
  <2>4. ASSUME call'.pc = "run" PROVE Len(call'.got) # 1
    <3>1. call'.got = <<>>
      BY <1>2, <2>4
    <3>2. Len(call'.got) = 0
      BY <3>1, <1>4
    <3> QED
      BY <3>2
  <2> QED
    BY <2>1, <2>2, <2>3, <2>4 DEF MarkerPart
<1>6. PointerPart'
  <2>1. conf'.last = conf.last
    BY <1>0, <1>1 DEF I2cShape, Confs
  <2> QED
    BY <1>0, <1>2, <2>1 DEF PointerPart
<1>7. DonePart'
  <2>1. CASE call'.pc = "return"
    BY <1>2, <2>1 DEF DonePart
  <2>2. CASE call'.pc = "run" /\ call'.got = <<>> /\ call'.ret = call.ret
    <3>1. Len(call'.got) <= Len(call'.plan)
      BY <2>2, <1>0, <1>2, <1>4 DEF I2cShape, Calls
    <3> QED
      BY <2>2, <1>4, <3>1 DEF DonePart, WrittenTo, PartsTo
  <2> QED
    BY <1>2, <2>1, <2>2
<1>8. CoursePart'
  BY <1>0, <1>2 DEF CoursePart
<1> QED
  BY <1>3, <1>5, <1>6, <1>7, <1>8 DEF I2cInv

LEMMA TwoInOrder ==
  ASSUME NEW StepSet, NEW a \in StepSet, NEW b \in StepSet
  PROVE  /\ <<a>> \o <<b>> \in Seq(StepSet) /\ Len(<<a>> \o <<b>>) = 2
         /\ (<<a>> \o <<b>>)[1] = a /\ (<<a>> \o <<b>>)[2] = b
  OBVIOUS

\* The RTC's calls go on, or not, after they have read the marker.
LEMMA DecideKeeps == ASSUME I2cInv, I!Decide PROVE I2cInv'
<1>0. /\ I2cShape /\ MarkerPart /\ PointerPart /\ DonePart /\ CoursePart
      /\ call.pc = "run" /\ I!Over /\ I!Decides /\ kind = "rtc"
      /\ kind' = kind /\ conf' = conf /\ chip' = chip /\ count' = count
  BY DEF I2cInv, I!Decide, I!Decides
<1> DEFINE more == IF call.name = "config" THEN I!ConfigRegs(count.calls)
                   ELSE <<I!Read(<<"time_lo", "time_hi">>)>>
<1>1. \/ /\ (call.seen # 0) = (call.name = "is_up")
         /\ call' = [call EXCEPT !.plan = @ \o more]
      \/ \E r \in {"already", "no"} : call' = [call EXCEPT !.pc = "return", !.ret = r]
  BY DEF I!Decide
<1>2. call.plan = <<I!Read(<<"marker">>)>> /\ Len(call.got) = 1
  BY <1>0 DEF MarkerPart, I!Over, I!Steps
<1>3. I!Read(<<"marker">>) \in PlainSteps /\ I!Read(<<"time_lo", "time_hi">>) \in PlainSteps
  BY StepTypes, RegisterNames
<1>4. CASE \E r \in {"already", "no"} : call' = [call EXCEPT !.pc = "return", !.ret = r]
  <2>1. /\ call' \in Calls /\ call'.pc = "return" /\ call'.ret \in {"already", "no"}
        /\ call'.plan = call.plan /\ call'.name = call.name
    BY <1>0, <1>4 DEF I2cShape, Calls
  <2>2. I2cShape'
    BY <1>0, <2>1 DEF I2cShape
  <2>3. MarkerPart'
    BY <1>0, <2>1 DEF MarkerPart, I!MarkerMeansConfigured
  <2>4. PointerPart'
    BY <1>0, <2>1 DEF PointerPart
  <2>5. DonePart' /\ CoursePart'
    BY <2>1 DEF DonePart, CoursePart
  <2> QED
    BY <2>2, <2>3, <2>4, <2>5 DEF I2cInv
<1>5. CASE /\ (call.seen # 0) = (call.name = "is_up")
           /\ call' = [call EXCEPT !.plan = @ \o more]
  <2>1. PICK s \in I2cSteps :
          /\ more = <<s>>
          /\ \/ call.name = "config" /\ s = I!ConfigRegs(count.calls)[1]
             \/ call.name = "is_up" /\ s \in PlainSteps
    <3>1. count.calls \in Nat
      BY <1>0 DEF I2cShape, Counts
    <3>2. CASE call.name = "config"
      <4> DEFINE n == count.calls
                 w == I!Write(<<<<"setup", n>>, <<"marker", n>>, <<"watchdog", n>>>>)
      <4>1. w \in I2cSteps
        BY <3>1, StepTypes, RegisterNames
      <4>2. I!ConfigRegs(n) = <<w>> /\ I!ConfigRegs(n)[1] = w
        BY DEF I!ConfigRegs
      <4> QED
        BY <3>2, <4>1, <4>2
    <3>3. CASE call.name = "is_up"
      BY <3>3, <1>3 DEF PlainSteps
    <3> QED
      BY <3>2, <3>3, <1>0 DEF I!Decides
  <2> DEFINE read == I!Read(<<"marker">>)
  <2>r. read \in PlainSteps /\ read \in I2cSteps /\ read.op = "read"
    BY <1>3, StepOps DEF PlainSteps
  <2>p. call' = [call EXCEPT !.plan = <<read>> \o <<s>>]
    BY <1>2, <1>5, <2>1
  <2> HIDE DEF more, read
  <2>2. /\ call'.plan = <<read>> \o <<s>> /\ call'.name = call.name /\ call'.pc = "run"
        /\ call'.got = call.got /\ call'.ret = call.ret /\ call'.lost = call.lost /\ call'.seen = call.seen
    BY <1>0, <2>p DEF I2cShape, Calls
  <2>3. /\ call'.plan \in Seq(I2cSteps) /\ Len(call'.plan) = 2 /\ DOMAIN call'.plan = {1, 2}
        /\ call'.plan[1] = read /\ call'.plan[2] = s
    <3>1. call'.plan \in Seq(I2cSteps) /\ Len(call'.plan) = 2 /\ call'.plan[1] = read /\ call'.plan[2] = s
      BY <2>1, <2>2, <2>r, TwoInOrder
    <3> QED
      BY <3>1
  <2>4. I2cShape'
    <3>1. call' \in Calls
      BY <1>0, <2>p, <2>2, <2>3 DEF I2cShape, Calls
    <3> QED
      BY <1>0, <3>1 DEF I2cShape
  <2>5. MarkerPart'
    <3>1. I!MarkerMeansConfigured' /\ ~I!Decides'
      BY <1>0, <2>3 DEF MarkerPart, I!MarkerMeansConfigured, I!Decides
    <3>2. CASE call.name = "is_up"
      <4>1. call'.plan \in Seq(PlainSteps)
        BY <2>1, <2>2, <2>r, <3>2, TwoInOrder
      <4> QED
        BY <3>1, <4>1 DEF MarkerPart
    <3>3. CASE call.name = "config"
      <4>1. s = I!ConfigRegs(count.calls)[1] /\ count.calls \in Nat
        BY <2>1, <3>3, <1>0 DEF I2cShape, Counts
      <4>2. chip.reg["marker"] = 0
        BY <1>0, <1>2, <1>5, <3>3 DEF MarkerPart
      <4> QED
        BY <1>0, <1>2, <2>2, <2>3, <2>r, <3>1, <3>3, <4>1, <4>2 DEF MarkerPart
    <3> QED
      BY <3>2, <3>3, <2>1
  <2>6. PointerPart'
    BY <1>0 DEF PointerPart
  <2>7. DonePart'
    <3>1. PartsTo(1)' = {}
      BY <2>3, <2>r DEF PartsTo
    <3>2. call.got[1] = I!Asked[1] /\ DOMAIN call.got = {1}
      BY <1>0, <1>2 DEF DonePart, I2cShape, Calls
    <3>3. I!Asked'[1] = I!Asked[1]
      <4>1. DOMAIN call.plan = {1} /\ call.plan[1] = read
        BY <1>2 DEF read
      <4> QED
        BY <4>1, <2>3 DEF I!Asked
    <3> QED
      BY <1>0, <1>2, <2>2, <2>3, <3>1, <3>2, <3>3 DEF DonePart, WrittenTo, PartsTo
  <2>8. CoursePart'
    BY <1>0, <2>2 DEF CoursePart
  <2> QED
    BY <2>4, <2>5, <2>6, <2>7, <2>8 DEF I2cInv
<1> QED
  BY <1>1, <1>4, <1>5

LEMMA FinishKeeps == ASSUME I2cInv, I!Finish \/ I!Return PROVE I2cInv'
<1>0. /\ I2cShape /\ MarkerPart /\ PointerPart /\ DonePart /\ CoursePart
      /\ kind' = kind /\ chip' = chip /\ count' = count
  BY DEF I2cInv, I!Finish, I!Return
<1>1. /\ call' \in Calls /\ call'.plan = call.plan /\ call'.name = call.name /\ call'.got = call.got
      /\ call'.lost = call.lost /\ call'.pc \in {"return", "idle"}
      /\ \/ call.pc = "run" /\ Len(call.got) = Len(call.plan)
         \/ call.pc = "return" /\ call'.ret = call.ret
  <2>1. CASE I!Finish
    <3>1. PICK r \in {"fault", "done"} : call' = [call EXCEPT !.pc = "return", !.ret = r]
      BY <2>1 DEF I!Finish
    <3>2. call.pc = "run" /\ Len(call.got) = Len(call.plan)
      BY <2>1 DEF I!Finish, I!Over, I!Steps
    <3> QED
      BY <1>0, <3>1, <3>2 DEF I2cShape, Calls
  <2>2. CASE I!Return
    BY <1>0, <2>2 DEF I!Return, I2cShape, Calls
  <2> QED
    BY <2>1, <2>2
<1>2. conf' \in Confs /\ conf'.last = conf.last
  BY <1>0 DEF I!Finish, I!Return, I2cShape, Confs
<1>3. I2cShape'
  BY <1>0, <1>1, <1>2 DEF I2cShape
<1>4. MarkerPart'
  BY <1>0, <1>1 DEF MarkerPart, I!MarkerMeansConfigured
<1>5. PointerPart'
  BY <1>0, <1>1, <1>2 DEF PointerPart
<1>6. DonePart'
  <2>1. \A n : WrittenTo(n)' = WrittenTo(n)
    BY <1>0, <1>1 DEF WrittenTo, PartsTo, I!Part, I!Later
  <2>2. I!Asked' = I!Asked
    BY <1>1 DEF I!Asked
  <2>m. PICK m \in Nat : m = Len(call.got) /\ m = Len(call'.got)
    BY <1>0, <1>1 DEF I2cShape, Calls
  <2>3. SUFFICES ASSUME call'.ret = "done"
                 PROVE  /\ m = Len(call.plan) /\ (call.lost \/ WrittenTo(m)')
                        /\ (count.failed /\ kind = "tmp101") \/ \A i \in DOMAIN call.got : call.got[i] = I!Asked[i]
    BY <1>0, <1>1, <2>2, <2>m DEF DonePart, WrittenTo, PartsTo
  <2>4. call.pc = "run" \/ call.ret = "done"
    BY <1>1, <2>3
  <2>5. m = Len(call.plan)
    BY <1>0, <1>1, <2>4, <2>m DEF DonePart
  <2>6. call.lost \/ WrittenTo(m)
    BY <1>0, <2>4, <2>m DEF DonePart
  <2>7. (count.failed /\ kind = "tmp101") \/ \A i \in DOMAIN call.got : call.got[i] = I!Asked[i]
    BY <1>0, <2>4 DEF DonePart
  <2> QED
    BY <2>1, <2>5, <2>6, <2>7
<1>7. CoursePart'
  BY <1>1 DEF CoursePart
<1> QED
  BY <1>3, <1>4, <1>5, <1>6, <1>7 DEF I2cInv

LEMMA LosePowerKeeps == ASSUME I2cInv, I!LosePower PROVE I2cInv'
<1>0. /\ I2cShape /\ MarkerPart /\ PointerPart /\ DonePart /\ CoursePart
      /\ kind' = kind /\ conf' = conf /\ chip' = I!Reset
      /\ count' = [count EXCEPT !.losses = @ + 1] /\ call' = [call EXCEPT !.lost = TRUE]
  BY DEF I2cInv, I!LosePower
<1>1. /\ call' \in Calls /\ call'.plan = call.plan /\ call'.name = call.name /\ call'.got = call.got
      /\ call'.lost /\ call'.pc = call.pc /\ call'.ret = call.ret /\ call'.seen = call.seen
  BY <1>0 DEF I2cShape, Calls
<1>2. count' \in Counts /\ count'.failed = count.failed /\ count'.calls = count.calls
  BY <1>0 DEF I2cShape, Counts
<1>3. chip' \in I2cChips /\ chip'.ptr = "temperature" /\ \A r \in Regs : chip'.reg[r] = 0
  BY <1>0, RegisterNames DEF I!Reset, I2cChips, Regs, PlainRegs
<1>4. I2cShape'
  BY <1>0, <1>1, <1>2, <1>3 DEF I2cShape
<1>5. MarkerPart'
  <2>1. chip'.reg["marker"] = 0 /\ (I!Decides' => I!Decides)
    BY <1>0, <1>1, <1>3, RegisterNames DEF I!Decides
  <2>2. I!MarkerMeansConfigured'
    BY <2>1 DEF I!MarkerMeansConfigured
  <2> QED
    BY <1>0, <1>1, <2>1, <2>2 DEF MarkerPart
<1>6. PointerPart'
  BY <1>0, <1>1, <1>2, <1>3 DEF PointerPart
<1>7. DonePart'
  <2>1. I!Asked' = I!Asked
    BY <1>1 DEF I!Asked
  <2> QED
    BY <1>0, <1>1, <1>2, <2>1 DEF DonePart
<1>8. CoursePart'
  <2>1. I!Probe' = I!Probe
    BY <1>0, <1>2 DEF I!Probe, I!rtc_pcf85363_probe, I!tmp101_probe_sensor, I!chirp_probe_sensor,
       I!veml6070_probe_sensor, I!bme280_probe_sensor, I!tsl256x_probe_sensor
  <2> QED
    BY <1>0, <1>1, <2>1 DEF CoursePart
<1> QED
  BY <1>4, <1>5, <1>6, <1>7, <1>8 DEF I2cInv

LEMMA I2cNext == I2cInv /\ [I!Next]_i2cVars => I2cInv'
<1>1. SUFFICES ASSUME I2cInv, [I!Next]_i2cVars PROVE I2cInv'
  OBVIOUS
<1>2. CASE UNCHANGED i2cVars
  <2>1. kind' = kind /\ conf' = conf /\ chip' = chip /\ call' = call /\ count' = count
    BY <1>2 DEF i2cVars
  <2>2. I2cShape' /\ PointerPart'
    BY <1>1, <2>1 DEF I2cInv, I2cShape, PointerPart
  <2>3. MarkerPart'
    BY <1>1, <2>1 DEF I2cInv, MarkerPart, I!MarkerMeansConfigured, I!Decides
  <2>4. DonePart'
    <3>1. I!Asked' = I!Asked
      BY <2>1 DEF I!Asked
    <3>2. \A n : WrittenTo(n)' = WrittenTo(n)
      BY <2>1 DEF WrittenTo, PartsTo, I!Part, I!Later
    <3>3. PICK m \in Nat : m = Len(call.got) /\ m = Len(call'.got)
      BY <1>1, <2>1 DEF I2cInv, I2cShape, Calls
    <3>4. DonePart
      BY <1>1 DEF I2cInv
    <3>5. call'.pc = "run" \/ call'.ret = "done" =>
            /\ m <= Len(call.plan) /\ (call.pc # "run" => m = Len(call.plan))
            /\ call.lost \/ WrittenTo(m)'
            /\ (count.failed /\ kind = "tmp101") \/ \A i \in DOMAIN call.got : call.got[i] = I!Asked[i]
      BY <2>1, <3>2, <3>3, <3>4 DEF DonePart
    <3> QED
      BY <2>1, <3>1, <3>3, <3>5 DEF DonePart, WrittenTo, PartsTo
  <2>5. CoursePart'
    <3>1. I!Probe' = I!Probe
      BY <2>1 DEF I!Probe, I!rtc_pcf85363_probe, I!tmp101_probe_sensor, I!chirp_probe_sensor,
         I!veml6070_probe_sensor, I!bme280_probe_sensor, I!tsl256x_probe_sensor
    <3> QED
      BY <1>1, <2>1, <3>1 DEF I2cInv, CoursePart
  <2> QED
    BY <2>2, <2>3, <2>4, <2>5 DEF I2cInv
<1>3. CASE I!Next
  BY <1>1, <1>3, RtcCallKeeps, SensorKeeps, TransferKeeps, ProbedKeeps, DecideKeeps, FinishKeeps,
     LosePowerKeeps DEF I!Next
<1> QED
  BY <1>1, <1>2, <1>3

LEMMA I2cInvGives == I2cInv => I!I2cDevicesSound
<1>1. SUFFICES ASSUME I2cInv, call.pc = "idle", call.ret = "done", ~call.lost
               PROVE  /\ \A w \in I!Wanted : chip.reg[I!Part(w)[1]] = I!Part(w)[2]
                      /\ Len(call.got) = Len(call.plan)
                      /\ (count.failed /\ kind = "tmp101") \/ call.got = I!Asked
  BY DEF I!I2cDevicesSound, I!DoneMeansDone, I2cInv, MarkerPart
<1>2. PICK l \in Nat : l = Len(call.plan) /\ DOMAIN call.plan = 1 .. l
  BY <1>1 DEF I2cInv, I2cShape, Calls
<1>3. Len(call.got) = l /\ WrittenTo(l)
  BY <1>1, <1>2 DEF I2cInv, DonePart
<1>4. I!Parts = PartsTo(l)
  BY <1>2 DEF I!Parts, I!Writes, PartsTo
<1>5. \A w \in I!Wanted : chip.reg[I!Part(w)[1]] = I!Part(w)[2]
  BY <1>3, <1>4 DEF I!Wanted, WrittenTo
<1>6. ASSUME ~(count.failed /\ kind = "tmp101") PROVE call.got = I!Asked
  <2>1. call.got \in Seq(Seq(Regs)) /\ DOMAIN call.got = 1 .. l
    BY <1>1, <1>3 DEF I2cInv, I2cShape, Calls
  <2>2. call.got = [i \in 1 .. l |-> call.got[i]]
    BY <2>1
  <2>3. \A i \in 1 .. l : call.got[i] = I!Asked[i]
    BY <1>1, <1>6, <2>1 DEF I2cInv, DonePart
  <2>4. I!Asked = [i \in 1 .. l |-> I!Asked[i]]
    BY <1>2 DEF I!Asked
  <2> QED
    BY <2>2, <2>3, <2>4
<1> QED
  BY <1>2, <1>3, <1>5, <1>6

\* A call of an I2C device that reports success did all of its transfers, and the
\* marker that tells a configured clock is only there with its configuration.
THEOREM I2cDevicesSoundAlways == AllSpec => []I2cDevicesSound
<1>1. AllInit => I!Init
  BY DEF AllInit
<1>2. [AllNext]_allVars => [I!Next]_i2cVars
  BY DEF AllNext, allVars, i2cVars
<1>3. I2cDevicesSound <=> I!I2cDevicesSound
  BY DEF I2cDevicesSound
<1> QED
  BY <1>1, <1>2, <1>3, I2cInit, I2cNext, I2cInvGives, PTL DEF AllSpec

=============================================================================
