-------------------------------- MODULE Gpio --------------------------------
(***************************************************************************)
(* The pins and their interrupts (drivers/gpio.c, core/pio.c): the main    *)
(* loop sets and removes callbacks, one register write at a time, while    *)
(* pins change and the handler of their port runs.  A callback raises a    *)
(* flag that the main loop looks at, the way the applications use them.    *)
(***************************************************************************)
EXTENDS Integers

CONSTANTS
  Pins,      \* the pins used, records [port, pin]
  MaxEdges,  \* bound: changes of a pin
  MaxSets    \* bound: calls of the driver

Ports == 0 .. 2
Senses == {"both", "rising", "falling", "high", "low"}

\* The tables of the pins' registers: a pin out of them is left alone.
NbPins == [port \in Ports |-> CASE port = 0 -> 32 [] port = 1 -> 7 [] OTHER -> 16]
Exists(p) == p.port \in Ports /\ p.pin < NbPins[p.port]

GpioAssumption ==
  /\ Pins \subseteq [port : Nat, pin : Nat] /\ Pins # {}
  /\ MaxEdges \in Nat /\ MaxSets \in Nat

VARIABLES
  gpio,    \* per pin: direction, level, sense, enable and raw status bits, callback
  ports,   \* the ports with their clock on, and those with their interrupt on
  isr,     \* the handler: its port, the status bits left, and where it is
  setting, \* the call the main loop is in the middle of
  flag,    \* the pins whose callback was called since the main loop looked
  news,    \* the pins with an event since then, and how many pin changes and calls
  edges, sets

vars == <<gpio, ports, isr, setting, flag, news, edges, sets>>

NoIsr == [port |-> -1, left |-> {}, at |-> "idle"]
NoCall == [op |-> "none"]

Init ==
  /\ gpio = [p \in Pins |-> [out |-> FALSE, level |-> 0, sense |-> "low", en |-> FALSE,
                             raw |-> FALSE, cb |-> FALSE]]
  /\ ports = [on |-> {}, irq |-> {}]
  /\ isr = NoIsr /\ setting = NoCall
  /\ flag = {} /\ news = {} /\ edges = 0 /\ sets = 0

-----------------------------------------------------------------------------
(* The pins (outside of the code).  An edge is latched, a level is not.    *)

Level(p) == gpio[p].sense \in {"high", "low"}
Raw(p) == IF Level(p) THEN gpio[p].level = (IF gpio[p].sense = "high" THEN 1 ELSE 0) ELSE gpio[p].raw
Pending(p) == gpio[p].en /\ Raw(p)

Selected(p, to) == gpio[p].sense \in {"both", IF to = 1 THEN "rising" ELSE "falling"}

\* The pin is in a call that changes its interrupt.
Changing(p) == setting.op # "none" /\ setting.pin = p

Edge(p) ==
  /\ edges < MaxEdges /\ edges' = edges + 1
  /\ p.port \in ports.on /\ ~gpio[p].out
  /\ LET to == 1 - gpio[p].level
         hit == Selected(p, to)
     IN  /\ gpio' = [gpio EXCEPT ![p].level = to, ![p].raw = @ \/ hit]
         /\ news' = IF hit /\ gpio[p].en /\ gpio[p].cb /\ ~Changing(p) THEN news \cup {p} ELSE news
  /\ UNCHANGED <<ports, isr, setting, flag, sets>>

-----------------------------------------------------------------------------
(* The handler of a port.                                                  *)

PIO_Handler(port) ==
  /\ isr.at = "idle" /\ port \in ports.irq
  /\ \E p \in Pins : p.port = port /\ Pending(p)
  /\ isr' = [port |-> port, left |-> {p \in Pins : p.port = port /\ Pending(p)}, at |-> "call"]
  /\ UNCHANGED <<gpio, ports, setting, flag, news, edges, sets>>

Lowest(S) == CHOOSE p \in S : \A q \in S : p.pin <= q.pin

Call ==
  /\ isr.at = "call" /\ isr.left # {}
  /\ LET p == Lowest(isr.left) IN flag' = IF gpio[p].cb THEN flag \cup {p} ELSE flag
  /\ isr' = [isr EXCEPT !.at = "clear"]
  /\ UNCHANGED <<gpio, ports, setting, news, edges, sets>>

\* Mutant: the register that clears is read back with the other bits set.
ClearedAll(p) == {q \in Pins : q.port = p.port}
Cleared(p) == {p}

ClearBits(S) == [p \in Pins |-> IF p \in S THEN [gpio[p] EXCEPT !.raw = FALSE] ELSE gpio[p]]

Clear ==
  /\ isr.at = "clear"
  /\ LET p == Lowest(isr.left)
     IN  /\ gpio' = ClearBits(Cleared(p))
         /\ isr' = [isr EXCEPT !.left = @ \ {p}, !.at = "call"]
  /\ UNCHANGED <<ports, setting, flag, news, edges, sets>>

Return ==
  /\ isr.at = "call" /\ isr.left = {}
  /\ isr' = NoIsr
  /\ UNCHANGED <<gpio, ports, setting, flag, news, edges, sets>>

-----------------------------------------------------------------------------
(* The main loop, only while no handler runs.                              *)

Main == isr.at = "idle"
Free == Main /\ setting = NoCall /\ sets < MaxSets /\ sets' = sets + 1

\* The main loop looks at the flags and lowers them.
Look ==
  /\ Main /\ setting = NoCall /\ flag # {}
  /\ flag' = {} /\ news' = news \ flag
  /\ UNCHANGED <<gpio, ports, isr, setting, edges, sets>>

\* Port 2 is never switched on.
gpio_on  == Free /\ ports' = [ports EXCEPT !.on = @ \cup {0, 1}]
            /\ UNCHANGED <<gpio, isr, setting, flag, news, edges>>
gpio_off == Free /\ ports' = [ports EXCEPT !.on = {}]
            /\ UNCHANGED <<gpio, isr, setting, flag, news, edges>>

config_gpio ==
  /\ Free
  /\ \E p \in Pins, out \in BOOLEAN, val \in {0, 1} :
       gpio' = [gpio EXCEPT ![p].out = out, ![p].level = IF out THEN val ELSE @]
  /\ UNCHANGED <<ports, isr, setting, flag, news, edges>>

\* A pin that is not in the tables is refused at once.
set_gpio_callback ==
  /\ Free
  /\ \E p \in Pins, sense \in Senses \cup {"unknown"} :
       /\ Exists(p) /\ p.port \in ports.on
       /\ gpio' = [gpio EXCEPT ![p].cb = TRUE]
       /\ setting' = [op |-> "set", pin |-> p, sense |-> sense, at |-> "sense"]
       /\ news' = news \ {p} /\ flag' = flag \ {p}
  /\ UNCHANGED <<ports, isr, edges>>

\* An unknown sense is refused with the callback stored.
SetSense ==
  /\ Main /\ setting.op = "set" /\ setting.at = "sense"
  /\ gpio' = [gpio EXCEPT ![setting.pin].out = FALSE,
                           ![setting.pin].sense = IF setting.sense = "unknown" THEN @ ELSE setting.sense]
  /\ setting' = IF setting.sense = "unknown" THEN NoCall ELSE [setting EXCEPT !.at = "clear"]
  /\ UNCHANGED <<ports, isr, flag, news, edges, sets>>

SetClear ==
  /\ Main /\ setting.op = "set" /\ setting.at = "clear"
  /\ gpio' = ClearBits(Cleared(setting.pin))
  /\ news' = news \ {setting.pin}
  /\ setting' = [setting EXCEPT !.at = "enable"]
  /\ UNCHANGED <<ports, isr, flag, edges, sets>>

SetEnable ==
  /\ Main /\ setting.op = "set" /\ setting.at = "enable"
  /\ gpio' = [gpio EXCEPT ![setting.pin].en = TRUE]
  /\ ports' = [ports EXCEPT !.irq = @ \cup {setting.pin.port}]
  /\ setting' = NoCall
  /\ UNCHANGED <<isr, flag, news, edges, sets>>

remove_gpio_callback ==
  /\ Free
  /\ \E p \in Pins : /\ Exists(p) /\ gpio[p].cb
                     /\ gpio' = [gpio EXCEPT ![p].cb = FALSE]
                     /\ setting' = [op |-> "remove", pin |-> p]
                     /\ news' = news \ {p} /\ flag' = flag \ {p}
  /\ UNCHANGED <<ports, isr, edges>>

\* The port's interrupt goes off with its last pin.
Enabled(port, g) == {p \in Pins : p.port = port /\ g[p].en}
RemoveDisable ==
  /\ Main /\ setting.op = "remove"
  /\ gpio' = [gpio EXCEPT ![setting.pin].en = FALSE]
  /\ ports' = IF Enabled(setting.pin.port, gpio') = {}
              THEN [ports EXCEPT !.irq = @ \ {setting.pin.port}] ELSE ports
  /\ setting' = NoCall
  /\ UNCHANGED <<isr, flag, news, edges, sets>>

Next ==
  \/ \E p \in Pins : Edge(p)
  \/ \E port \in Ports : PIO_Handler(port)
  \/ Call \/ Clear \/ Return \/ Look \/ gpio_on \/ gpio_off \/ config_gpio
  \/ set_gpio_callback \/ SetSense \/ SetClear \/ SetEnable
  \/ remove_gpio_callback \/ RemoveDisable

Spec == Init /\ [][Next]_vars

-----------------------------------------------------------------------------
(* Properties.                                                             *)

\* No event on a pin with a callback goes unseen by the main loop: since the
\* call that set the callback returned, the flag is up, or the interrupt is
\* still to be taken, and then its port's interrupt is on.  (An edge between the
\* callback and the write that clears is not a second call, but the flag of the
\* first is still up when the main loop runs again.)
NoEventUnseen ==
  \A p \in news \ flag : Pending(p) /\ p.port \in ports.irq
=============================================================================
