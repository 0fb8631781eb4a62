------------------------------- MODULE Timers -------------------------------
(***************************************************************************)
(* A timer (drivers/timers.c, drivers/countertimers.c): match channels that *)
(* interrupt, reset or stop the counter, set up as a timer or for PWM,     *)
(* started and stopped while it counts, and the handler of its interrupts. *)
(***************************************************************************)
EXTENDS Integers

CONSTANTS
  Values,    \* the match values used
  MaxCount,  \* the width of the counter: it wraps after MaxCount
  MaxCalls   \* bound: calls of the driver

Channels == 0 .. 3
Controls == {"int", "reset", "stop"}

TimersAssumption ==
  /\ Values \subseteq 1 .. MaxCount /\ MaxCount \in Nat /\ MaxCalls \in Nat

VARIABLES
  tmr,    \* the registers: counter, control, match values and what they do, PWM, flags
  on,     \* timer_on was called: its callback is in place
  irqs,   \* the handler: the flags it has read, and where it is
  due,    \* channels whose match should interrupt since their last callback
  intact, \* the last set up left no match that resets below the counter
  calls

vars == <<tmr, on, irqs, due, intact, calls>>

Init ==
  /\ tmr = [count |-> 0, run |-> FALSE, reset |-> FALSE, match |-> [c \in Channels |-> 0],
            ctrl |-> [c \in Channels |-> {}], pwm |-> {}, flags |-> {}]
  /\ on = FALSE /\ irqs = [at |-> "idle", flags |-> {}]
  /\ due = {} /\ intact = TRUE /\ calls = 0

-----------------------------------------------------------------------------
(* The hardware: at a match a channel does what its control says.          *)

Matched(n) == {c \in Channels : tmr.match[c] = n /\ tmr.ctrl[c] # {}}
Does(n, what) == {c \in Matched(n) : what \in tmr.ctrl[c]}

\* The counter is not beyond a match that resets it.
InRange(t) == \A c \in Channels : "reset" \in t.ctrl[c] => t.count <= t.match[c]

Tick ==
  /\ on /\ tmr.run /\ ~tmr.reset
  /\ LET at == tmr.count
         n == IF Does(at, "reset") # {} THEN 0 ELSE (at + 1) % (MaxCount + 1)
     IN  /\ tmr' = [tmr EXCEPT !.count = n, !.run = Does(n, "stop") = {},
                               !.flags = @ \cup Does(n, "int")]
         /\ due' = due \cup Does(n, "int")
  /\ UNCHANGED <<on, irqs, intact, calls>>

-----------------------------------------------------------------------------
(* The handler reads the flags, clears those, and calls the callback.      *)

TIMER_Handler ==
  /\ on /\ irqs.at = "idle" /\ tmr.flags # {}
  /\ irqs' = [at |-> "clear", flags |-> tmr.flags]
  /\ UNCHANGED <<tmr, on, due, intact, calls>>

\* Mutant: everything is cleared, what came since included.
ClearEverything(flags) == {}
FlagsLeft(flags) == flags \ irqs.flags

ClearFlags ==
  /\ irqs.at = "clear"
  /\ tmr' = [tmr EXCEPT !.flags = FlagsLeft(@)]
  /\ irqs' = [irqs EXCEPT !.at = "call"]
  /\ UNCHANGED <<on, due, intact, calls>>

Callback ==
  /\ irqs.at = "call"
  /\ due' = due \ irqs.flags
  /\ irqs' = [at |-> "idle", flags |-> {}]
  /\ UNCHANGED <<tmr, on, intact, calls>>

-----------------------------------------------------------------------------
(* The calls, from the main loop.                                          *)

Called == irqs.at = "idle" /\ calls < MaxCalls /\ calls' = calls + 1

\* The counter is held in reset until it is started.
timer_on ==
  /\ Called /\ on' = TRUE
  /\ tmr' = [tmr EXCEPT !.reset = TRUE, !.run = FALSE, !.count = 0]
  /\ UNCHANGED <<irqs, due, intact>>

\* What was not delivered waits for the timer to be on again.
timer_off == Called /\ on /\ on' = FALSE /\ UNCHANGED <<tmr, irqs, due, intact>>

timer_start == Called /\ on /\ tmr' = [tmr EXCEPT !.run = TRUE, !.reset = FALSE] /\ UNCHANGED <<on, irqs, due, intact>>
timer_pause == Called /\ on /\ tmr' = [tmr EXCEPT !.run = FALSE, !.reset = FALSE] /\ UNCHANGED <<on, irqs, due, intact>>
timer_stop ==
  /\ Called /\ on
  /\ tmr' = [tmr EXCEPT !.run = FALSE, !.reset = FALSE, !.count = 0]
  /\ UNCHANGED <<on, irqs, due, intact>>
timer_restart ==
  /\ Called /\ on
  /\ tmr' = [tmr EXCEPT !.run = TRUE, !.reset = FALSE, !.count = 0]
  /\ UNCHANGED <<on, irqs, due, intact>>

\* A value below the counter is met only after the counter has wrapped.
timer_set_match ==
  /\ Called /\ on
  /\ \E c \in Channels, v \in Values :
       /\ tmr' = [tmr EXCEPT !.match[c] = v]
       /\ intact' = InRange(tmr')
  /\ UNCHANGED <<on, irqs, due>>

\* The period channel resets the counter; what the other channels did at their
\* match stays as it was.
PwmCtrl(ctrl, c) == [ctrl EXCEPT ![c] = {"reset"}]
timer_pwm_config ==
  /\ Called /\ on
  /\ \E output, period \in Channels, v, p \in Values :
       /\ output # period /\ v <= p
       /\ tmr' = [tmr EXCEPT !.match = [@ EXCEPT ![output] = v, ![period] = p],
                             !.ctrl = PwmCtrl(@, period), !.pwm = {output, period}]
       /\ intact' = InRange(tmr')
  /\ UNCHANGED <<on, irqs, due>>

\* One channel is enough to show what it does; the others are cleared.  The PWM
\* outputs stay on.
timer_counter_config ==
  /\ Called /\ on
  /\ \E c \in Channels, v \in Values, does \in SUBSET Controls :
       /\ tmr' = [tmr EXCEPT !.ctrl = [d \in Channels |-> IF d = c THEN does ELSE {}],
                             !.match = [d \in Channels |-> IF d = c THEN v ELSE 0]]
       /\ intact' = InRange(tmr')
  /\ UNCHANGED <<on, irqs, due>>

Next ==
  \/ Tick \/ TIMER_Handler \/ ClearFlags \/ Callback \/ timer_on \/ timer_off \/ timer_start
  \/ timer_pause \/ timer_stop \/ timer_restart \/ timer_set_match \/ timer_pwm_config
  \/ timer_counter_config

Spec == Init /\ [][Next]_vars

-----------------------------------------------------------------------------
(* Properties.                                                             *)

\* A match that is to interrupt is seen by the callback, whatever comes while
\* the handler runs: until then its flag is up or the handler has read it.
MatchesSeen == due \subseteq tmr.flags \cup irqs.flags

\* A counter that is not beyond the matches that reset it when they are set
\* up does not get beyond them later, through every start, pause and stop and with
\* what earlier set ups left behind.
CounterBounded == intact => InRange(tmr)

\* The driver loses no match and no bound of the counter.
TimersSound == MatchesSeen /\ CounterBounded
=============================================================================
