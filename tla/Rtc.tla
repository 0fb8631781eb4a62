-------------------------------- MODULE Rtc --------------------------------
(***************************************************************************)
(* The alarm of the real time clock (drivers/rtc.c): its counter can only  *)
(* be read three seconds after it was started, so an alarm asked for       *)
(* earlier is set up by a callback of the system tick (core/systick.c),    *)
(* every half second until the counter is there.                           *)
(***************************************************************************)
EXTENDS Integers

CONSTANTS
  Dates,     \* the dates asked for
  Periods,   \* the periods, 0: once
  StartDate, \* the counter at the reset
  MaxDate,   \* bound: seconds
  MaxAlarms  \* bound: calls

RtcAssumption ==
  /\ Dates \subseteq Nat \ {0} /\ Periods \subseteq Nat /\ StartDate \in Nat \ {0}
  /\ MaxDate \in Nat /\ MaxAlarms \in Nat

VARIABLES
  rtc,      \* the registers: data, match, interrupt enabled, interrupt raised
  tick,     \* quarters of a second the system tick has run, -1: not started
  ready,    \* rtc_start_ok
  retries,  \* the entries of setup_callback among the systick's: their phases
  alarm,    \* rtc_callback set, match_first, rtc_match_period, periodic_match
  owed,     \* the date the next call is expected at, 0: none
  clean,    \* no alarm set over one that still waits, no match while masked
  alarms

vars == <<rtc, tick, ready, retries, alarm, owed, clean, alarms>>

\* The system tick may run already.
Init ==
  /\ rtc = [data |-> StartDate, match |-> 0, on |-> FALSE, raised |-> FALSE]
  /\ tick \in {-1, 0} /\ ready = FALSE /\ retries = {}
  /\ alarm = [set |-> FALSE, first |-> 0, period |-> 0, periodic |-> FALSE]
  /\ owed = 0 /\ clean = TRUE /\ alarms = 0

-----------------------------------------------------------------------------

\* rtc_get_count starts the system tick, and returns 0 until three seconds later.
Ready == ready \/ tick >= 12
Started == IF tick = -1 THEN 0 ELSE tick

\* Interrupts are taken at once.
Interrupt == rtc.on /\ rtc.raised

rtc_set_match(r, when, period) == [r EXCEPT !.match = IF when # 0 THEN when ELSE r.data + period]

\* When the user may expect the next call, asked for at this date.  (What was
\* past already comes with the period, if there is one.)
Expected(when, period, date) ==
  IF when > date THEN when ELSE IF period # 0 THEN date + period ELSE 0

\* match_first is only stored for setup_callback.  A date that is past is not
\* noticed here: the match is never met.
set_rtc_callback ==
  /\ ~Interrupt /\ alarms < MaxAlarms /\ alarms' = alarms + 1
  /\ \E when \in Dates \cup {0}, period \in Periods :
       /\ alarm' = [set |-> TRUE, period |-> period, periodic |-> period # 0,
                    first |-> IF Ready THEN alarm.first ELSE when]
       /\ rtc' = [IF Ready THEN rtc_set_match(rtc, when, period) ELSE rtc EXCEPT !.on = TRUE]
       /\ retries' = IF Ready THEN retries ELSE retries \cup {Started % 2}
       /\ owed' = IF Ready /\ when # 0 /\ when <= rtc.data THEN 0 ELSE Expected(when, period, rtc.data)
       /\ clean' = (clean /\ retries = {})
  /\ ready' = Ready /\ tick' = Started

remove_rtc_callback ==
  /\ ~Interrupt /\ alarm.set
  /\ alarm' = [alarm EXCEPT !.set = FALSE]
  /\ rtc' = [rtc EXCEPT !.on = FALSE]
  /\ owed' = 0
  /\ UNCHANGED <<tick, ready, retries, clean, alarms>>

\* The alarm of a period is set from the date the handler runs at.
RTC_Handler ==
  /\ Interrupt
  /\ rtc' = [rtc EXCEPT !.raised = FALSE, !.match = IF alarm.periodic THEN rtc.data + alarm.period ELSE @]
  /\ owed' = IF owed > rtc.data THEN owed ELSE IF alarm.periodic THEN rtc.data + alarm.period ELSE 0
  /\ UNCHANGED <<tick, ready, retries, alarm, clean, alarms>>

-----------------------------------------------------------------------------
(* Time.  The entries of setup_callback run every second quarter.          *)

\* Mutant: an alarm that is past waits for its first date all the same.
FirstPast(date) == alarm.first
First(date) == IF date >= alarm.first THEN 0 ELSE alarm.first

\* setup_callback takes itself off once the counter can be read.
Tick ==
  /\ ~Interrupt /\ rtc.data < MaxDate /\ tick >= 0
  /\ LET n == tick + 1
         second == n % 4 = 0
         hit == second /\ rtc.data + 1 = rtc.match
         now == [rtc EXCEPT !.data = IF second THEN @ + 1 ELSE @, !.raised = @ \/ hit]
         go == n % 2 \in retries /\ (ready \/ n >= 12)
         first == First(now.data)
     IN  /\ tick' = n
         /\ rtc' = IF go THEN rtc_set_match(now, first, alarm.period) ELSE now
         /\ retries' = IF go THEN retries \ {n % 2} ELSE retries
         /\ alarm' = IF go THEN [alarm EXCEPT !.first = first] ELSE alarm
         /\ owed' = IF go /\ alarm.set THEN Expected(alarm.first, alarm.period, now.data) ELSE owed
         /\ ready' = (ready \/ go)
         /\ clean' = (clean /\ ~(hit /\ ~rtc.on))
  /\ UNCHANGED alarms

Next == set_rtc_callback \/ remove_rtc_callback \/ RTC_Handler \/ Tick

Spec == Init /\ [][Next]_vars

-----------------------------------------------------------------------------
(* Properties.                                                             *)

\* An alarm asked for before the counter can be read comes at its date, or, when
\* that has gone by in the meantime, after its period, and goes on with its
\* period: once the date the next call is expected at is there, the interrupt is
\* raised and enabled.  (Not for an alarm set over one that still waits to be set
\* up, whose date the one that waits may take, or after a match of an alarm that
\* was removed: that one's interrupt comes when the next alarm enables it.)
AlarmComes ==
  (clean /\ owed # 0 /\ retries = {}) => (rtc.data < owed \/ Interrupt)
=============================================================================
