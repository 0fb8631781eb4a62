------------------------------- MODULE Clock -------------------------------
(***************************************************************************)
(* The system tick timer (core/systick.c) and the time kept with it        *)
(* (lib/time.c): the counter, its interrupt with the callbacks, and a main *)
(* loop that sleeps, registers callbacks, or reads and sets the time.  The *)
(* main loop runs only while no interrupt does; the tick interrupt has the *)
(* lowest priority, so it can itself be seen half way by the others.       *)
(* One board runs one of Clients: the three share the interrupt but no     *)
(* other state.                                                            *)
(***************************************************************************)
EXTENDS Integers, FiniteSets, FiniteSetsExt

CONSTANTS
  Clients,      \* what the main loop may do: "sleeps", "callbacks", "time"
  Reload,       \* systick->reload_val: a tick is Reload + 1 cycles
  Slots,        \* MAX_SYSTICK_CALLBACKS
  Periods,      \* periods given to add_systick_callback
  Wrap,         \* 2^16, the modulus of countdown
  MsecPerSec,   \* 1000
  MaxSec,       \* bound: the time client stops the counter at this second
  SleepTicks,   \* milliseconds given to msleep
  SleepCycles,  \* cycles asked of usleep (usleep_us_count * us)
  MaxElapsed    \* bound: the cycles of a sleep are counted up to here

ASSUME ClockAssumption ==
  /\ Clients \subseteq {"sleeps", "callbacks", "time"}
  /\ Reload \in Nat \ {0} /\ Slots \in Nat \ {0} /\ MsecPerSec \in Nat \ {0}
  /\ MaxSec \in Nat \ {0} /\ MaxElapsed \in Nat
  /\ Wrap \in Nat \ {0, 1} /\ Periods \subseteq 1 .. Wrap - 1
  /\ SleepTicks \subseteq Nat /\ SleepCycles \subseteq 0 .. Reload + 1
  \* the cycles of the longest sleep are all counted
  /\ \A n \in SleepTicks, c \in SleepCycles \cup {0} :
       (IF n > 0 THEN (n - 1) * (Reload + 1) ELSE 0) + c <= MaxElapsed

\* beat and spare stay registered, once removes itself when it is called (as
\* setup_callback of drivers/rtc.c does), time_track keeps the time.
NoCallback == "NULL"
UserCallbacks == {"beat", "spare", "once"}
Callbacks == UserCallbacks \cup {"time_track"}

VARIABLES
  client,
  running,          \* systick_running, and the ENABLE bit
  tick_ms,          \* 0 until the timer is configured
  value, countflag, pending,   \* the counter, its flag, its interrupt
  sleep_count,
  cbs,              \* slots: callback, period, countdown
  time, time_lock, time_configured,
  handler, slot,    \* where SysTick_Handler is, and its i
  pc, call,         \* where the main loop is, and what it calls
  masked,           \* interrupts are masked
  elapsed,          \* cycles since the current sleep was called
  since,            \* ticks since each callback was called or registered
  clock             \* milliseconds the time should show

counter == <<running, tick_ms, value, countflag, pending>>
timeState == <<time, time_lock, time_configured, clock>>
interrupt == <<handler, slot>>
main == <<pc, call, masked>>
vars == <<client, counter, sleep_count, cbs, timeState, interrupt, main,
          elapsed, since>>

Total(t) == t.seconds * MsecPerSec + t.msec
Times == [seconds : 0 .. MaxSec - 1, msec : 0 .. MsecPerSec - 1]
NoCall == [op |-> "none"]

Init ==
  /\ client \in Clients
  /\ running = FALSE /\ tick_ms = 0
  /\ value = 0 /\ countflag = FALSE /\ pending = FALSE
  /\ sleep_count = 0
  /\ cbs = [i \in 1 .. Slots |->
              [callback |-> NoCallback, period |-> 0, countdown |-> 0]]
  /\ time = [seconds |-> 0, msec |-> 0]
  /\ time_lock = FALSE /\ time_configured = FALSE /\ clock = 0
  /\ handler = "off" /\ slot = 1
  /\ pc = "idle" /\ call = NoCall /\ masked = FALSE
  /\ elapsed = 0
  /\ since = [c \in Callbacks |-> 0]

-----------------------------------------------------------------------------
(* The counter.  A tick is served before the next one.                     *)

Cycle ==
  /\ running
  /\ value = 1 => ~pending /\ handler = "off"
  /\ client = "time" => time.seconds < MaxSec
  /\ value' = IF value = 0 THEN Reload ELSE value - 1
  /\ countflag' = (countflag \/ value = 1)
  /\ pending' = (pending \/ value = 1)
  /\ elapsed' = IF client = "sleeps" /\ pc # "idle"
                 THEN Min({elapsed + 1, MaxElapsed}) ELSE 0
  /\ UNCHANGED <<client, running, tick_ms, sleep_count, cbs, timeState,
                 interrupt, main, since>>

-----------------------------------------------------------------------------
(* SysTick_Handler                                                         *)

Registered(c) == \E i \in 1 .. Slots : cbs[i].callback = c

\* Taking the interrupt lasts longer than the cycle in which the counter is 0.
TickStart ==
  /\ pending /\ ~masked /\ handler = "off" /\ value # 0
  /\ pending' = FALSE
  /\ sleep_count' = IF sleep_count # 0 THEN sleep_count - 1 ELSE 0
  /\ since' = [c \in Callbacks |->
                 IF Registered(c) THEN Min({since[c] + 1, Wrap}) ELSE 0]
  /\ handler' = "loop" /\ slot' = 1
  /\ UNCHANGED <<client, running, tick_ms, value, countflag, cbs, timeState,
                 main, elapsed>>

\* remove_systick_callback: the first slot that holds c is emptied.
Removed(c, slots) ==
  LET held == {i \in 1 .. Slots : slots[i].callback = c} IN
  IF held = {} THEN slots
               ELSE [slots EXCEPT ![Min(held)].callback = NoCallback]

Due == (cbs[slot].countdown - 1) % Wrap = 0
CountedDownOnly == [cbs EXCEPT ![slot].countdown = (@ - 1) % Wrap]
CountedDown ==
  [cbs EXCEPT ![slot].countdown =
     IF Due THEN cbs[slot].period ELSE (@ - 1) % Wrap]
\* time_track gives up when the main loop holds the lock.
TrackRegardless == FALSE
TrackLockedOut == time_lock
NextSlot == handler' = "loop" /\ slot' = slot + 1

\* One pass of the loop over the callbacks.
TickSlot ==
  /\ handler = "loop" /\ slot <= Slots
  /\ LET c == cbs[slot].callback IN
     \/ /\ c = NoCallback
        /\ NextSlot
        /\ UNCHANGED <<cbs, since, timeState>>
     \/ /\ c # NoCallback /\ ~Due
        /\ cbs' = CountedDown
        /\ NextSlot
        /\ UNCHANGED <<since, timeState>>
     \/ /\ c # NoCallback /\ Due
        /\ cbs' = IF c = "once" THEN Removed(c, CountedDown) ELSE CountedDown
        /\ since' = [since EXCEPT ![c] = 0]
        /\ IF c = "time_track" /\ ~TrackLockedOut
             THEN /\ time_lock' = TRUE
                  /\ time' = [time EXCEPT !.msec = @ + 1]
                  /\ clock' = clock + 1
                  /\ handler' = "counted"
                  /\ UNCHANGED <<slot, time_configured>>
             ELSE NextSlot /\ UNCHANGED timeState
  /\ UNCHANGED <<client, counter, sleep_count, main, elapsed>>

TickReturn ==
  /\ handler = "loop" /\ slot > Slots
  /\ handler' = "off"
  /\ UNCHANGED <<client, counter, sleep_count, cbs, timeState, slot, main,
                 elapsed, since>>

\* The rest of time_track, store by store.
SecondFull == time.msec >= MsecPerSec
TrackRollMsec ==
  /\ handler = "counted" /\ SecondFull
  /\ time' = [time EXCEPT !.msec = 0]
  /\ handler' = "rolled"
  /\ UNCHANGED <<time_lock, slot>>

TrackRollSeconds ==
  /\ handler = "rolled"
  /\ time' = [time EXCEPT !.seconds = @ + 1]
  /\ handler' = "counted"
  /\ UNCHANGED <<time_lock, slot>>

TrackRelease ==
  /\ handler = "counted" /\ ~SecondFull
  /\ time_lock' = FALSE
  /\ NextSlot
  /\ UNCHANGED time

TimeTrack ==
  /\ TrackRollMsec \/ TrackRollSeconds \/ TrackRelease
  /\ UNCHANGED <<client, counter, sleep_count, cbs, time_configured, clock,
                 main, elapsed, since>>

SysTick_Handler == TickStart \/ TickSlot \/ TickReturn \/ TimeTrack

-----------------------------------------------------------------------------
(* get_time_diff: the sign of t1 - t2 and its size.                        *)

Gap(late, early) ==
  LET m == late.msec + MsecPerSec - early.msec
      s == late.seconds - early.seconds - 1 IN
  IF m >= MsecPerSec THEN [seconds |-> s + 1, msec |-> m - MsecPerSec]
                     ELSE [seconds |-> s, msec |-> m]

GetTimeDiff(t1, t2) ==
  CASE t1.seconds < t2.seconds -> [sign |-> -1, size |-> Gap(t2, t1)]
    [] t1.seconds > t2.seconds -> [sign |-> 1, size |-> Gap(t1, t2)]
    [] OTHER ->
         [sign |-> IF t1.msec < t2.msec THEN -1
                   ELSE IF t1.msec > t2.msec THEN 1 ELSE 0,
          size |-> [seconds |-> 0,
                    msec |-> IF t1.msec < t2.msec THEN t2.msec - t1.msec
                                                  ELSE t1.msec - t2.msec]]

-----------------------------------------------------------------------------
(* The main loop, which a pending interrupt goes before.                   *)

CpuFree == handler = "off" /\ (pending => masked)
At(l) == CpuFree /\ pc = l
Goto(l) == pc' = l /\ UNCHANGED <<call, masked>>
Calls(who, l, c) == At("idle") /\ client = who /\ pc' = l /\ call' = c

\* systick_start, systick_reset, systick_stop.  A write clears the counter
\* and its flag.
Cleared == value' = 0 /\ countflag' = FALSE
Start == running' = TRUE /\ Cleared /\ UNCHANGED <<tick_ms, pending>>
Stop == running' = FALSE /\ Cleared /\ UNCHANGED <<tick_ms, pending>>
Reset == Cleared /\ UNCHANGED <<running, tick_ms, pending>>
TimerOn == running' = FALSE /\ Cleared /\ tick_ms' = 1 /\ UNCHANGED pending
\* systick_timer_off leaves the counter where it is.
TimerOff == running' = FALSE /\ tick_ms' = 0
            /\ UNCHANGED <<value, countflag, pending>>

\* The application between its calls.
Control ==
  /\ At("idle")
  /\ \/ tick_ms # 0 /\ (Start \/ Stop \/ Reset)
     \/ TimerOn \/ TimerOff
  /\ UNCHANGED <<client, sleep_count, cbs, timeState, interrupt, main,
                 elapsed, since>>

-----------------------------------------------------------------------------
(* Sleeping                                                                *)

\* systick_timer_on(1) and systick_start, where they are needed.
EnsureRunning ==
  /\ running' = TRUE /\ tick_ms' = 1
  /\ IF running THEN UNCHANGED <<value, countflag>> ELSE Cleared
  /\ UNCHANGED pending

Msleep ==
  \E n \in SleepTicks :
    /\ Calls("sleeps", "sleep", [op |-> "msleep", ticks |-> n])
    /\ sleep_count' = n
    /\ EnsureRunning
    /\ elapsed' = 0
    /\ UNCHANGED masked

\* usleep(n * 1000 + us) or, when short, usleep_short(us): it first reads the
\* counter, then clears the flag.
Usleep ==
  \E n \in SleepTicks, c \in SleepCycles, short \in BOOLEAN :
    /\ short => running /\ n = 0
    /\ Calls("sleeps", "clear",
             [op |-> "usleep", ticks |-> n, cycles |-> c, short |-> short,
              start |-> value, end |-> 0, warm |-> running])
    /\ elapsed' = 0
    /\ UNCHANGED <<counter, sleep_count, masked>>

\* systick_counted_to_zero clears the flag it reads; then usleep sleeps the
\* milliseconds or sees that the timer runs.
KeepFlag == UNCHANGED countflag
EraseFlag == countflag' = FALSE
UsleepStart ==
  /\ At("clear")
  /\ EraseFlag
  /\ IF call.short
       THEN UNCHANGED <<running, tick_ms, value>>
       ELSE /\ running' = TRUE /\ tick_ms' = 1
            /\ value' = IF running THEN value ELSE 0
  /\ UNCHANGED pending
  /\ sleep_count' = IF call.ticks > 0 THEN call.ticks ELSE sleep_count
  /\ Goto(IF call.ticks > 0 THEN "sleep" ELSE "rest")
  /\ UNCHANGED elapsed

Wake ==
  /\ At("sleep") /\ sleep_count = 0
  /\ Goto(IF call.op = "msleep" THEN "slept" ELSE "rest")
  /\ UNCHANGED <<counter, sleep_count, elapsed>>

\* The counter goes down: past zero when more cycles are asked than are left.
UsleepRest ==
  /\ At("rest")
  /\ LET c == call.cycles  start == call.start IN
     IF c > start
       THEN pc' = "wrap" /\ call' = [call EXCEPT !.end = Reload - (c - start)]
       ELSE pc' = "wait" /\ call' = [call EXCEPT !.end = start - c]
  /\ UNCHANGED <<counter, sleep_count, masked, elapsed>>

\* end is unsigned: below zero it is larger than every value.
ReachedEnd == call.end < 0 \/ value <= call.end

PollWrap ==
  /\ At("wrap") /\ countflag
  /\ countflag' = FALSE
  /\ Goto("tail")
  /\ UNCHANGED <<running, tick_ms, value, pending, sleep_count, elapsed>>

PollTail ==
  /\ At("tail") /\ ReachedEnd
  /\ Goto("slept")
  /\ UNCHANGED <<counter, sleep_count, elapsed>>

PollWait ==
  /\ At("wait") /\ (ReachedEnd \/ countflag)
  /\ countflag' = (countflag /\ ReachedEnd)
  /\ Goto("slept")
  /\ UNCHANGED <<running, tick_ms, value, pending, sleep_count, elapsed>>

SleepReturns ==
  /\ At("slept")
  /\ pc' = "idle" /\ call' = NoCall
  /\ elapsed' = 0
  /\ UNCHANGED <<counter, sleep_count, masked>>

Sleeping ==
  /\ \/ Msleep \/ Usleep \/ UsleepStart \/ Wake \/ UsleepRest
     \/ PollWrap \/ PollTail \/ PollWait \/ SleepReturns
  /\ UNCHANGED <<client, cbs, timeState, interrupt, since>>

-----------------------------------------------------------------------------
(* Callbacks.  The slot is taken first, its period and countdown follow.    *)

AddCall ==
  \/ \E c \in UserCallbacks, p \in Periods :
       /\ ~Registered(c)
       /\ Calls("callbacks", "find",
                [op |-> "add", callback |-> c, period |-> p, i |-> 1])
       /\ UNCHANGED time_configured
  \/ /\ ~time_configured   \* time_init
     /\ Calls("time", "find",
              [op |-> "add", callback |-> "time_track", period |-> 1, i |-> 1])
     /\ time_configured' = TRUE

AddFind ==
  /\ At("find")
  /\ \/ /\ call.i > Slots   \* -EBUSY
        /\ pc' = "idle" /\ call' = NoCall
        /\ UNCHANGED cbs
     \/ /\ call.i <= Slots /\ cbs[call.i].callback # NoCallback
        /\ call' = [call EXCEPT !.i = @ + 1]
        /\ UNCHANGED <<cbs, pc>>
     \/ /\ call.i <= Slots /\ cbs[call.i].callback = NoCallback
        /\ cbs' = [cbs EXCEPT ![call.i].callback = call.callback]
        /\ pc' = "period" /\ UNCHANGED call
  /\ UNCHANGED <<since, masked>>

AddPeriod ==
  /\ At("period")
  /\ cbs' = [cbs EXCEPT ![call.i].period = call.period]
  /\ Goto("countdown")
  /\ UNCHANGED since

AddCountdown ==
  /\ At("countdown")
  /\ cbs' = [cbs EXCEPT ![call.i].countdown = call.period]
  /\ since' = [since EXCEPT ![call.callback] = 0]
  /\ pc' = "idle" /\ call' = NoCall
  /\ UNCHANGED masked

Remove ==
  \E c \in UserCallbacks :
    /\ At("idle") /\ client = "callbacks"
    /\ cbs' = Removed(c, cbs)
    /\ UNCHANGED <<since, main>>

Registering ==
  /\ \/ AddCall /\ UNCHANGED <<cbs, since, masked>>
     \/ (AddFind \/ AddPeriod \/ AddCountdown \/ Remove)
        /\ UNCHANGED time_configured
  /\ UNCHANGED <<client, counter, sleep_count, time, time_lock, clock,
                 interrupt, elapsed>>

-----------------------------------------------------------------------------
(* Time                                                                    *)

\* set_time, and set_time_and_get_difference as far as the time goes.
SetCall == \E t \in Times :
  Calls("time", "lock", [op |-> "set", to |-> t]) /\ UNCHANGED <<time, time_lock, clock, masked>>

\* get_time reads under the lock when the caller masked interrupts and
\* without it when they are enabled.
GetCall == \E irqsOff \in BOOLEAN :
  /\ Calls("time", IF irqsOff THEN "lock" ELSE "seconds",
           [op |-> "get", locked |-> irqsOff, from |-> clock, seconds |-> 0, msec |-> 0])
  /\ masked' = irqsOff
  /\ UNCHANGED <<time, time_lock, clock>>

\* sync_lock_test_and_set enables interrupts when it is done.
TakeLock ==
  /\ At("lock") /\ ~time_lock
  /\ time_lock' = TRUE /\ masked' = FALSE
  /\ pc' = "seconds" /\ UNCHANGED <<call, time, clock>>

SetSeconds ==
  /\ At("seconds") /\ call.op = "set"
  /\ time' = [time EXCEPT !.seconds = call.to.seconds]
  /\ Goto("msec")
  /\ UNCHANGED <<time_lock, clock>>

SetMsec ==
  /\ At("msec") /\ call.op = "set"
  /\ time' = [time EXCEPT !.msec = call.to.msec]
  /\ clock' = Total(call.to)
  /\ Goto("unlock")
  /\ UNCHANGED time_lock

GetSeconds ==
  /\ At("seconds") /\ call.op = "get"
  /\ call' = [call EXCEPT !.seconds = time.seconds]
  /\ pc' = "msec" /\ UNCHANGED <<masked, time, time_lock, clock>>

GetMsec ==
  /\ At("msec") /\ call.op = "get"
  /\ call' = [call EXCEPT !.msec = time.msec]
  /\ pc' = IF call.locked THEN "unlock" ELSE "got"
  /\ UNCHANGED <<masked, time, time_lock, clock>>

Unlock ==
  /\ At("unlock")
  /\ time_lock' = FALSE
  /\ Goto("got")
  /\ UNCHANGED <<time, clock>>

TimeReturns ==
  /\ At("got")
  /\ pc' = "idle" /\ call' = NoCall
  /\ UNCHANGED <<masked, time, time_lock, clock>>

TimeKeeping ==
  /\ \/ SetCall \/ GetCall \/ TakeLock \/ SetSeconds \/ SetMsec
     \/ GetSeconds \/ GetMsec \/ Unlock \/ TimeReturns
  /\ UNCHANGED <<client, counter, sleep_count, cbs, time_configured,
                 interrupt, elapsed, since>>

Next == Cycle \/ SysTick_Handler \/ Control \/ Sleeping \/ Registering \/ TimeKeeping

Spec == Init /\ [][Next]_vars

\* The counter counts, the interrupt runs to its end, and between two
\* interrupts the main loop gets on with the call it is in: a poll takes a
\* few instructions and sees a condition that keeps coming back.
FairSpec ==
  /\ Spec
  /\ WF_vars(Cycle) /\ WF_vars(SysTick_Handler)
  /\ SF_vars(pc # "idle" /\ (Sleeping \/ Registering \/ TimeKeeping))

-----------------------------------------------------------------------------
(* Properties                                                              *)

\* Every variable has the values of its C type, within the bounds.
TypeOK ==
  /\ client \in Clients /\ running \in BOOLEAN /\ tick_ms \in 0 .. 1
  /\ value \in 0 .. Reload /\ countflag \in BOOLEAN /\ pending \in BOOLEAN
  /\ sleep_count \in SleepTicks \cup Nat
  /\ cbs \in [1 .. Slots -> [callback : Callbacks \cup {NoCallback},
                             period : 0 .. Wrap - 1, countdown : 0 .. Wrap - 1]]
  /\ time \in [seconds : 0 .. MaxSec, msec : 0 .. MsecPerSec]
  /\ time_lock \in BOOLEAN /\ time_configured \in BOOLEAN
  /\ handler \in {"off", "loop", "counted", "rolled"} /\ slot \in 1 .. Slots + 1
  /\ masked \in BOOLEAN /\ elapsed \in 0 .. MaxElapsed
  /\ since \in [Callbacks -> 0 .. Wrap]

Least ==
  (IF call.ticks > 0 THEN (call.ticks - 1) * (Reload + 1) ELSE 0)
  + (IF call.op = "usleep" THEN call.cycles ELSE 0)

\* A sleep begun while the timer runs lasts at least the time asked for, less
\* the part of the tick that msleep forgets (systick.c:290): never less than
\* the other ticks and, for usleep, the cycles below the millisecond, wherever
\* in the tick it is called and whatever ticks come between the read of the
\* counter, the clearing of the flag and the polls.
NotShort ==
  pc = "slept" /\ (call.op = "usleep" => call.warm) => elapsed >= Least

\* Every sleep ends: the counter is set going if it was not, and neither the
\* flag nor the end value is waited for in vain (systick.c:286, 335, 361).
SleepsEnd == client = "sleeps" /\ pc # "idle" ~> pc = "idle"

Adding(c) == call.op = "add" /\ call.callback = c
PeriodOf(c) ==
  (CHOOSE s \in {cbs[i] : i \in 1 .. Slots} : s.callback = c).period

\* A registered callback is called every period ticks, never later and never
\* earlier, whatever the others do: add and remove, also from inside the
\* interrupt, disturb only the callback they are about (systick.c:64, 82, 99).
OnPace ==
  /\ [](handler = "off" => \A c \in Callbacks :
          Registered(c) /\ ~Adding(c) => since[c] < PeriodOf(c))
  /\ [][\A c \in Callbacks :
          Registered(c) /\ ~Adding(c) /\ since'[c] < since[c]
            => since[c] = PeriodOf(c)]_vars

\* get_time never returns a time still to come.  With the lock (time.c:141) it
\* is not older than the call either; without it (time.c:136) the seconds and
\* the milliseconds may be of two different seconds, and the result is less
\* than one second older than the call.
ReadNear ==
  pc = "got" /\ call.op = "get" =>
    LET read == Total([seconds |-> call.seconds, msec |-> call.msec]) IN
      /\ read <= clock
      /\ call.from - (IF call.locked THEN 0 ELSE MsecPerSec - 1) <= read
=============================================================================
