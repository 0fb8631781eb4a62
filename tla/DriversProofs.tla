--------------------------- MODULE DriversProofs ---------------------------
(***************************************************************************)
(* Proofs about what the other drivers wait on, for every value of the     *)
(* constants.  Of Clock: what get_time_diff computes, how far get_time can *)
(* be from the time it is called at, the pace of the callbacks, and how    *)
(* long a sleep lasts.  Of Eeprom: that driver, interrupt handler, bus and *)
(* chip stay in step, and that together they are a store (EepromStore).    *)
(***************************************************************************)
EXTENDS MCDrivers, TLAPS

AnyTime == [seconds : Nat, msec : 0 .. MsecPerSec - 1]

\* The gap from an earlier second to a later one is a normal time and makes
\* up the difference (time.c:175-179, 195-199).
LEMMA GapRight ==
  ASSUME NEW late \in AnyTime, NEW early \in AnyTime,
         early.seconds < late.seconds
  PROVE  /\ Gap(late, early) \in AnyTime
         /\ Total(early) + Total(Gap(late, early)) = Total(late)
<1> DEFINE M == MsecPerSec
           d == late.seconds - early.seconds
<1>1. M \in Nat \ {0}
  BY ClockAssumption
<1>2. /\ late.seconds \in Nat /\ late.msec \in 0 .. M - 1
      /\ early.seconds \in Nat /\ early.msec \in 0 .. M - 1
  BY DEF AnyTime
<1>3. d \in Nat \ {0}
  BY <1>2
<1>4. /\ late.seconds * M = early.seconds * M + d * M
      /\ d * M = (d - 1) * M + M
  BY <1>1, <1>2, <1>3
<1>5. early.seconds * M \in Nat /\ d * M \in Nat /\ (d - 1) * M \in Int
  BY <1>1, <1>2, <1>3
<1>6. CASE late.msec + M - early.msec >= M
  <2>1. Gap(late, early)
          = [seconds |-> d, msec |-> late.msec + M - early.msec - M]
    BY <1>1, <1>2, <1>3, <1>6 DEF Gap
  <2>2. Gap(late, early) \in AnyTime
    BY <1>1, <1>2, <1>3, <1>6, <2>1 DEF AnyTime
  <2>3. Total(Gap(late, early)) = d * M + (late.msec - early.msec)
    BY <1>1, <1>2, <1>3, <2>1 DEF Total
  <2> HIDE DEF d
  <2> QED
    BY <1>1, <1>2, <1>4, <1>5, <2>2, <2>3 DEF Total
<1>7. CASE late.msec + M - early.msec < M
  <2>1. Gap(late, early)
          = [seconds |-> d - 1, msec |-> late.msec + M - early.msec]
    BY <1>1, <1>2, <1>3, <1>7 DEF Gap
  <2>2. Gap(late, early) \in AnyTime
    BY <1>1, <1>2, <1>3, <1>7, <2>1 DEF AnyTime
  <2>3. Total(Gap(late, early)) = (d - 1) * M + (late.msec + M - early.msec)
    BY <1>1, <1>2, <1>3, <2>1 DEF Total
  <2> HIDE DEF d
  <2> QED
    BY <1>1, <1>2, <1>4, <1>5, <2>2, <2>3 DEF Total
<1> QED
  BY <1>1, <1>2, <1>6, <1>7

\* get_time_diff returns the sign and the size of the difference, as a time
\* whose milliseconds are below a second, whatever the two times are.
THEOREM GetTimeDiffRight ==
  ASSUME NEW t1 \in AnyTime, NEW t2 \in AnyTime
  PROVE  LET diff == GetTimeDiff(t1, t2) IN
           /\ diff.size \in AnyTime
           /\ diff.sign = -1 => Total(t1) + Total(diff.size) = Total(t2)
           /\ diff.sign = 0 => t1 = t2
           /\ diff.sign = 1 => Total(t2) + Total(diff.size) = Total(t1)
           /\ diff.sign \in {-1, 0, 1}
<1>1. MsecPerSec \in Nat \ {0}
  BY ClockAssumption
<1>2. /\ t1.seconds \in Nat /\ t1.msec \in 0 .. MsecPerSec - 1
      /\ t2.seconds \in Nat /\ t2.msec \in 0 .. MsecPerSec - 1
      /\ t1 = [seconds |-> t1.seconds, msec |-> t1.msec]
      /\ t2 = [seconds |-> t2.seconds, msec |-> t2.msec]
  BY DEF AnyTime
<1>3. CASE t1.seconds < t2.seconds
  <2>1. GetTimeDiff(t1, t2) = [sign |-> -1, size |-> Gap(t2, t1)]
    BY <1>2, <1>3 DEF GetTimeDiff
  <2> QED
    BY <1>3, <2>1, GapRight
<1>4. CASE t1.seconds > t2.seconds
  <2>1. GetTimeDiff(t1, t2) = [sign |-> 1, size |-> Gap(t1, t2)]
    BY <1>2, <1>4 DEF GetTimeDiff
  <2>2. t2.seconds < t1.seconds
    BY <1>2, <1>4
  <2> QED
    BY <2>1, <2>2, GapRight
<1>5. CASE t1.seconds = t2.seconds
  <2> DEFINE diff == GetTimeDiff(t1, t2)
  <2>1. /\ diff.sign = IF t1.msec < t2.msec THEN -1
                       ELSE IF t1.msec > t2.msec THEN 1 ELSE 0
        /\ diff.size = [seconds |-> 0,
                        msec |-> IF t1.msec < t2.msec THEN t2.msec - t1.msec
                                                      ELSE t1.msec - t2.msec]
    BY <1>2, <1>5 DEF GetTimeDiff
  <2>2. diff.size \in AnyTime
    BY <1>1, <1>2, <2>1 DEF AnyTime
  <2>3. Total(diff.size) = diff.size.msec
    BY <1>1, <1>2, <2>1 DEF Total
  <2>4. t1.seconds * MsecPerSec \in Nat
    BY <1>1, <1>2
  <2>5. Total(t1) = t1.seconds * MsecPerSec + t1.msec
        /\ Total(t2) = t1.seconds * MsecPerSec + t2.msec
    BY <1>5 DEF Total
  <2> HIDE DEF diff
  <2> DEFINE Right == /\ diff.size \in AnyTime
                      /\ diff.sign = -1 => Total(t1) + Total(diff.size) = Total(t2)
                      /\ diff.sign = 0 => t1 = t2
                      /\ diff.sign = 1 => Total(t2) + Total(diff.size) = Total(t1)
                      /\ diff.sign \in {-1, 0, 1}
  <2>6. ASSUME t1.msec < t2.msec PROVE Right
    BY <1>2, <2>1, <2>2, <2>3, <2>4, <2>5, <2>6
  <2>7. ASSUME t1.msec > t2.msec PROVE Right
    BY <1>2, <2>1, <2>2, <2>3, <2>4, <2>5, <2>7
  <2>8. ASSUME t1.msec = t2.msec PROVE Right
    BY <1>2, <1>5, <2>1, <2>2, <2>8
  <2>9. Right
    BY <1>2, <2>6, <2>7, <2>8
  <2> QED
    BY <2>9 DEF diff
<1> QED
  BY <1>2, <1>3, <1>4, <1>5

-----------------------------------------------------------------------------
(* get_time against time_track and set_time                                *)

TimePcs == {"lock", "seconds", "msec", "unlock", "got"}
SetCalls == [op : {"set"}, to : Times]
GetCalls == [op : {"get"}, locked : BOOLEAN, from : Nat, seconds : Nat,
             msec : Nat]
Tracking == handler \in {"counted", "rolled"}
Locking == call.op = "set" \/ call.locked
Holding == pc \in {"seconds", "msec", "unlock"} /\ Locking
HalfSet == pc = "msec" /\ call.op = "set"
Read == call.seconds * MsecPerSec + call.msec

TimeType ==
  /\ time \in [seconds : Nat, msec : Nat]
  /\ clock \in Nat
  /\ time_lock \in BOOLEAN
  /\ handler \in {"off", "loop", "counted", "rolled"}
  /\ pc \in TimePcs => call \in SetCalls \cup GetCalls
  /\ pc \in {"lock", "unlock"} => Locking

\* One holder at a time.
LockHeld ==
  /\ time_lock <=> Holding \/ Tracking
  /\ ~(Holding /\ Tracking)

\* What the memory shows of the time.
TimeShown ==
  /\ time.msec < MsecPerSec \/ (handler = "counted" /\ time.msec = MsecPerSec)
  /\ handler = "rolled" => time.msec = 0
  /\ ~HalfSet /\ handler # "rolled" => Total(time) = clock
  /\ ~HalfSet /\ handler = "rolled" => Total(time) + MsecPerSec = clock
  /\ HalfSet => time.seconds = call.to.seconds

\* What get_time has read so far.
GetSoFar ==
  pc \in TimePcs /\ call.op = "get" =>
    /\ call.from <= clock
    /\ pc = "msec" =>
         /\ call.seconds <= time.seconds
         /\ call.locked => call.seconds = time.seconds
         /\ ~call.locked => call.from <= call.seconds * MsecPerSec + MsecPerSec - 1
    /\ pc \in {"unlock", "got"} =>
         /\ Read <= clock
         /\ call.from - (IF call.locked THEN 0 ELSE MsecPerSec - 1) <= Read

TimeInv == TimeType /\ LockHeld /\ TimeShown /\ GetSoFar

LEMMA Multiples ==
  ASSUME NEW a \in Nat, NEW b \in Nat, NEW m \in Nat
  PROVE  /\ a * m \in Nat
         /\ (a + 1) * m = a * m + m
         /\ a <= b => a * m <= b * m
  OBVIOUS

LEMMA TimeInvInit == Init => TimeInv
<1> SUFFICES ASSUME Init PROVE TimeInv
  OBVIOUS
<1>1. /\ pc = "idle" /\ handler = "off" /\ time_lock = FALSE /\ clock = 0
      /\ time = [seconds |-> 0, msec |-> 0] /\ time.seconds = 0 /\ time.msec = 0
  BY DEF Init
<1>2. MsecPerSec \in Nat \ {0} /\ 0 * MsecPerSec = 0
  BY ClockAssumption
<1>3. Total(time) = 0
  BY <1>1, <1>2 DEF Total
<1>4. TimeType /\ LockHeld /\ GetSoFar
  BY <1>1 DEF TimeType, LockHeld, GetSoFar, Holding, Locking, Tracking, TimePcs
<1>5. TimeShown
  BY <1>1, <1>2, <1>3 DEF TimeShown, HalfSet
<1> QED
  BY <1>4, <1>5 DEF TimeInv

\* A step elsewhere: no call about the time is going on.
LEMMA ElsewhereKeepsTime ==
  ASSUME TimeInv, pc \notin TimePcs, pc' \notin TimePcs,
         UNCHANGED <<time, time_lock, clock, handler>>
  PROVE  TimeInv'
  BY DEF TimeInv, TimeType, LockHeld, TimeShown, GetSoFar, Holding, Locking,
     Tracking, HalfSet, Total, TimePcs

LEMMA IdleKeepsTime ==
  ASSUME TimeInv, UNCHANGED <<time, time_lock, clock, handler, pc, call>>
  PROVE  TimeInv'
  BY DEF TimeInv, TimeType, LockHeld, TimeShown, GetSoFar, Holding, Locking,
     Tracking, HalfSet, Total, Read, TimePcs

\* Time that goes on does not spoil what get_time has read.
LEMMA ReadSurvives ==
  ASSUME TimeInv, UNCHANGED <<pc, call>>,
         clock' \in Nat, clock <= clock',
         time'.seconds \in Nat, time.seconds <= time'.seconds,
         Holding => time'.seconds = time.seconds
  PROVE  GetSoFar'
<1>1. /\ time.seconds \in Nat /\ clock \in Nat
      /\ pc \in TimePcs => call \in SetCalls \cup GetCalls
      /\ MsecPerSec \in Nat
  BY ClockAssumption DEF TimeInv, TimeType
<1> SUFFICES ASSUME pc \in TimePcs, call.op = "get"
             PROVE  GetSoFar'
  BY DEF GetSoFar
<1>2. call.from \in Nat /\ call.seconds \in Nat /\ call.msec \in Nat
      /\ call.locked \in BOOLEAN
  BY <1>1 DEF SetCalls, GetCalls
<1>3. call.seconds * MsecPerSec \in Nat /\ Read \in Nat
  BY <1>1, <1>2, Multiples DEF Read
<1>4. Read' = Read
  BY DEF Read
<1>5. call.locked /\ pc = "msec" => time'.seconds = time.seconds
  BY DEF Holding, Locking
<1> QED
  BY <1>1, <1>2, <1>3, <1>4, <1>5 DEF TimeInv, GetSoFar

\* The interrupt: it takes the lock only when nobody holds it, and counts one.
LEMMA HandlerKeepsTime == TimeInv /\ SysTick_Handler => TimeInv'
<1> SUFFICES ASSUME TimeInv, SysTick_Handler PROVE TimeInv'
  OBVIOUS
<1>1. MsecPerSec \in Nat \ {0} /\ UNCHANGED <<pc, call>>
  BY ClockAssumption DEF SysTick_Handler, TickStart, TickSlot, TickReturn,
     TimeTrack, main
<1>2. /\ time \in [seconds : Nat, msec : Nat] /\ clock \in Nat
      /\ time.seconds \in Nat /\ time.msec \in Nat
      /\ time.seconds * MsecPerSec \in Nat
      /\ (time.seconds + 1) * MsecPerSec = time.seconds * MsecPerSec + MsecPerSec
  <2>1. time \in [seconds : Nat, msec : Nat] /\ clock \in Nat
    BY DEF TimeInv, TimeType
  <2> QED
    BY <1>1, <2>1, Multiples
<1>3. Holding' = Holding /\ HalfSet' = HalfSet /\ Locking' = Locking
  BY <1>1 DEF Holding, HalfSet, Locking
<1>4. ASSUME UNCHANGED timeState, handler \in {"off", "loop"},
             handler' \in {"off", "loop"}
      PROVE  TimeInv'
  <2>1. UNCHANGED <<time, time_lock, clock>>
    BY <1>4 DEF timeState
  <2>2. GetSoFar'
    BY <1>1, <1>2, <2>1, ReadSurvives
  <2>3. TimeType' /\ LockHeld'
    BY <1>1, <1>3, <1>4, <2>1 DEF TimeInv, TimeType, LockHeld, Tracking
  <2>4. Total(time)' = Total(time)
    BY <2>1 DEF Total
  <2>5. TimeShown'
    BY <1>1, <1>3, <1>4, <2>1, <2>4 DEF TimeInv, TimeShown
  <2> QED
    BY <2>2, <2>3, <2>5 DEF TimeInv
<1>5. CASE TickStart
  BY <1>4, <1>5 DEF TickStart
<1>6. CASE TickSlot
  <2>1. CASE UNCHANGED timeState
    <3>1. handler = "loop" /\ handler' = "loop"
      BY <1>6, <2>1 DEF TickSlot, NextSlot, TrackLockedOut, timeState
    <3> QED
      BY <1>4, <2>1, <3>1
  <2>2. CASE ~UNCHANGED timeState
    <3>1. /\ handler = "loop" /\ handler' = "counted"
          /\ ~time_lock /\ time_lock' = TRUE
          /\ time' = [time EXCEPT !.msec = @ + 1] /\ clock' = clock + 1
      BY <1>6, <2>2 DEF TickSlot, TrackLockedOut, timeState
    <3>2. /\ time'.seconds = time.seconds /\ time'.msec = time.msec + 1
          /\ time' \in [seconds : Nat, msec : Nat]
      BY <1>2, <3>1
    <3>3. ~Holding /\ ~HalfSet
      <4>1. ~Holding
        BY <3>1 DEF TimeInv, LockHeld
      <4> QED
        BY <4>1 DEF Holding, HalfSet, Locking
    <3>4. time.msec < MsecPerSec /\ Total(time) = clock
      BY <3>1, <3>3 DEF TimeInv, TimeShown
    <3>5. Total(time)' = clock'
      BY <1>2, <3>1, <3>2, <3>4 DEF Total
    <3>6. TimeType' /\ LockHeld'
      BY <1>1, <1>2, <1>3, <3>1, <3>2, <3>3
         DEF TimeInv, TimeType, LockHeld, Tracking
    <3>7. TimeShown'
      BY <1>3, <3>3, <1>1, <1>2, <3>1, <3>2, <3>4, <3>5 DEF TimeShown
    <3>8. GetSoFar'
      BY <1>1, <1>2, <3>1, <3>2, ReadSurvives
    <3> QED
      BY <3>6, <3>7, <3>8 DEF TimeInv
  <2> QED
    BY <2>1, <2>2
<1>7. CASE TickReturn
  BY <1>4, <1>7 DEF TickReturn
<1>8. CASE TimeTrack
  <2>1. UNCHANGED clock
    BY <1>8 DEF TimeTrack
  <2>2. handler \in {"counted", "rolled"}
    BY <1>8 DEF TimeTrack, TrackRollMsec, TrackRollSeconds, TrackRelease
  <2>3. ~Holding /\ ~HalfSet /\ time_lock
    <3>1. ~Holding /\ time_lock
      BY <2>2 DEF TimeInv, LockHeld, Tracking
    <3> QED
      BY <3>1 DEF Holding, HalfSet, Locking
  <2>4. CASE TrackRollMsec
    <3>1. /\ handler = "counted" /\ handler' = "rolled" /\ UNCHANGED time_lock
          /\ time.msec = MsecPerSec /\ time'.msec = 0
          /\ time'.seconds = time.seconds /\ time' \in [seconds : Nat, msec : Nat]
      BY <1>1, <1>2, <2>4 DEF TrackRollMsec, SecondFull, TimeInv, TimeShown
    <3>2. Total(time) = clock
      BY <2>3, <3>1 DEF TimeInv, TimeShown
    <3>3. Total(time)' + MsecPerSec = clock'
      BY <1>1, <1>2, <2>1, <3>1, <3>2 DEF Total
    <3>4. TimeType' /\ LockHeld'
      BY <1>1, <1>2, <1>3, <2>1, <2>3, <3>1
         DEF TimeInv, TimeType, LockHeld, Tracking
    <3>5. TimeShown'
      BY <1>3, <2>3, <1>1, <3>1, <3>3 DEF TimeShown
    <3>6. GetSoFar'
      BY <1>1, <1>2, <2>1, <3>1, ReadSurvives
    <3> QED
      BY <3>4, <3>5, <3>6 DEF TimeInv
  <2>5. CASE TrackRollSeconds
    <3>1. /\ handler = "rolled" /\ handler' = "counted" /\ UNCHANGED time_lock
          /\ time.msec = 0 /\ time'.msec = 0
          /\ time'.seconds = time.seconds + 1
          /\ time' \in [seconds : Nat, msec : Nat]
      BY <1>2, <2>5 DEF TrackRollSeconds, TimeInv, TimeShown
    <3>2. Total(time) + MsecPerSec = clock
      BY <2>3, <3>1 DEF TimeInv, TimeShown
    <3>3. Total(time)' = clock'
      BY <1>1, <1>2, <2>1, <3>1, <3>2 DEF Total
    <3>4. TimeType' /\ LockHeld'
      BY <1>1, <1>2, <1>3, <2>1, <2>3, <3>1
         DEF TimeInv, TimeType, LockHeld, Tracking
    <3>5. TimeShown'
      BY <1>3, <2>3, <1>1, <3>1, <3>3 DEF TimeShown
    <3>6. GetSoFar'
      BY <1>1, <1>2, <2>1, <2>3, <3>1, ReadSurvives
    <3> QED
      BY <3>4, <3>5, <3>6 DEF TimeInv
  <2>6. CASE TrackRelease
    <3>1. /\ handler = "counted" /\ handler' = "loop" /\ time_lock' = FALSE
          /\ UNCHANGED time /\ time.msec < MsecPerSec
      BY <1>1, <1>2, <2>6 DEF TrackRelease, SecondFull, NextSlot
    <3>2. Total(time) = clock /\ Total(time)' = Total(time)
      BY <2>3, <3>1 DEF TimeInv, TimeShown, Total
    <3>3. TimeType' /\ LockHeld'
      BY <1>1, <1>3, <2>1, <2>3, <3>1 DEF TimeInv, TimeType, LockHeld, Tracking
    <3>4. TimeShown'
      BY <1>3, <2>3, <2>1, <3>1, <3>2 DEF TimeShown
    <3>5. GetSoFar'
      BY <1>1, <1>2, <2>1, <3>1, ReadSurvives
    <3> QED
      BY <3>3, <3>4, <3>5 DEF TimeInv
  <2> QED
    BY <1>8, <2>4, <2>5, <2>6 DEF TimeTrack
<1> QED
  BY <1>5, <1>6, <1>7, <1>8 DEF SysTick_Handler

\* The main loop: set_time and get_time take the lock before they touch the
\* time, except for the get_time that takes none and does not write.
LEMMA TimeKeepingKeepsTime == TimeInv /\ TimeKeeping => TimeInv'
<1> SUFFICES ASSUME TimeInv, TimeKeeping PROVE TimeInv'
  OBVIOUS
<1>1. MsecPerSec \in Nat \ {0} /\ handler = "off" /\ UNCHANGED handler
  BY ClockAssumption DEF TimeKeeping, SetCall, GetCall, TakeLock, SetSeconds,
     SetMsec, GetSeconds, GetMsec, Unlock, TimeReturns, Calls, At, CpuFree,
     interrupt
<1>2. /\ time \in [seconds : Nat, msec : Nat] /\ clock \in Nat
      /\ time.seconds \in Nat /\ time.msec \in Nat
      /\ time.seconds * MsecPerSec \in Nat
      /\ time.msec < MsecPerSec
  <2>1. /\ time \in [seconds : Nat, msec : Nat] /\ clock \in Nat
        /\ time.msec < MsecPerSec
    BY <1>1 DEF TimeInv, TimeType, TimeShown
  <2> QED
    BY <1>1, <2>1, Multiples
<1>3. ~HalfSet => Total(time) = clock
  BY <1>1 DEF TimeInv, TimeShown
<1>4. time_lock <=> Holding
  BY <1>1 DEF TimeInv, LockHeld, Tracking
<1>5. /\ time_lock \in BOOLEAN
      /\ pc \in TimePcs => call \in SetCalls \cup GetCalls
      /\ pc \in {"lock", "unlock"} => Locking
      /\ GetSoFar
  BY DEF TimeInv, TimeType
<1>6. ASSUME UNCHANGED <<time, clock>>, ~HalfSet, ~HalfSet',
             time_lock' <=> Holding', time_lock' \in BOOLEAN,
             pc' \in TimePcs => call' \in SetCalls \cup GetCalls,
             pc' \in {"lock", "unlock"} => Locking',
             GetSoFar'
      PROVE  TimeInv'
  <2>1. Total(time)' = Total(time)
    BY <1>6 DEF Total
  <2>2. TimeType' /\ LockHeld'
    BY <1>1, <1>2, <1>6 DEF TimeType, LockHeld, Tracking
  <2>3. TimeShown'
    BY <1>1, <1>2, <1>3, <1>6, <2>1 DEF TimeShown
  <2> QED
    BY <1>6, <2>2, <2>3 DEF TimeInv
<1>7. CASE SetCall
  <2>1. PICK t \in Times : pc = "idle" /\ pc' = "lock"
                           /\ call' = [op |-> "set", to |-> t]
                           /\ UNCHANGED <<time, time_lock, clock>>
    BY <1>7 DEF SetCall, Calls, At
  <2>2. call' \in SetCalls /\ call'.op = "set"
    BY <2>1 DEF SetCalls
  <2>3. ~Holding /\ ~Holding' /\ ~HalfSet /\ ~HalfSet' /\ Locking'
    BY <2>1, <2>2 DEF Holding, HalfSet, Locking
  <2>4. GetSoFar'
    BY <2>2 DEF GetSoFar
  <2> QED
    BY <1>4, <1>5, <1>6, <2>1, <2>2, <2>3, <2>4
<1>8. CASE GetCall
  <2>1. PICK off \in BOOLEAN :
          /\ pc = "idle" /\ pc' = IF off THEN "lock" ELSE "seconds"
          /\ call' = [op |-> "get", locked |-> off, from |-> clock,
                      seconds |-> 0, msec |-> 0]
          /\ UNCHANGED <<time, time_lock, clock>>
    BY <1>8 DEF GetCall, Calls, At
  <2>2. call' \in GetCalls /\ call'.op = "get" /\ call'.from = clock
        /\ call'.locked = off
    BY <1>2, <2>1 DEF GetCalls
  <2>3. GetSoFar'
    BY <1>2, <2>1, <2>2 DEF GetSoFar
  <2>4. ~Holding /\ ~HalfSet /\ ~HalfSet' /\ pc' # "unlock"
    BY <2>1, <2>2 DEF Holding, HalfSet
  <2>5. ~Holding' /\ (pc' = "lock" => Locking')
    BY <2>1, <2>2 DEF Holding, Locking
  <2> QED
    BY <1>4, <1>5, <1>6, <2>1, <2>2, <2>3, <2>4, <2>5
<1>9. CASE TakeLock
  <2>1. /\ pc = "lock" /\ pc' = "seconds" /\ ~time_lock /\ time_lock' = TRUE
        /\ UNCHANGED <<call, time, clock>>
        /\ call \in SetCalls \cup GetCalls /\ Locking
    BY <1>5, <1>9 DEF TakeLock, At, TimePcs
  <2>2. Holding' /\ ~HalfSet /\ ~HalfSet' /\ Locking'
    BY <2>1 DEF Holding, HalfSet, Locking
  <2>3. GetSoFar'
    BY <1>5, <2>1 DEF GetSoFar, TimePcs
  <2> QED
    BY <1>6, <2>1, <2>2, <2>3
<1>10. CASE SetSeconds
  <2>1. /\ pc = "seconds" /\ pc' = "msec" /\ call.op = "set"
        /\ UNCHANGED <<call, time_lock, clock>>
        /\ time' = [time EXCEPT !.seconds = call.to.seconds]
        /\ call \in SetCalls
    BY <1>5, <1>10 DEF SetSeconds, At, Goto, TimePcs, SetCalls, GetCalls
  <2>2. /\ time' \in [seconds : Nat, msec : Nat] /\ time'.msec = time.msec
    BY <1>2, <2>1, ClockAssumption DEF SetCalls, Times
  <2>3. Holding /\ Holding' /\ HalfSet' /\ Locking'
    BY <2>1 DEF Holding, HalfSet, Locking
  <2>4. TimeType' /\ LockHeld'
    BY <1>1, <1>2, <1>4, <1>5, <2>1, <2>2, <2>3
       DEF TimeType, LockHeld, Tracking
  <2>5. TimeShown'
    BY <1>1, <1>2, <2>1, <2>2, <2>3 DEF TimeShown, SetCalls, Times
  <2>6. GetSoFar'
    BY <2>1 DEF GetSoFar
  <2> QED
    BY <2>4, <2>5, <2>6 DEF TimeInv
<1>11. CASE SetMsec
  <2>1. /\ pc = "msec" /\ pc' = "unlock" /\ call.op = "set"
        /\ UNCHANGED <<call, time_lock>>
        /\ time' = [time EXCEPT !.msec = call.to.msec]
        /\ clock' = Total(call.to)
        /\ call \in SetCalls
    BY <1>5, <1>11 DEF SetMsec, At, Goto, TimePcs, SetCalls, GetCalls
  <2>2. /\ time' \in [seconds : Nat, msec : Nat]
        /\ time'.seconds = call.to.seconds /\ time'.msec = call.to.msec
        /\ time'.seconds \in Nat /\ time'.msec \in 0 .. MsecPerSec - 1
    <3>1. HalfSet /\ time.seconds = call.to.seconds
      BY <2>1 DEF HalfSet, TimeInv, TimeShown
    <3>2. call.to \in Times
      BY <2>1 DEF SetCalls
    <3> QED
      BY <1>2, <2>1, <3>1, <3>2, ClockAssumption DEF Times
  <2>3. Total(time)' = clock' /\ clock' \in Nat
    <3>1. time'.seconds * MsecPerSec \in Nat
      BY <1>1, <2>2, Multiples
    <3> QED
      BY <1>1, <2>1, <2>2, <3>1 DEF Total
  <2>4. Holding /\ Holding' /\ ~HalfSet' /\ Locking'
    BY <2>1 DEF Holding, HalfSet, Locking
  <2>5. TimeType' /\ LockHeld'
    BY <1>1, <1>4, <1>5, <2>1, <2>2, <2>3, <2>4 DEF TimeType, LockHeld, Tracking
  <2>6. TimeShown'
    BY <1>1, <2>2, <2>3, <2>4 DEF TimeShown
  <2>7. GetSoFar'
    BY <2>1 DEF GetSoFar
  <2> QED
    BY <2>5, <2>6, <2>7 DEF TimeInv
<1>12. CASE GetSeconds
  <2>1. /\ pc = "seconds" /\ pc' = "msec" /\ call.op = "get"
        /\ call' = [call EXCEPT !.seconds = time.seconds]
        /\ UNCHANGED <<time, time_lock, clock>>
        /\ call \in GetCalls
    BY <1>5, <1>12 DEF GetSeconds, At, TimePcs, SetCalls, GetCalls
  <2>2. /\ call' \in GetCalls /\ call'.op = "get" /\ call'.from = call.from
        /\ call'.locked = call.locked /\ call'.seconds = time.seconds
        /\ call.from \in Nat
    BY <1>2, <2>1 DEF GetCalls
  <2>3. ~HalfSet /\ ~HalfSet' /\ (Holding' <=> Holding)
    BY <2>1, <2>2 DEF Holding, HalfSet, Locking
  <2>4. call.from <= clock
    BY <1>5, <2>1 DEF GetSoFar, TimePcs
  <2>5. clock = time.seconds * MsecPerSec + time.msec
    BY <1>3, <2>3 DEF Total
  <2>6. GetSoFar'
    BY <1>1, <1>2, <2>1, <2>2, <2>4, <2>5 DEF GetSoFar
  <2> QED
    BY <1>4, <1>5, <1>6, <2>1, <2>2, <2>3, <2>6
<1>13. CASE GetMsec
  <2>1. /\ pc = "msec" /\ call.op = "get"
        /\ pc' = IF call.locked THEN "unlock" ELSE "got"
        /\ call' = [call EXCEPT !.msec = time.msec]
        /\ UNCHANGED <<time, time_lock, clock>>
        /\ call \in GetCalls
    BY <1>5, <1>13 DEF GetMsec, At, TimePcs, SetCalls, GetCalls
  <2>2. /\ call' \in GetCalls /\ call'.op = "get" /\ call'.from = call.from
        /\ call'.locked = call.locked /\ call'.seconds = call.seconds
        /\ call'.msec = time.msec
        /\ call.from \in Nat /\ call.seconds \in Nat /\ call.locked \in BOOLEAN
    BY <1>2, <2>1 DEF GetCalls
  <2>3. ~HalfSet /\ ~HalfSet' /\ (Holding' <=> Holding)
        /\ (pc' = "unlock" => Locking')
    BY <2>1, <2>2 DEF Holding, HalfSet, Locking
  <2>4. /\ call.from <= clock /\ call.seconds <= time.seconds
        /\ call.locked => call.seconds = time.seconds
        /\ ~call.locked => call.from <= call.seconds * MsecPerSec + MsecPerSec - 1
    BY <1>5, <2>1 DEF GetSoFar, TimePcs
  <2>5. clock = time.seconds * MsecPerSec + time.msec
    BY <1>3, <2>3 DEF Total
  <2>6. call.seconds * MsecPerSec \in Nat
        /\ call.seconds * MsecPerSec <= time.seconds * MsecPerSec
    BY <1>1, <1>2, <2>2, <2>4, Multiples
  <2>7. Read' = call.seconds * MsecPerSec + time.msec
    BY <2>2 DEF Read
  <2>8. GetSoFar'
    BY <1>1, <1>2, <2>1, <2>2, <2>4, <2>5, <2>6, <2>7 DEF GetSoFar
  <2> QED
    BY <1>4, <1>5, <1>6, <2>1, <2>2, <2>3, <2>8
<1>14. CASE Unlock
  <2>1. /\ pc = "unlock" /\ pc' = "got" /\ time_lock' = FALSE
        /\ UNCHANGED <<call, time, clock>>
    BY <1>14 DEF Unlock, At, Goto
  <2>2. ~HalfSet /\ ~HalfSet' /\ ~Holding'
    BY <2>1 DEF Holding, HalfSet
  <2>3. GetSoFar'
    BY <1>5, <2>1 DEF GetSoFar, TimePcs, Read
  <2> QED
    BY <1>5, <1>6, <2>1, <2>2, <2>3 DEF TimePcs
<1>15. CASE TimeReturns
  <2>1. pc = "got" /\ pc' = "idle" /\ UNCHANGED <<time, time_lock, clock>>
    BY <1>15 DEF TimeReturns, At
  <2>2. ~HalfSet /\ ~HalfSet' /\ ~Holding /\ ~Holding'
    BY <2>1 DEF Holding, HalfSet
  <2>3. GetSoFar'
    BY <2>1 DEF GetSoFar, TimePcs
  <2> QED
    BY <1>4, <1>5, <1>6, <2>1, <2>2, <2>3 DEF TimePcs
<1> QED
  BY <1>7, <1>8, <1>9, <1>10, <1>11, <1>12, <1>13, <1>14, <1>15 DEF TimeKeeping

\* Every step: the counter, the interrupt, and the calls of the main loop.
LEMMA TimeInvNext == TimeInv /\ [Next]_vars => TimeInv'
<1> SUFFICES ASSUME TimeInv, [Next]_vars PROVE TimeInv'
  OBVIOUS
<1>1. CASE UNCHANGED vars
  BY <1>1, IdleKeepsTime DEF vars, timeState, interrupt, main
<1>2. CASE Cycle
  BY <1>2, IdleKeepsTime DEF Cycle, timeState, interrupt, main
<1>3. CASE SysTick_Handler
  BY <1>3, HandlerKeepsTime
<1>4. CASE Control
  BY <1>4, IdleKeepsTime DEF Control, timeState, interrupt, main
<1>5. CASE Sleeping
  <2>1. UNCHANGED <<time, time_lock, clock, handler>>
    BY <1>5 DEF Sleeping, timeState, interrupt
  <2>2. pc \notin TimePcs /\ pc' \notin TimePcs
    BY <1>5 DEF Sleeping, Msleep, Usleep, UsleepStart, Wake, UsleepRest,
       PollWrap, PollTail, PollWait, SleepReturns, Calls, At, Goto, TimePcs
  <2> QED
    BY <2>1, <2>2, ElsewhereKeepsTime
<1>6. CASE Registering
  <2>1. UNCHANGED <<time, time_lock, clock, handler>>
    BY <1>6 DEF Registering, interrupt
  <2>2. pc \notin TimePcs /\ pc' \notin TimePcs
    BY <1>6 DEF Registering, AddCall, AddFind, AddPeriod, AddCountdown, Remove,
       Calls, At, Goto, TimePcs, main
  <2> QED
    BY <2>1, <2>2, ElsewhereKeepsTime
<1>7. CASE TimeKeeping
  BY <1>7, TimeKeepingKeepsTime
<1> QED
  BY <1>1, <1>2, <1>3, <1>4, <1>5, <1>6, <1>7 DEF Next

LEMMA TimeInvReadNear == TimeInv => ReadNear
<1> SUFFICES ASSUME TimeInv, pc = "got", call.op = "get"
             PROVE  /\ Read <= clock
                    /\ call.from - (IF call.locked THEN 0 ELSE MsecPerSec - 1)
                         <= Read
  BY DEF ReadNear, Read, Total
<1> QED
  BY DEF TimeInv, GetSoFar, TimePcs

\* The time lock has at most one holder of the main loop and the interrupt,
\* and is held by one of them whenever it is set (time.c:57, 72, 141).
THEOREM LockHeldAlways == Spec => []LockHeld
<1>1. TimeInv => LockHeld
  BY DEF TimeInv
<1> QED
  BY <1>1, TimeInvInit, TimeInvNext, PTL DEF Spec

\* Whatever the length of a second and wherever the ticks fall, get_time is
\* never ahead of the time, and behind it by less than a second, or not at all
\* when it takes the lock (time.c:133-145).
THEOREM ReadNearAlways == Spec => []ReadNear
  BY TimeInvInit, TimeInvNext, TimeInvReadNear, PTL DEF Spec

-----------------------------------------------------------------------------
(* The pace of the callbacks                                               *)

LEMMA MinOfTwo ==
  ASSUME NEW a \in Int, NEW b \in Int
  PROVE  Min({a, b}) = IF a <= b THEN a ELSE b
<1> DEFINE m == IF a <= b THEN a ELSE b
<1>1. m \in {a, b} /\ \A y \in {a, b} : m <= y
  OBVIOUS
<1>2. \A x \in {a, b} : (\A y \in {a, b} : x <= y) => x = m
  OBVIOUS
<1> HIDE DEF m
<1>3. (CHOOSE x \in {a, b} : \A y \in {a, b} : x <= y) = m
  BY <1>1, <1>2
<1> QED
  BY <1>3 DEF Min, m

LEMMA MinOfOne ==
  ASSUME NEW a \in Int
  PROVE  Min({a}) = a
<1>1. \A x \in {a} : x = a /\ x <= a
  OBVIOUS
<1>2. (CHOOSE x \in {a} : \A y \in {a} : x <= y) = a
  BY <1>1
<1> QED
  BY <1>2 DEF Min

AddPcs == {"find", "period", "countdown"}
AddCalls == [op : {"add"}, callback : Callbacks, period : 1 .. Wrap - 1,
             i : 1 .. Slots + 1]
Held(i) == cbs[i].callback # NoCallback
Entry == [callback : Callbacks \cup {NoCallback}, period : 0 .. Wrap - 1,
          countdown : 0 .. Wrap - 1]

PaceShape ==
  /\ cbs \in [1 .. Slots -> Entry]
  /\ since \in [Callbacks -> 0 .. Wrap]
  /\ handler \in {"off", "loop", "counted", "rolled"} /\ slot \in 1 .. Slots + 1
  /\ handler \in {"counted", "rolled"} => slot <= Slots
  /\ "op" \in DOMAIN call
  /\ call.op = "add" <=> pc \in AddPcs

\* A callback is registered in one slot.
HeldOnce ==
  \A i, j \in 1 .. Slots : Held(i) /\ cbs[i].callback = cbs[j].callback => i = j

\* A registration under way: its callback is nowhere before the first store,
\* and its slot is nobody else's after it.
AddPart ==
  pc \in AddPcs =>
    /\ call \in AddCalls
    /\ pc = "find" => ~Registered(call.callback)
    /\ pc # "find" =>
         /\ call.i <= Slots
         /\ Held(call.i) => cbs[call.i].callback = call.callback
         /\ \A j \in 1 .. Slots : cbs[j].callback = call.callback => j = call.i
    /\ pc = "countdown" => cbs[call.i].period = call.period

TrackOnce ==
  ~time_configured => ~Registered("time_track") /\ ~Adding("time_track")

\* The interrupt is past the countdown of slot i.
Counted(i) == handler = "off" \/ i < slot \/ (handler # "loop" /\ i = slot)

\* The ticks since the last call and those to the next make up the period; the
\* tick that is being served counts before the slot's turn has come.
PacePart ==
  \A i \in 1 .. Slots : Held(i) /\ ~Adding(cbs[i].callback) =>
    /\ cbs[i].countdown \in 1 .. cbs[i].period
    /\ since[cbs[i].callback] + cbs[i].countdown
         = cbs[i].period + (IF Counted(i) THEN 0 ELSE 1)

PaceInv == PaceShape /\ HeldOnce /\ AddPart /\ TrackOnce /\ PacePart

LEMMA PaceInit == Init => PaceInv
<1> SUFFICES ASSUME Init PROVE PaceInv
  OBVIOUS
<1>1. /\ Slots \in Nat \ {0} /\ Wrap \in Nat \ {0, 1}
  BY ClockAssumption
<1>2. /\ cbs = [i \in 1 .. Slots |->
                  [callback |-> NoCallback, period |-> 0, countdown |-> 0]]
      /\ since = [c \in Callbacks |-> 0]
      /\ handler = "off" /\ slot = 1 /\ pc = "idle" /\ call = NoCall
  BY DEF Init
<1>3. \A i \in 1 .. Slots : ~Held(i)
  BY <1>2 DEF Held
<1>4. [callback |-> NoCallback, period |-> 0, countdown |-> 0] \in Entry
  BY <1>1 DEF Entry
<1>5. PaceShape
  BY <1>1, <1>2, <1>4 DEF PaceShape, NoCall, AddPcs
<1>6. TrackOnce
  BY <1>2 DEF TrackOnce, Registered, Adding, NoCall, NoCallback
<1> QED
  BY <1>2, <1>3, <1>5, <1>6 DEF PaceInv, HeldOnce, AddPart, PacePart, AddPcs

\* A step elsewhere: no callback is counted or registered.
LEMMA ElsewhereKeepsPace ==
  ASSUME PaceInv, UNCHANGED <<cbs, since, handler, slot, time_configured>>,
         UNCHANGED <<pc, call>> \/
           (pc \notin AddPcs /\ pc' \notin AddPcs /\ call'.op # "add"
              /\ "op" \in DOMAIN call')
  PROVE  PaceInv'
<1>1. \A c : Adding(c)' <=> Adding(c)
  BY DEF Adding, PaceInv, PaceShape
<1>2. PaceShape' /\ HeldOnce'
  BY DEF PaceInv, PaceShape, HeldOnce, Held
<1>6. AddPart'
  BY DEF PaceInv, AddPart, Held, Registered
<1>3. TrackOnce'
  BY <1>1 DEF PaceInv, TrackOnce, Registered
<1>4. \A i \in 1 .. Slots : (Held(i)' <=> Held(i)) /\ (Counted(i)' <=> Counted(i))
  BY DEF Held, Counted
<1>5. PacePart'
  BY <1>1, <1>4 DEF PaceInv, PacePart
<1> QED
  BY <1>2, <1>3, <1>5, <1>6 DEF PaceInv

LEMMA SlotShape ==
  ASSUME PaceInv, NEW i \in 1 .. Slots
  PROVE  /\ cbs[i] \in Entry /\ cbs[i].callback \in Callbacks \cup {NoCallback}
         /\ cbs[i].period \in 0 .. Wrap - 1 /\ cbs[i].countdown \in 0 .. Wrap - 1
         /\ Held(i) => cbs[i].callback \in Callbacks
         /\ Slots \in Nat \ {0} /\ Wrap \in Nat \ {0, 1}
         /\ \A c \in Callbacks : since[c] \in 0 .. Wrap
<1>1. cbs[i] \in Entry
  BY DEF PaceInv, PaceShape
<1> QED
  BY <1>1, ClockAssumption DEF PaceInv, PaceShape, Entry, Held

\* A tick begins: every registered callback has waited one more.
LEMMA TickStartKeepsPace == PaceInv /\ TickStart => PaceInv'
<1> SUFFICES ASSUME PaceInv, TickStart PROVE PaceInv'
  OBVIOUS
<1>1. /\ handler = "off" /\ handler' = "loop" /\ slot' = 1
      /\ UNCHANGED <<cbs, pc, call, time_configured>>
      /\ since' = [c \in Callbacks |->
                     IF Registered(c) THEN Min({since[c] + 1, Wrap}) ELSE 0]
  BY DEF TickStart, main, timeState
<1>2. Slots \in Nat \ {0} /\ Wrap \in Nat \ {0, 1}
  BY ClockAssumption
<1>3. \A c \in Callbacks : since[c] \in 0 .. Wrap
  BY DEF PaceInv, PaceShape
<1>4. \A c \in Callbacks :
        /\ since'[c] \in 0 .. Wrap
        /\ Registered(c) /\ since[c] < Wrap => since'[c] = since[c] + 1
        /\ Registered(c) => since'[c] >= since[c]
  <2> SUFFICES ASSUME NEW c \in Callbacks
               PROVE  /\ since'[c] \in 0 .. Wrap
                      /\ Registered(c) /\ since[c] < Wrap => since'[c] = since[c] + 1
                      /\ Registered(c) => since'[c] >= since[c]
    OBVIOUS
  <2>1. since'[c] = IF Registered(c) THEN Min({since[c] + 1, Wrap}) ELSE 0
    BY <1>1
  <2>2. since[c] + 1 \in Int /\ Wrap \in Int
    BY <1>2, <1>3
  <2>3. Min({since[c] + 1, Wrap}) = IF since[c] + 1 <= Wrap THEN since[c] + 1 ELSE Wrap
    BY <2>2, MinOfTwo
  <2> QED
    BY <1>2, <1>3, <2>1, <2>3
<1>5. since' \in [Callbacks -> 0 .. Wrap]
  BY <1>1, <1>4
<1>6. PaceShape'
  BY <1>1, <1>2, <1>5 DEF PaceInv, PaceShape
<1>7. HeldOnce' /\ AddPart'
  BY <1>1 DEF PaceInv, HeldOnce, AddPart, Held, Registered
<1>8. TrackOnce'
  BY <1>1 DEF PaceInv, TrackOnce, Registered, Adding
<1>9. PacePart'
  <2> SUFFICES ASSUME NEW i \in 1 .. Slots, Held(i)', ~Adding(cbs[i].callback)'
               PROVE  /\ cbs'[i].countdown \in 1 .. cbs'[i].period
                      /\ since'[cbs'[i].callback] + cbs'[i].countdown
                           = cbs'[i].period + (IF Counted(i)' THEN 0 ELSE 1)
    BY <1>1 DEF PacePart
  <2>1. Held(i) /\ ~Adding(cbs[i].callback)
    BY <1>1 DEF Held, Adding
  <2>2. Counted(i) /\ ~Counted(i)'
    BY <1>1, <1>2 DEF Counted
  <2>3. /\ cbs[i].countdown \in 1 .. cbs[i].period
        /\ since[cbs[i].callback] + cbs[i].countdown = cbs[i].period
    BY <2>1, <2>2, SlotShape DEF PaceInv, PacePart
  <2>4. cbs[i].callback \in Callbacks /\ Registered(cbs[i].callback)
        /\ cbs[i].period \in 0 .. Wrap - 1
    BY <2>1, SlotShape DEF Registered
  <2>5. since[cbs[i].callback] \in 0 .. Wrap
    BY <1>3, <2>4
  <2>6. since[cbs[i].callback] < Wrap
    BY <1>2, <2>3, <2>4, <2>5
  <2>7. since'[cbs[i].callback] = since[cbs[i].callback] + 1
    BY <1>4, <2>4, <2>6
  <2> QED
    BY <1>1, <2>2, <2>3, <2>4, <2>5, <2>7
<1> QED
  BY <1>6, <1>7, <1>8, <1>9 DEF PaceInv


\* Removing c empties its slot and touches no other, whatever the slots count.
LEMMA RemovedIs ==
  ASSUME NEW slots \in [1 .. Slots -> Entry], NEW c \in Callbacks,
         \A i, j \in 1 .. Slots :
           slots[i].callback = c /\ slots[j].callback = c => i = j
  PROVE  /\ Removed(c, slots) \in [1 .. Slots -> Entry]
         /\ \A i \in 1 .. Slots :
              /\ slots[i].callback = c => Removed(c, slots)[i].callback = NoCallback
              /\ slots[i].callback # c => Removed(c, slots)[i] = slots[i]
              /\ Removed(c, slots)[i].period = slots[i].period
<1> DEFINE held == {i \in 1 .. Slots : slots[i].callback = c}
<1>1. CASE held = {}
  BY <1>1 DEF Removed
<1>2. CASE held # {}
  <2>1. PICK k \in 1 .. Slots : slots[k].callback = c
    BY <1>2
  <2>2. held = {k}
    BY <2>1
  <2>3. Min(held) = k
    BY <2>1, <2>2, MinOfOne
  <2>4. Removed(c, slots) = [slots EXCEPT ![k].callback = NoCallback]
    BY <1>2, <2>3 DEF Removed
  <2>5. slots[k] \in Entry /\ [slots[k] EXCEPT !.callback = NoCallback] \in Entry
        /\ [slots[k] EXCEPT !.callback = NoCallback].callback = NoCallback
        /\ [slots[k] EXCEPT !.callback = NoCallback].period = slots[k].period
    BY DEF Entry
  <2>6. Removed(c, slots) = [slots EXCEPT ![k] = [slots[k] EXCEPT !.callback = NoCallback]]
    BY <2>4
  <2> QED
    BY <2>1, <2>2, <2>5, <2>6
<1> QED
  BY <1>1, <1>2

\* When nothing is due the countdown goes down by one.
LEMMA CountdownIs ==
  ASSUME NEW n \in 1 .. Wrap - 1
  PROVE  /\ (n - 1) % Wrap = n - 1
         /\ (n - 1) % Wrap = 0 <=> n = 1
  BY ClockAssumption

\* One pass of the loop leaves the slot counted down, called when it was due.
LEMMA TickSlotDoes ==
  ASSUME PaceInv, TickSlot
  PROVE  /\ handler = "loop" /\ slot \in 1 .. Slots
         /\ UNCHANGED <<pc, call>>
         /\ \/ handler' = "loop" /\ slot' = slot + 1
            \/ handler' = "counted" /\ slot' = slot
         /\ time_configured' = time_configured
         /\ cbs' \in [1 .. Slots -> Entry]
         /\ \A i \in 1 .. Slots : i # slot => cbs'[i] = cbs[i]
         /\ cbs'[slot].period = cbs[slot].period
         /\ \/ ~Held(slot) /\ UNCHANGED <<cbs, since>>
            \/ /\ Held(slot) /\ ~Due /\ UNCHANGED since
               /\ cbs'[slot].callback = cbs[slot].callback
               /\ cbs'[slot].countdown = (cbs[slot].countdown - 1) % Wrap
            \/ /\ Held(slot) /\ Due
               /\ since' = [since EXCEPT ![cbs[slot].callback] = 0]
               /\ \/ cbs'[slot].callback = NoCallback
                  \/ /\ cbs'[slot].callback = cbs[slot].callback
                     /\ cbs'[slot].countdown = cbs[slot].period
<1>1. /\ handler = "loop" /\ slot \in 1 .. Slots /\ UNCHANGED <<pc, call>>
  BY DEF TickSlot, main, PaceInv, PaceShape
<1>2. /\ \/ handler' = "loop" /\ slot' = slot + 1
         \/ handler' = "counted" /\ slot' = slot
      /\ time_configured' = time_configured
  <2>1. CASE cbs[slot].callback = NoCallback
    BY <2>1 DEF TickSlot, NextSlot, timeState
  <2>2. CASE cbs[slot].callback # NoCallback /\ ~Due
    BY <2>2 DEF TickSlot, NextSlot, timeState
  <2>3. CASE cbs[slot].callback # NoCallback /\ Due
    BY <2>3 DEF TickSlot, NextSlot, timeState
  <2> QED
    BY <2>1, <2>2, <2>3
<1>3. /\ cbs \in [1 .. Slots -> Entry] /\ cbs[slot] \in Entry
      /\ Wrap \in Nat \ {0, 1}
  BY <1>1, ClockAssumption DEF PaceInv, PaceShape
<1> DEFINE next == IF Due THEN cbs[slot].period ELSE (cbs[slot].countdown - 1) % Wrap
<1>4. /\ CountedDown \in [1 .. Slots -> Entry]
      /\ \A i \in 1 .. Slots : i # slot => CountedDown[i] = cbs[i]
      /\ CountedDown[slot].period = cbs[slot].period
      /\ CountedDown[slot].callback = cbs[slot].callback
      /\ CountedDown[slot].countdown = next
  <2>1. cbs[slot].countdown \in 0 .. Wrap - 1 /\ cbs[slot].period \in 0 .. Wrap - 1
    BY <1>3 DEF Entry
  <2>2. next \in 0 .. Wrap - 1
    BY <1>3, <2>1
  <2>3. CountedDown = [cbs EXCEPT ![slot] = [cbs[slot] EXCEPT !.countdown = next]]
    BY DEF CountedDown
  <2> HIDE DEF next
  <2>4. /\ [cbs[slot] EXCEPT !.countdown = next] \in Entry
        /\ [cbs[slot] EXCEPT !.countdown = next].period = cbs[slot].period
        /\ [cbs[slot] EXCEPT !.countdown = next].callback = cbs[slot].callback
        /\ [cbs[slot] EXCEPT !.countdown = next].countdown = next
    BY <1>3, <2>2 DEF Entry
  <2> QED
    BY <1>1, <1>3, <2>3, <2>4
<1>5. CASE ~Held(slot)
  <2>1. UNCHANGED <<cbs, since>>
    BY <1>5 DEF TickSlot, Held
  <2> QED
    BY <1>1, <1>2, <1>3, <1>5, <2>1
<1>6. CASE Held(slot) /\ ~Due
  <2>1. cbs' = CountedDown /\ UNCHANGED since
    BY <1>6 DEF TickSlot, Held
  <2> QED
    BY <1>1, <1>2, <1>4, <1>6, <2>1
<1>7. CASE Held(slot) /\ Due
  <2> DEFINE c == cbs[slot].callback
  <2>1. /\ cbs' = IF c = "once" THEN Removed(c, CountedDown) ELSE CountedDown
        /\ since' = [since EXCEPT ![c] = 0]
    BY <1>7 DEF TickSlot, Held
  <2>2. CASE c # "once"
    BY <1>1, <1>2, <1>4, <1>7, <2>1, <2>2
  <2>3. CASE c = "once"
    <3>1. \A i \in 1 .. Slots : CountedDown[i].callback = cbs[i].callback
      BY <1>4
    <3>2. \A i, j \in 1 .. Slots :
            CountedDown[i].callback = c /\ CountedDown[j].callback = c => i = j
      BY <1>7, <3>1 DEF PaceInv, HeldOnce, Held
    <3>3. c \in Callbacks
      BY <2>3 DEF Callbacks, UserCallbacks
    <3> HIDE DEF c
    <3>4. /\ Removed(c, CountedDown) \in [1 .. Slots -> Entry]
          /\ \A i \in 1 .. Slots :
               /\ CountedDown[i].callback = c
                    => Removed(c, CountedDown)[i].callback = NoCallback
               /\ CountedDown[i].callback # c
                    => Removed(c, CountedDown)[i] = CountedDown[i]
               /\ Removed(c, CountedDown)[i].period = CountedDown[i].period
      BY <1>4, <3>2, <3>3, RemovedIs
    <3>5. \A i \in 1 .. Slots : i # slot => cbs[i].callback # c
      BY <1>1, <1>4, <3>2 DEF c
    <3>6. /\ cbs'[slot].callback = NoCallback
          /\ cbs'[slot].period = cbs[slot].period
          /\ cbs' \in [1 .. Slots -> Entry]
      BY <1>1, <1>4, <2>1, <2>3, <3>4 DEF c
    <3>7. \A i \in 1 .. Slots : i # slot => cbs'[i] = cbs[i]
      BY <1>4, <2>1, <2>3, <3>1, <3>4, <3>5
    <3> QED
      BY <1>1, <1>2, <1>7, <2>1, <3>6, <3>7 DEF c
  <2> QED
    BY <2>2, <2>3
<1> QED
  BY <1>5, <1>6, <1>7

LEMMA TickSlotKeepsPace == PaceInv /\ TickSlot => PaceInv'
<1> SUFFICES ASSUME PaceInv, TickSlot PROVE PaceInv'
  OBVIOUS
<1>1. /\ handler = "loop" /\ slot \in 1 .. Slots
      /\ UNCHANGED <<pc, call>>
      /\ \/ handler' = "loop" /\ slot' = slot + 1
         \/ handler' = "counted" /\ slot' = slot
      /\ time_configured' = time_configured
      /\ cbs' \in [1 .. Slots -> Entry]
      /\ \A i \in 1 .. Slots : i # slot => cbs'[i] = cbs[i]
      /\ cbs'[slot].period = cbs[slot].period
  BY TickSlotDoes
<1>2. \/ ~Held(slot) /\ UNCHANGED <<cbs, since>>
      \/ /\ Held(slot) /\ ~Due /\ UNCHANGED since
         /\ cbs'[slot].callback = cbs[slot].callback
         /\ cbs'[slot].countdown = (cbs[slot].countdown - 1) % Wrap
      \/ /\ Held(slot) /\ Due
         /\ since' = [since EXCEPT ![cbs[slot].callback] = 0]
         /\ \/ cbs'[slot].callback = NoCallback
            \/ /\ cbs'[slot].callback = cbs[slot].callback
               /\ cbs'[slot].countdown = cbs[slot].period
  BY TickSlotDoes
<1>3. Slots \in Nat \ {0} /\ Wrap \in Nat \ {0, 1}
  BY ClockAssumption
<1>4. \A i \in 1 .. Slots : cbs'[i].callback \in {cbs[i].callback, NoCallback}
                            /\ cbs'[i].period = cbs[i].period
  BY <1>1, <1>2
<1>5. Adding("time_track")' <=> Adding("time_track")
  BY <1>1 DEF Adding
<1>6. PaceShape'
  <2>1. since' \in [Callbacks -> 0 .. Wrap]
    BY <1>2, <1>3 DEF PaceInv, PaceShape
  <2> QED
    BY <1>1, <1>3, <2>1 DEF PaceInv, PaceShape
<1>7. HeldOnce'
  BY <1>4 DEF PaceInv, HeldOnce, Held
<1>8. \A c \in Callbacks : Registered(c)' => Registered(c)
  BY <1>4 DEF Registered, Callbacks, UserCallbacks, NoCallback
<1>9. AddPart'
  BY <1>1, <1>4, <1>8 DEF PaceInv, AddPart, AddCalls, Held, Callbacks,
     UserCallbacks, NoCallback
<1>10. TrackOnce'
  BY <1>1, <1>5, <1>8 DEF PaceInv, TrackOnce, Callbacks
<1>11. PacePart'
  <2> SUFFICES ASSUME NEW i \in 1 .. Slots, Held(i)', ~Adding(cbs[i].callback)'
               PROVE  /\ cbs'[i].countdown \in 1 .. cbs'[i].period
                      /\ since'[cbs'[i].callback] + cbs'[i].countdown
                           = cbs'[i].period + (IF Counted(i)' THEN 0 ELSE 1)
    BY DEF PacePart
  <2>1. Held(i) /\ cbs'[i].callback = cbs[i].callback
    BY <1>4 DEF Held
  <2>2. ~Adding(cbs[i].callback)
    BY <1>1, <2>1 DEF Adding
  <2>3. /\ cbs[i].countdown \in 1 .. cbs[i].period
        /\ since[cbs[i].callback] + cbs[i].countdown
             = cbs[i].period + (IF Counted(i) THEN 0 ELSE 1)
        /\ cbs[i].callback \in Callbacks
        /\ since[cbs[i].callback] \in 0 .. Wrap
        /\ cbs[i].period \in 0 .. Wrap - 1
    BY <2>1, <2>2, SlotShape DEF PaceInv, PacePart
  <2>4. CASE i # slot
    <3>1. Counted(i)' <=> Counted(i)
      BY <1>1, <2>4 DEF Counted
    <3>2. Held(slot) => cbs[slot].callback # cbs[i].callback
      BY <1>1, <2>1, <2>4 DEF PaceInv, HeldOnce, Held
    <3>3. since'[cbs[i].callback] = since[cbs[i].callback]
      BY <1>2, <2>3, <3>2 DEF PaceInv, PaceShape
    <3> QED
      BY <1>1, <2>1, <2>3, <2>4, <3>1, <3>3
  <2>5. CASE i = slot
    <3>1. ~Counted(i) /\ Counted(i)'
      BY <1>1, <2>5 DEF Counted
    <3>2. cbs[i].countdown \in 1 .. Wrap - 1
      BY <1>3, <2>3
    <3>3. CASE ~Due
      <4>1. cbs[i].countdown # 1 /\ (cbs[i].countdown - 1) % Wrap = cbs[i].countdown - 1
        BY <2>5, <3>2, <3>3, CountdownIs DEF Due
      <4>2. UNCHANGED since /\ cbs'[i].countdown = cbs[i].countdown - 1
        BY <1>2, <2>1, <2>5, <3>3, <4>1
      <4> QED
        BY <1>1, <2>1, <2>3, <2>5, <3>1, <3>2, <4>1, <4>2
    <3>4. CASE Due
      <4>1. cbs'[i].countdown = cbs[i].period /\ since'[cbs[i].callback] = 0
        BY <1>2, <2>1, <2>3, <2>5, <3>4 DEF PaceInv, PaceShape, Held
      <4> QED
        BY <1>1, <2>1, <2>3, <2>5, <3>1, <3>2, <4>1
    <3> QED
      BY <3>3, <3>4
  <2> QED
    BY <2>4, <2>5
<1> QED
  BY <1>6, <1>7, <1>9, <1>10, <1>11 DEF PaceInv

LEMMA TickReturnKeepsPace == PaceInv /\ TickReturn => PaceInv'
<1> SUFFICES ASSUME PaceInv, TickReturn PROVE PaceInv'
  OBVIOUS
<1>1. /\ handler = "loop" /\ slot > Slots /\ handler' = "off" /\ slot' = slot
      /\ UNCHANGED <<cbs, since, pc, call, time_configured>>
  BY DEF TickReturn, main, timeState
<1>2. \A i \in 1 .. Slots : Counted(i) /\ Counted(i)'
  BY <1>1, ClockAssumption DEF Counted, PaceInv, PaceShape
<1>3. PaceShape' /\ HeldOnce' /\ AddPart'
  BY <1>1 DEF PaceInv, PaceShape, HeldOnce, AddPart, Held, Registered
<1>4. TrackOnce'
  BY <1>1 DEF PaceInv, TrackOnce, Registered, Adding
<1>5. PacePart'
  BY <1>1, <1>2 DEF PaceInv, PacePart, Held, Adding
<1> QED
  BY <1>3, <1>4, <1>5 DEF PaceInv

LEMMA TimeTrackKeepsPace == PaceInv /\ TimeTrack => PaceInv'
<1> SUFFICES ASSUME PaceInv, TimeTrack PROVE PaceInv'
  OBVIOUS
<1>1. /\ handler \in {"counted", "rolled"}
      /\ UNCHANGED <<cbs, since, pc, call, time_configured>>
      /\ \/ handler' \in {"counted", "rolled"} /\ slot' = slot
         \/ handler' = "loop" /\ slot' = slot + 1
  BY DEF TimeTrack, TrackRollMsec, TrackRollSeconds, TrackRelease, NextSlot, main
<1>2. slot \in 1 .. Slots /\ Slots \in Nat
  BY <1>1, ClockAssumption DEF PaceInv, PaceShape
<1>3. \A i \in 1 .. Slots : Counted(i) <=> Counted(i)'
  BY <1>1, <1>2 DEF Counted
<1>4. PaceShape' /\ HeldOnce' /\ AddPart'
  BY <1>1, <1>2 DEF PaceInv, PaceShape, HeldOnce, AddPart, Held, Registered
<1>5. TrackOnce'
  BY <1>1 DEF PaceInv, TrackOnce, Registered, Adding
<1>6. PacePart'
  BY <1>1, <1>3 DEF PaceInv, PacePart, Held, Adding
<1> QED
  BY <1>4, <1>5, <1>6 DEF PaceInv


\* add_systick_callback, its search and its three stores, and the removal.
LEMMA RegisteringKeepsPace == PaceInv /\ Registering => PaceInv'
<1> SUFFICES ASSUME PaceInv, Registering PROVE PaceInv'
  OBVIOUS
<1>1. handler = "off" /\ UNCHANGED <<handler, slot>>
  BY DEF Registering, interrupt, AddCall, AddFind, AddPeriod, AddCountdown,
     Remove, Calls, At, CpuFree
<1>2. /\ cbs \in [1 .. Slots -> Entry] /\ since \in [Callbacks -> 0 .. Wrap]
      /\ slot \in 1 .. Slots + 1
      /\ Slots \in Nat \ {0} /\ Wrap \in Nat \ {0, 1}
  BY ClockAssumption DEF PaceInv, PaceShape
<1>3. \A i \in 1 .. Slots : Counted(i) /\ Counted(i)'
  BY <1>1 DEF Counted
\* What a step has to show of the slots it does not leave alone.
<1>4. ASSUME PaceShape', HeldOnce', AddPart', TrackOnce',
             \A i \in 1 .. Slots :
               Held(i)' /\ ~Adding(cbs[i].callback)' =>
                 \/ /\ cbs'[i] = cbs[i] /\ ~Adding(cbs[i].callback)
                    /\ since'[cbs[i].callback] = since[cbs[i].callback]
                 \/ /\ cbs'[i].countdown = cbs'[i].period
                    /\ cbs'[i].period \in 1 .. Wrap - 1
                    /\ since'[cbs'[i].callback] = 0
      PROVE  PaceInv'
  <2> SUFFICES ASSUME NEW i \in 1 .. Slots, Held(i)', ~Adding(cbs[i].callback)'
               PROVE  /\ cbs'[i].countdown \in 1 .. cbs'[i].period
                      /\ since'[cbs'[i].callback] + cbs'[i].countdown
                           = cbs'[i].period + (IF Counted(i)' THEN 0 ELSE 1)
    BY <1>4 DEF PaceInv, PacePart
  <2>1. CASE /\ cbs'[i] = cbs[i] /\ ~Adding(cbs[i].callback)
             /\ since'[cbs[i].callback] = since[cbs[i].callback]
    <3>1. Held(i)
      BY <2>1 DEF Held
    <3> QED
      BY <1>3, <2>1, <3>1 DEF PaceInv, PacePart
  <2>2. CASE /\ cbs'[i].countdown = cbs'[i].period
             /\ cbs'[i].period \in 1 .. Wrap - 1
             /\ since'[cbs'[i].callback] = 0
    BY <1>2, <1>3, <2>2
  <2> QED
    BY <1>4, <2>1, <2>2
<1>5. CASE AddCall /\ UNCHANGED <<cbs, since, masked>>
  <2>1. PICK c \in Callbacks, p \in 1 .. Wrap - 1 :
          /\ pc = "idle" /\ pc' = "find" /\ UNCHANGED <<cbs, since>>
          /\ call' = [op |-> "add", callback |-> c, period |-> p, i |-> 1]
          /\ \/ c # "time_track" /\ ~Registered(c) /\ UNCHANGED time_configured
             \/ c = "time_track" /\ ~time_configured /\ time_configured'
    <3>1. CASE ~time_configured /\ Calls("time", "find",
                 [op |-> "add", callback |-> "time_track", period |-> 1, i |-> 1])
               /\ time_configured' = TRUE
      <4>1. "time_track" \in Callbacks /\ 1 \in 1 .. Wrap - 1
        BY <1>2 DEF Callbacks
      <4> QED
        BY <1>5, <3>1, <4>1, Zenon DEF Calls, At
    <3>2. CASE \E c \in UserCallbacks, p \in Periods :
                 /\ ~Registered(c)
                 /\ Calls("callbacks", "find",
                          [op |-> "add", callback |-> c, period |-> p, i |-> 1])
                 /\ UNCHANGED time_configured
      <4>1. PICK c \in UserCallbacks, p \in Periods :
                 /\ ~Registered(c)
                 /\ Calls("callbacks", "find",
                          [op |-> "add", callback |-> c, period |-> p, i |-> 1])
                 /\ UNCHANGED time_configured
        BY <3>2
      <4>2. c \in Callbacks /\ c # "time_track" /\ p \in 1 .. Wrap - 1
        BY ClockAssumption DEF Callbacks, UserCallbacks
      <4>3. UNCHANGED <<cbs, since>>
        BY <1>5
      <4> QED
        BY <4>1, <4>2, <4>3 DEF Calls, At
    <3> QED
      BY <1>5, <3>1, <3>2 DEF AddCall
  <2>2. call' \in AddCalls /\ call'.op = "add" /\ call'.callback = c
        /\ "op" \in DOMAIN call'
    BY <1>2, <2>1 DEF AddCalls
  <2>3. ~Registered(c) /\ (Registered(c)' <=> Registered(c))
    BY <2>1 DEF PaceInv, TrackOnce, Registered
  <2>4. PaceShape' /\ HeldOnce'
    BY <1>1, <2>1, <2>2 DEF PaceInv, PaceShape, HeldOnce, Held, AddPcs
  <2>5. AddPart'
    BY <2>1, <2>2, <2>3 DEF AddPart, AddPcs, Registered
  <2>6. TrackOnce'
    BY <2>1, <2>2 DEF PaceInv, TrackOnce, Registered, Adding
  <2>7. \A x : ~Adding(x)
    BY <2>1 DEF PaceInv, PaceShape, Adding, AddPcs
  <2> QED
    BY <1>4, <2>1, <2>4, <2>5, <2>6, <2>7
<1>6. CASE AddFind /\ UNCHANGED time_configured
  <2>1. /\ pc = "find" /\ call \in AddCalls /\ ~Registered(call.callback)
        /\ UNCHANGED <<since, time_configured>>
    BY <1>6 DEF AddFind, At, PaceInv, AddPart, AddPcs
  <2>2. /\ call.op = "add" /\ call.callback \in Callbacks
        /\ call.period \in 1 .. Wrap - 1 /\ call.i \in 1 .. Slots + 1
        /\ "op" \in DOMAIN call
    BY <2>1 DEF AddCalls
  <2>3. CASE call.i > Slots /\ pc' = "idle" /\ call' = NoCall /\ UNCHANGED cbs
    <3>1. \A x : ~Adding(x)'
      BY <2>3 DEF Adding, NoCall
    <3>2. PaceShape' /\ HeldOnce' /\ AddPart'
      BY <1>1, <2>1, <2>3 DEF PaceInv, PaceShape, HeldOnce, AddPart, Held,
         AddPcs, NoCall
    <3>3. TrackOnce'
      BY <2>1, <2>3, <3>1 DEF PaceInv, TrackOnce, Registered
    <3>4. \A i \in 1 .. Slots : Held(i)' => ~Adding(cbs[i].callback)
      BY <2>1, <2>3 DEF Registered, Adding, Held
    <3> QED
      BY <1>4, <2>1, <2>3, <3>2, <3>3, <3>4
  <2>4. CASE /\ call.i <= Slots /\ cbs[call.i].callback # NoCallback
             /\ call' = [call EXCEPT !.i = @ + 1] /\ UNCHANGED <<cbs, pc>>
    <3>1. /\ call' \in AddCalls /\ call'.op = "add"
          /\ call'.callback = call.callback /\ "op" \in DOMAIN call'
      BY <1>2, <2>1, <2>2, <2>4 DEF AddCalls
    <3>2. PaceShape' /\ HeldOnce' /\ AddPart'
      BY <1>1, <2>1, <2>4, <3>1 DEF PaceInv, PaceShape, HeldOnce, AddPart, Held,
         AddPcs, Registered
    <3>3. \A x : Adding(x)' <=> Adding(x)
      BY <2>2, <3>1 DEF Adding
    <3>4. TrackOnce'
      BY <2>1, <2>4, <3>3 DEF PaceInv, TrackOnce, Registered
    <3>5. \A i \in 1 .. Slots :
            ~Adding(cbs[i].callback)' => ~Adding(cbs[i].callback)
      BY <2>2, <2>4, <3>1 DEF Adding
    <3> QED
      BY <1>4, <2>1, <2>4, <3>2, <3>4, <3>5
  <2>5. CASE /\ call.i <= Slots /\ cbs[call.i].callback = NoCallback
             /\ cbs' = [cbs EXCEPT ![call.i].callback = call.callback]
             /\ pc' = "period" /\ UNCHANGED call
    <3>1. call.i \in 1 .. Slots
      BY <1>2, <2>2, <2>5
    <3>2. /\ cbs' \in [1 .. Slots -> Entry]
          /\ cbs'[call.i].callback = call.callback
          /\ \A i \in 1 .. Slots : i # call.i => cbs'[i] = cbs[i]
      <4>1. cbs[call.i] \in Entry
        BY <1>2, <3>1
      <4>2. [cbs[call.i] EXCEPT !.callback = call.callback] \in Entry
            /\ [cbs[call.i] EXCEPT !.callback = call.callback].callback = call.callback
        BY <2>2, <4>1 DEF Entry
      <4>3. cbs' = [cbs EXCEPT ![call.i] = [cbs[call.i] EXCEPT !.callback = call.callback]]
        BY <2>5
      <4> QED
        BY <1>2, <3>1, <4>2, <4>3
    <3>3. PaceShape'
      BY <1>1, <2>1, <2>2, <2>5, <3>2 DEF PaceInv, PaceShape, AddPcs
    <3>4. HeldOnce'
      BY <2>1, <3>1, <3>2 DEF PaceInv, HeldOnce, Held, Registered
    <3>8. \A j \in 1 .. Slots : cbs'[j].callback = call.callback => j = call.i
      BY <2>1, <3>2 DEF Registered
    <3>5. AddPart'
      BY <2>1, <2>5, <3>1, <3>2, <3>8 DEF AddPart, AddPcs
    <3>6. TrackOnce'
      BY <2>1, <2>2, <2>5, <3>1, <3>2 DEF PaceInv, TrackOnce, Registered, Adding
    <3>7. \A i \in 1 .. Slots : Held(i)' /\ ~Adding(cbs[i].callback)' =>
            cbs'[i] = cbs[i] /\ ~Adding(cbs[i].callback)
      BY <2>2, <2>5, <3>2 DEF Adding
    <3> QED
      BY <1>4, <2>1, <3>3, <3>4, <3>5, <3>6, <3>7
  <2> QED
    BY <1>6, <2>3, <2>4, <2>5 DEF AddFind
<1>7. CASE AddPeriod /\ UNCHANGED time_configured
  <2>1. /\ pc = "period" /\ pc' = "countdown" /\ call \in AddCalls
        /\ UNCHANGED <<since, call, time_configured>>
        /\ cbs' = [cbs EXCEPT ![call.i].period = call.period]
        /\ call.i <= Slots /\ (Held(call.i) => cbs[call.i].callback = call.callback)
        /\ \A j \in 1 .. Slots : cbs[j].callback = call.callback => j = call.i
    BY <1>7 DEF AddPeriod, At, Goto, PaceInv, AddPart, AddPcs
  <2>2. /\ call.op = "add" /\ call.callback \in Callbacks
        /\ call.period \in 1 .. Wrap - 1 /\ call.i \in 1 .. Slots
    BY <1>2, <2>1 DEF AddCalls
  <2>3. /\ cbs' \in [1 .. Slots -> Entry]
        /\ cbs'[call.i].callback = cbs[call.i].callback
        /\ cbs'[call.i].period = call.period
        /\ \A i \in 1 .. Slots : i # call.i => cbs'[i] = cbs[i]
    <3>1. cbs[call.i] \in Entry
      BY <1>2, <2>2
    <3>4. \A e \in Entry, n \in 0 .. Wrap - 1 :
            /\ [e EXCEPT !.period = n] \in Entry
            /\ [e EXCEPT !.period = n].period = n
            /\ [e EXCEPT !.period = n].callback = e.callback
      BY DEF Entry
    <3>2. /\ [cbs[call.i] EXCEPT !.period = call.period] \in Entry
          /\ [cbs[call.i] EXCEPT !.period = call.period].period = call.period
          /\ [cbs[call.i] EXCEPT !.period = call.period].callback = cbs[call.i].callback
      BY <1>2, <2>2, <3>1, <3>4
    <3>3. cbs' = [cbs EXCEPT ![call.i] = [cbs[call.i] EXCEPT !.period = call.period]]
      BY <2>1
    <3> QED
      BY <1>2, <2>2, <3>2, <3>3
  <2>4. \A i \in 1 .. Slots : cbs'[i].callback = cbs[i].callback
    BY <2>3
  <2>5. PaceShape'
    BY <1>1, <2>1, <2>2, <2>3 DEF PaceInv, PaceShape, AddPcs
  <2>6. HeldOnce'
    BY <2>4 DEF PaceInv, HeldOnce, Held
  <2>7. AddPart'
    BY <2>1, <2>2, <2>3 DEF AddPart, AddPcs, Held
  <2>8. TrackOnce'
    BY <2>1, <2>4 DEF PaceInv, TrackOnce, Registered, Adding
  <2>9. \A i \in 1 .. Slots : Held(i)' /\ ~Adding(cbs[i].callback)' =>
          cbs'[i] = cbs[i] /\ ~Adding(cbs[i].callback)
    BY <2>1, <2>2, <2>3 DEF Adding, Held
  <2> QED
    BY <1>4, <2>1, <2>5, <2>6, <2>7, <2>8, <2>9
<1>8. CASE AddCountdown /\ UNCHANGED time_configured
  <2>1. /\ pc = "countdown" /\ pc' = "idle" /\ call \in AddCalls
        /\ call' = NoCall /\ UNCHANGED time_configured
        /\ cbs' = [cbs EXCEPT ![call.i].countdown = call.period]
        /\ since' = [since EXCEPT ![call.callback] = 0]
        /\ call.i <= Slots /\ (Held(call.i) => cbs[call.i].callback = call.callback)
        /\ \A j \in 1 .. Slots : cbs[j].callback = call.callback => j = call.i
        /\ cbs[call.i].period = call.period
    BY <1>8 DEF AddCountdown, At, PaceInv, AddPart, AddPcs
  <2>2. /\ call.op = "add" /\ call.callback \in Callbacks
        /\ call.period \in 1 .. Wrap - 1 /\ call.i \in 1 .. Slots
    BY <1>2, <2>1 DEF AddCalls
  <2>3. /\ cbs' \in [1 .. Slots -> Entry]
        /\ cbs'[call.i].callback = cbs[call.i].callback
        /\ cbs'[call.i].period = call.period
        /\ cbs'[call.i].countdown = call.period
        /\ \A i \in 1 .. Slots : i # call.i => cbs'[i] = cbs[i]
    <3>1. cbs[call.i] \in Entry
      BY <1>2, <2>2
    <3>4. \A e \in Entry, n \in 0 .. Wrap - 1 :
            /\ [e EXCEPT !.countdown = n] \in Entry
            /\ [e EXCEPT !.countdown = n].countdown = n
            /\ [e EXCEPT !.countdown = n].period = e.period
            /\ [e EXCEPT !.countdown = n].callback = e.callback
      BY DEF Entry
    <3>2. /\ [cbs[call.i] EXCEPT !.countdown = call.period] \in Entry
          /\ [cbs[call.i] EXCEPT !.countdown = call.period].countdown = call.period
          /\ [cbs[call.i] EXCEPT !.countdown = call.period].period = cbs[call.i].period
          /\ [cbs[call.i] EXCEPT !.countdown = call.period].callback = cbs[call.i].callback
      BY <1>2, <2>2, <3>1, <3>4
    <3>3. cbs' = [cbs EXCEPT ![call.i] = [cbs[call.i] EXCEPT !.countdown = call.period]]
      BY <2>1
    <3> QED
      BY <1>2, <2>1, <2>2, <3>2, <3>3
  <2>4. \A i \in 1 .. Slots : cbs'[i].callback = cbs[i].callback
    BY <2>3
  <2>5. since' \in [Callbacks -> 0 .. Wrap] /\ since'[call.callback] = 0
        /\ \A c \in Callbacks : c # call.callback => since'[c] = since[c]
    BY <1>2, <2>1, <2>2
  <2>6. \A x : ~Adding(x)'
    BY <2>1 DEF Adding, NoCall
  <2>7. PaceShape'
    BY <1>1, <2>1, <2>3, <2>5 DEF PaceInv, PaceShape, AddPcs, NoCall
  <2>8. HeldOnce'
    BY <2>4 DEF PaceInv, HeldOnce, Held
  <2>9. AddPart'
    BY <2>1 DEF AddPart, AddPcs
  <2>10. TrackOnce'
    BY <2>1, <2>4, <2>6 DEF PaceInv, TrackOnce, Registered
  <2>11. ASSUME NEW i \in 1 .. Slots, Held(i)', i # call.i
         PROVE  /\ cbs'[i] = cbs[i] /\ since'[cbs[i].callback] = since[cbs[i].callback]
                \/ cbs[i].callback = call.callback
    <3>1. cbs[i].callback \in Callbacks /\ cbs'[i] = cbs[i]
      BY <2>3, <2>11, SlotShape DEF Held
    <3> QED
      BY <2>5, <3>1
  <2>12. ASSUME NEW i \in 1 .. Slots, Held(i)'
         PROVE  \/ /\ cbs'[i] = cbs[i] /\ ~Adding(cbs[i].callback)
                   /\ since'[cbs[i].callback] = since[cbs[i].callback]
                \/ /\ cbs'[i].countdown = cbs'[i].period
                   /\ cbs'[i].period \in 1 .. Wrap - 1
                   /\ since'[cbs'[i].callback] = 0
    <3>1. CASE i = call.i
      BY <2>1, <2>2, <2>3, <2>5, <2>12, <3>1 DEF Held
    <3>2. CASE i # call.i /\ cbs[i].callback # call.callback
      BY <2>3, <2>11, <2>12, <3>2 DEF Adding
    <3>3. CASE i # call.i /\ cbs[i].callback = call.callback
      BY <2>1, <3>3 DEF PaceInv, AddPart, AddPcs
    <3> QED
      BY <3>1, <3>2, <3>3
  <2> QED
    BY <1>4, <2>7, <2>8, <2>9, <2>10, <2>12
<1>9. CASE Remove /\ UNCHANGED time_configured
  <2>1. PICK c \in UserCallbacks : /\ pc = "idle" /\ cbs' = Removed(c, cbs)
                                  /\ UNCHANGED <<since, pc, call, time_configured>>
    BY <1>9 DEF Remove, At, main
  <2>2. c \in Callbacks /\ c # NoCallback
    BY DEF Callbacks, UserCallbacks, NoCallback
  <2>3. \A i, j \in 1 .. Slots :
          cbs[i].callback = c /\ cbs[j].callback = c => i = j
    BY <2>2 DEF PaceInv, HeldOnce, Held
  <2>4. /\ cbs' \in [1 .. Slots -> Entry]
        /\ \A i \in 1 .. Slots :
             /\ cbs[i].callback = c => cbs'[i].callback = NoCallback
             /\ cbs[i].callback # c => cbs'[i] = cbs[i]
    BY <1>2, <2>1, <2>2, <2>3, RemovedIs
  <2>5. \A i \in 1 .. Slots : Held(i)' => Held(i) /\ cbs'[i] = cbs[i]
    BY <2>4 DEF Held
  <2>6. \A x : ~Adding(x) /\ ~Adding(x)'
    BY <2>1 DEF PaceInv, PaceShape, Adding, AddPcs
  <2>7. PaceShape'
    BY <1>1, <2>1, <2>4 DEF PaceInv, PaceShape
  <2>8. HeldOnce'
    BY <2>5 DEF PaceInv, HeldOnce, Held
  <2>9. AddPart'
    BY <2>1 DEF AddPart, AddPcs
  <2>10. \A x \in Callbacks : Registered(x)' => Registered(x)
    BY <2>5 DEF Registered, Held, Callbacks, UserCallbacks, NoCallback
  <2>11. TrackOnce'
    BY <2>1, <2>6, <2>10 DEF PaceInv, TrackOnce, Callbacks
  <2> QED
    BY <1>4, <2>1, <2>5, <2>6, <2>7, <2>8, <2>9, <2>11
<1> QED
  BY <1>5, <1>6, <1>7, <1>8, <1>9 DEF Registering


LEMMA PaceNext == PaceInv /\ [Next]_vars => PaceInv'
<1> SUFFICES ASSUME PaceInv, [Next]_vars PROVE PaceInv'
  OBVIOUS
<1>1. CASE UNCHANGED vars
  BY <1>1, ElsewhereKeepsPace DEF vars, timeState, interrupt, main
<1>2. CASE Cycle
  BY <1>2, ElsewhereKeepsPace DEF Cycle, timeState, interrupt, main
<1>3. CASE SysTick_Handler
  BY <1>3, TickStartKeepsPace, TickSlotKeepsPace, TickReturnKeepsPace,
     TimeTrackKeepsPace DEF SysTick_Handler
<1>4. CASE Control
  BY <1>4, ElsewhereKeepsPace DEF Control, timeState, interrupt, main
<1>5. "op" \in DOMAIN call /\ (call.op = "add" <=> pc \in AddPcs)
  BY DEF PaceInv, PaceShape
<1>6. CASE Sleeping
  <2>1. UNCHANGED <<cbs, since, handler, slot, time_configured>>
    BY <1>6 DEF Sleeping, timeState, interrupt
  <2>2. pc \notin AddPcs /\ pc' \notin AddPcs
    BY <1>6 DEF Sleeping, Msleep, Usleep, UsleepStart, Wake, UsleepRest,
       PollWrap, PollTail, PollWait, SleepReturns, Calls, At, Goto, AddPcs
  <2>3. \/ UNCHANGED call
        \/ \E n : call' = [call EXCEPT !.end = n]
        \/ "op" \in DOMAIN call' /\ call'.op # "add"
    BY <1>6 DEF Sleeping, Msleep, Usleep, UsleepStart, Wake, UsleepRest,
       PollWrap, PollTail, PollWait, SleepReturns, Calls, Goto, NoCall
  <2>4. "op" \in DOMAIN call' /\ call'.op # "add"
    BY <1>5, <2>2, <2>3
  <2> QED
    BY <2>1, <2>2, <2>4, ElsewhereKeepsPace
<1>7. CASE Registering
  BY <1>7, RegisteringKeepsPace
<1>8. CASE TimeKeeping
  <2>1. UNCHANGED <<cbs, since, handler, slot, time_configured>>
    BY <1>8 DEF TimeKeeping, interrupt
  <2>2. pc \notin AddPcs /\ pc' \notin AddPcs
    BY <1>8 DEF TimeKeeping, SetCall, GetCall, TakeLock, SetSeconds, SetMsec,
       GetSeconds, GetMsec, Unlock, TimeReturns, Calls, At, Goto, AddPcs
  <2>3. \/ UNCHANGED call
        \/ \E n : call' = [call EXCEPT !.seconds = n]
        \/ \E n : call' = [call EXCEPT !.msec = n]
        \/ "op" \in DOMAIN call' /\ call'.op # "add"
    BY <1>8 DEF TimeKeeping, SetCall, GetCall, TakeLock, SetSeconds, SetMsec,
       GetSeconds, GetMsec, Unlock, TimeReturns, Calls, Goto, NoCall
  <2>4. "op" \in DOMAIN call' /\ call'.op # "add"
    BY <1>5, <2>2, <2>3
  <2> QED
    BY <2>1, <2>2, <2>4, ElsewhereKeepsPace
<1> QED
  BY <1>1, <1>2, <1>3, <1>4, <1>6, <1>7, <1>8 DEF Next

\* What the property looks up is what the slot of the callback holds.
LEMMA PeriodOfIs ==
  ASSUME PaceInv, NEW i \in 1 .. Slots, Held(i)
  PROVE  PeriodOf(cbs[i].callback) = cbs[i].period
<1> DEFINE entries == {cbs[j] : j \in 1 .. Slots}
           c == cbs[i].callback
<1>1. \A s \in entries : s.callback = c => s = cbs[i]
  BY DEF PaceInv, HeldOnce, Held
<1>2. \E s \in entries : s.callback = c
  OBVIOUS
<1>3. (CHOOSE s \in entries : s.callback = c) = cbs[i]
  BY <1>1, <1>2
<1> QED
  BY <1>3 DEF PeriodOf

NeverLate ==
  handler = "off" => \A c \in Callbacks :
    Registered(c) /\ ~Adding(c) => since[c] < PeriodOf(c)
NeverEarly ==
  \A c \in Callbacks :
    Registered(c) /\ ~Adding(c) /\ since'[c] < since[c] => since[c] = PeriodOf(c)

LEMMA PaceNeverLate == PaceInv => NeverLate
<1> SUFFICES ASSUME PaceInv, handler = "off", NEW c \in Callbacks,
                    Registered(c), ~Adding(c)
             PROVE  since[c] < PeriodOf(c)
  BY DEF NeverLate
<1>1. PICK i \in 1 .. Slots : cbs[i].callback = c
  BY DEF Registered
<1>2. Held(i)
  BY <1>1 DEF Held, Callbacks, UserCallbacks, NoCallback
<1>3. /\ cbs[i].countdown \in 1 .. cbs[i].period
      /\ since[c] + cbs[i].countdown = cbs[i].period
      /\ since[c] \in 0 .. Wrap /\ cbs[i].period \in 0 .. Wrap - 1
  BY <1>1, <1>2, SlotShape DEF PaceInv, PacePart, Counted
<1>4. Wrap \in Nat
  BY ClockAssumption
<1> QED
  BY <1>1, <1>2, <1>3, <1>4, PeriodOfIs

LEMMA PaceNeverEarly == PaceInv /\ [Next]_vars => NeverEarly
<1> SUFFICES ASSUME PaceInv, [Next]_vars, NEW c \in Callbacks,
                    Registered(c), ~Adding(c), since'[c] < since[c]
             PROVE  since[c] = PeriodOf(c)
  BY DEF NeverEarly
<1>1. since[c] \in 0 .. Wrap /\ Wrap \in Nat /\ since \in [Callbacks -> 0 .. Wrap]
  BY ClockAssumption DEF PaceInv, PaceShape
<1>2. ~UNCHANGED since
  BY <1>1
<1>3. ASSUME TickStart PROVE FALSE
  <2>1. since'[c] = Min({since[c] + 1, Wrap})
    BY <1>3 DEF TickStart
  <2>2. Min({since[c] + 1, Wrap}) = IF since[c] + 1 <= Wrap THEN since[c] + 1 ELSE Wrap
    BY <1>1, MinOfTwo
  <2> QED
    BY <1>1, <2>1, <2>2
<1>4. ASSUME AddCountdown PROVE FALSE
  <2>1. pc = "countdown" /\ since' = [since EXCEPT ![call.callback] = 0]
    BY <1>4 DEF AddCountdown, At
  <2>2. call.op = "add"
    BY <2>1 DEF PaceInv, PaceShape, AddPcs
  <2>3. c # call.callback
    BY <2>2 DEF Adding
  <2> QED
    BY <1>1, <2>1, <2>3
<1>5. TickSlot
  <2>1. ~Cycle /\ ~TickReturn /\ ~TimeTrack /\ ~Control /\ ~Sleeping /\ ~TimeKeeping
        /\ ~UNCHANGED vars
    BY <1>2 DEF Cycle, TickReturn, TimeTrack, Control, Sleeping, TimeKeeping, vars
  <2>2. ~Registering
    BY <1>2, <1>4 DEF Registering, AddFind, AddPeriod, Remove
  <2> QED
    BY <1>3, <2>1, <2>2 DEF Next, SysTick_Handler
<1>6. /\ handler = "loop" /\ slot \in 1 .. Slots
      /\ Held(slot) /\ Due
      /\ since' = [since EXCEPT ![cbs[slot].callback] = 0]
  BY <1>2, <1>5, TickSlotDoes
<1>7. cbs[slot].callback = c
  BY <1>1, <1>6
<1>8. /\ cbs[slot].countdown \in 1 .. cbs[slot].period
      /\ since[c] + cbs[slot].countdown = cbs[slot].period + 1
      /\ cbs[slot].period \in 0 .. Wrap - 1
  <2>1. ~Counted(slot)
    BY <1>6 DEF Counted
  <2> QED
    BY <1>6, <1>7, <2>1, SlotShape DEF PaceInv, PacePart
<1>9. cbs[slot].countdown = 1
  <2>1. cbs[slot].countdown \in 1 .. Wrap - 1
    BY <1>1, <1>8
  <2> QED
    BY <1>6, <2>1, CountdownIs DEF Due
<1> QED
  BY <1>1, <1>6, <1>7, <1>8, <1>9, PeriodOfIs

\* A registered callback is called exactly every period ticks: with any number
\* of slots and of callbacks that come and go, also from inside the interrupt,
\* and wherever in the list the removed one stood (systick.c:64, 82, 99).
THEOREM OnPaceAlways == Spec => OnPace
<1>1. Spec => []NeverLate
  BY PaceInit, PaceNext, PaceNeverLate, PTL DEF Spec
<1>2. Spec => [][NeverEarly]_vars
  BY PaceInit, PaceNext, PaceNeverEarly, PTL DEF Spec
<1> QED
  BY <1>1, <1>2, PTL DEF OnPace, NeverLate, NeverEarly

-----------------------------------------------------------------------------
(* The length of a sleep                                                   *)

Turn == Reload + 1
SleepPcs == {"clear", "sleep", "rest", "wrap", "tail", "wait", "slept"}
SleepCalls ==
  [op : {"msleep"}, ticks : SleepTicks] \cup
  [op : {"usleep"}, ticks : SleepTicks, cycles : SleepCycles, short : BOOLEAN,
   start : 0 .. Reload, end : Int, warm : BOOLEAN]

\* e cycles are at least n, or more than are counted.
Long(e, n) == e = MaxElapsed \/ e >= n
Lasted(n) == Long(elapsed, n)

\* The cycles that pass at least before the counter is zero again.
First ==
  IF call.op = "msleep" THEN 0 ELSE IF call.start = 0 THEN Turn ELSE call.start
\* Those that passed since it was, before and after its interrupt is taken.
SinceZero == IF pending /\ value = 0 THEN 0 ELSE Turn - value
\* The ticks of this sleep so far.
Passed == call.ticks - sleep_count + (IF pending THEN 1 ELSE 0)
\* The calls NotShort is about.
Warm == call.op = "usleep" => call.warm

SleepShape ==
  /\ value \in 0 .. Reload /\ elapsed \in 0 .. MaxElapsed
  /\ running \in BOOLEAN /\ countflag \in BOOLEAN /\ pending \in BOOLEAN
  /\ client = "sleeps" => ~masked
  /\ pc \in SleepPcs =>
       /\ client = "sleeps" /\ call \in SleepCalls
       /\ call.op = "msleep" => pc \in {"sleep", "slept"}
       /\ call.op = "usleep" /\ pc = "sleep" => call.ticks > 0
  /\ pc = "clear" /\ call.warm => running

\* The counter goes down from where usleep read it.
StartPart ==
  pc \in SleepPcs /\ Warm /\ call.op = "usleep" =>
    Lasted(First - value) \/ (call.start = 0 /\ value = 0)

\* While the ticks are waited for, all but the first were whole.
TicksPart ==
  pc = "sleep" /\ Warm =>
    /\ sleep_count \in 0 .. call.ticks
    /\ Passed >= 1 => Lasted(First + (Passed - 1) * Turn + SinceZero)

\* The rest of usleep after its ticks.
AfterPart ==
  pc \in {"rest", "wrap", "tail", "wait"} /\ Warm /\ call.ticks > 0 =>
    Lasted(First + call.ticks * Turn - value)

\* The flag, once cleared, shows that the counter has been zero since.
FlagPart ==
  pc \in {"rest", "wrap", "wait"} /\ Warm /\ countflag =>
    Lasted(First + SinceZero)

\* What usleep waits for.
EndPart ==
  Warm =>
    /\ pc = "tail" => Lasted(First + Turn - value)
    /\ pc \in {"wrap", "tail"} =>
         /\ call.cycles > call.start
         /\ call.end = Reload - (call.cycles - call.start)
    /\ pc = "wait" =>
         call.cycles <= call.start /\ call.end = call.start - call.cycles

SleptPart == pc = "slept" /\ Warm => Lasted(Least)

SleepInv ==
  SleepShape /\ StartPart /\ TicksPart /\ AfterPart /\ FlagPart /\ EndPart /\ SleptPart

LEMMA LongWeaker ==
  ASSUME NEW e \in Int, NEW m \in Int, NEW n \in Int, Long(e, m), n <= m
  PROVE  Long(e, n)
  BY DEF Long

LEMMA LongGrows ==
  ASSUME NEW e \in 0 .. MaxElapsed, NEW m \in Int, NEW n \in Int,
         Long(e, m), n <= m + 1
  PROVE  Long(Min({e + 1, MaxElapsed}), n)
<1>1. MaxElapsed \in Nat
  BY ClockAssumption
<1>2. Min({e + 1, MaxElapsed}) = IF e + 1 <= MaxElapsed THEN e + 1 ELSE MaxElapsed
  BY <1>1, MinOfTwo
<1> QED
  BY <1>1, <1>2 DEF Long

\* The values that the parts of the invariant compute with.
LEMMA SleepTypes ==
  ASSUME SleepInv, pc \in SleepPcs
  PROVE  /\ Reload \in Nat \ {0} /\ Turn \in Nat /\ Turn = Reload + 1
         /\ value \in 0 .. Reload /\ elapsed \in 0 .. MaxElapsed
         /\ client = "sleeps" /\ ~masked /\ pending \in BOOLEAN
         /\ call.op \in {"msleep", "usleep"} /\ call.ticks \in Nat
         /\ call.ticks \in SleepTicks
         /\ SinceZero \in 0 .. Turn
         /\ First \in Nat
         /\ call.op = "msleep" => First = 0
         /\ call.op = "usleep" =>
              /\ call.start \in 0 .. Reload /\ call.cycles \in SleepCycles
              /\ call.cycles \in 0 .. Turn /\ call.end \in Int
              /\ call.warm \in BOOLEAN
              /\ First >= call.start /\ (call.start = 0 => First = Turn)
              /\ call.start # 0 => First = call.start
<1>1. /\ Reload \in Nat \ {0} /\ SleepTicks \subseteq Nat
      /\ SleepCycles \subseteq 0 .. Reload + 1
  BY ClockAssumption
<1>2. /\ value \in 0 .. Reload /\ elapsed \in 0 .. MaxElapsed
      /\ client = "sleeps" /\ ~masked /\ pending \in BOOLEAN
      /\ call \in SleepCalls
  BY DEF SleepInv, SleepShape
<1>3. Turn \in Nat /\ Turn = Reload + 1
  BY <1>1 DEF Turn
<1>4. SinceZero \in 0 .. Turn
  BY <1>1, <1>2, <1>3 DEF SinceZero
<1>5. CASE call \in [op : {"msleep"}, ticks : SleepTicks]
  BY <1>1, <1>2, <1>3, <1>4, <1>5 DEF First
<1>6. CASE call \in [op : {"usleep"}, ticks : SleepTicks, cycles : SleepCycles,
                     short : BOOLEAN, start : 0 .. Reload, end : Int, warm : BOOLEAN]
  <2>1. /\ call.op = "usleep" /\ call.ticks \in SleepTicks
        /\ call.cycles \in SleepCycles /\ call.start \in 0 .. Reload
        /\ call.end \in Int /\ call.warm \in BOOLEAN
    BY <1>6
  <2>2. First = IF call.start = 0 THEN Turn ELSE call.start
    BY <2>1 DEF First
  <2>3. call.ticks \in Nat /\ call.cycles \in 0 .. Turn
    BY <1>1, <1>3, <2>1
  <2>4. First \in Nat /\ First >= call.start
    BY <1>1, <1>3, <2>1, <2>2
  <2> QED
    BY <1>1, <1>2, <1>3, <1>4, <2>1, <2>2, <2>3, <2>4
<1> QED
  BY <1>2, <1>5, <1>6 DEF SleepCalls

LEMMA LeastType ==
  ASSUME SleepInv, pc \in SleepPcs
  PROVE  Least \in Int
<1>1. /\ Turn \in Nat /\ Turn = Reload + 1 /\ call.ticks \in Nat
      /\ call.op = "usleep" => call.cycles \in 0 .. Turn
  BY SleepTypes
<1>2. (call.ticks - 1) * Turn \in Int
  BY <1>1
<1> QED
  BY <1>1, <1>2 DEF Least

LEMMA SleepInit == Init => SleepInv
<1> SUFFICES ASSUME Init PROVE SleepInv
  OBVIOUS
<1>1. /\ pc = "idle" /\ value = 0 /\ elapsed = 0 /\ ~masked
      /\ running \in BOOLEAN /\ countflag \in BOOLEAN /\ pending \in BOOLEAN
  BY DEF Init
<1> QED
  BY <1>1, ClockAssumption DEF SleepInv, SleepShape, StartPart, TicksPart,
     AfterPart, FlagPart, EndPart, SleptPart, SleepPcs

\* Outside a call only the shape is left to show.
LEMMA IdleKeepsSleep ==
  ASSUME SleepInv, pc' \notin SleepPcs, client' = client,
         client = "sleeps" => ~masked',
         value' \in 0 .. Reload, elapsed' \in 0 .. MaxElapsed,
         running' \in BOOLEAN, countflag' \in BOOLEAN, pending' \in BOOLEAN
  PROVE  SleepInv'
  BY DEF SleepInv, SleepShape, StartPart, TicksPart, AfterPart, FlagPart,
     EndPart, SleptPart, SleepPcs

LEMMA StillKeepsSleep ==
  ASSUME SleepInv,
         UNCHANGED <<client, value, elapsed, running, countflag, pending,
                     sleep_count, pc, call, masked>>
  PROVE  SleepInv'
<1>1. /\ First' = First /\ SinceZero' = SinceZero /\ Passed' = Passed
      /\ Least' = Least /\ Warm' = Warm
  BY DEF First, SinceZero, Passed, Least, Warm
<1> QED
  BY <1>1 DEF SleepInv, SleepShape, StartPart, TicksPart, AfterPart, FlagPart,
     EndPart, SleptPart, Lasted

LEMMA OneLess ==
  ASSUME NEW f \in Int, NEW v \in Int, NEW w \in Int, w >= v - 1
  PROVE  /\ f - v \in Int /\ f - w \in Int /\ f - w <= f - v + 1
         /\ \A g \in Int : /\ g + f - v \in Int /\ g + f - w \in Int
                          /\ g + f - w <= g + f - v + 1
  OBVIOUS

LEMMA OneMore ==
  ASSUME NEW f \in Int, NEW v \in Int, NEW w \in Int, w <= v + 1
  PROVE  f + v \in Int /\ f + w \in Int /\ f + w <= f + v + 1
  OBVIOUS

\* A cycle of the counter.
LEMMA CycleKeepsSleep == SleepInv /\ Cycle => SleepInv'
<1> SUFFICES ASSUME SleepInv, Cycle PROVE SleepInv'
  OBVIOUS
<1>1. /\ UNCHANGED <<client, running, sleep_count, pc, call, masked>>
      /\ running
      /\ value = 1 => ~pending
      /\ value' = IF value = 0 THEN Reload ELSE value - 1
      /\ countflag' = (countflag \/ value = 1)
      /\ pending' = (pending \/ value = 1)
      /\ elapsed' = IF client = "sleeps" /\ pc # "idle"
                      THEN Min({elapsed + 1, MaxElapsed}) ELSE 0
  BY DEF Cycle, main
<1>2. /\ Reload \in Nat \ {0} /\ MaxElapsed \in Nat
      /\ value \in 0 .. Reload /\ elapsed \in 0 .. MaxElapsed
      /\ countflag \in BOOLEAN /\ pending \in BOOLEAN
  BY ClockAssumption DEF SleepInv, SleepShape
<1>3. Min({elapsed + 1, MaxElapsed}) \in 0 .. MaxElapsed
  BY <1>2, MinOfTwo
<1>4. /\ value' \in 0 .. Reload /\ elapsed' \in 0 .. MaxElapsed
      /\ countflag' \in BOOLEAN /\ pending' \in BOOLEAN
  BY <1>1, <1>2, <1>3
<1>5. CASE pc \notin SleepPcs
  BY <1>1, <1>4, <1>5, IdleKeepsSleep DEF SleepInv, SleepShape
<1>6. CASE pc \in SleepPcs
  <2>1. /\ Turn \in Nat /\ Turn = Reload + 1 /\ client = "sleeps"
        /\ call.op \in {"msleep", "usleep"} /\ call.ticks \in Nat
        /\ SinceZero \in 0 .. Turn /\ First \in Nat
        /\ call.op = "msleep" => First = 0
        /\ call.op = "usleep" =>
             /\ call.start \in 0 .. Reload
             /\ First >= call.start /\ (call.start = 0 => First = Turn)
    BY <1>6, SleepTypes
  <2>2. /\ elapsed' = Min({elapsed + 1, MaxElapsed})
        /\ First' = First /\ Warm' = Warm /\ Least' = Least
    BY <1>1, <1>6, <2>1 DEF First, Warm, Least, SleepPcs
  <2>3. /\ value = 1 => SinceZero = Turn - 1 /\ SinceZero' = 0
        /\ value # 1 => SinceZero' <= SinceZero + 1
        /\ SinceZero' \in 0 .. Turn
    <3>1. CASE value = 0
      BY <1>1, <1>2, <2>1, <3>1 DEF SinceZero
    <3>2. CASE value = 1
      <4>1. ~pending /\ pending'
        BY <1>1, <3>2, Zenon
      <4>2. value' = 0
        BY <1>1, <3>2
      <4> QED
        BY <1>2, <2>1, <3>2, <4>1, <4>2 DEF SinceZero
    <3>3. CASE value > 1
      <4>1. SinceZero = Turn - value /\ SinceZero' = Turn - value'
            /\ value' = value - 1 /\ value \in Int /\ value' \in Int
        BY <1>1, <1>2, <2>1, <3>3 DEF SinceZero
      <4>2. \A t, r, v, w \in Int : t = r + 1 /\ v > 1 /\ v <= r /\ w = v - 1 =>
              t - w <= t - v + 1 /\ t - w \in 0 .. t
        OBVIOUS
      <4> QED
        BY <1>2, <2>1, <3>3, <4>1, <4>2
    <3> QED
      BY <1>2, <3>1, <3>2, <3>3
  <2>4. \A m, n \in Int : Lasted(m) /\ n <= m + 1 => Long(elapsed', n)
    BY <1>2, <2>2, LongGrows DEF Lasted
  <2>5. value' >= value - 1
    BY <1>1, <1>2
  <2>15. /\ First \in Int /\ Turn \in Int /\ value \in Int /\ value' \in Int
         /\ SinceZero \in Int /\ SinceZero' \in Int /\ value' >= value - 1
    BY <1>2, <1>4, <2>1, <2>3, <2>5
  <2>6. ASSUME Warm, call.op = "usleep"
        PROVE  Long(elapsed', First - value') \/ (call.start = 0 /\ value' = 0)
    <3>1. CASE Lasted(First - value)
      <4>1. First - value \in Int /\ First - value' \in Int
            /\ First - value' <= First - value + 1
        BY <2>15, OneLess
      <4> QED
        BY <2>4, <3>1, <4>1
    <3>2. CASE call.start = 0 /\ value = 0
      <4>1. First = Turn /\ value' = Reload /\ First - value' = 1
        BY <1>1, <1>2, <2>1, <2>6, <3>2
      <4>2. Long(elapsed', 1)
        BY <1>2, <2>2, MinOfTwo DEF Long
      <4> QED
        BY <4>1, <4>2
    <3> QED
      BY <1>6, <2>6, <3>1, <3>2 DEF SleepInv, StartPart
  <2>7. ASSUME Warm, value = 1 PROVE Long(elapsed', First)
    <3>1. CASE call.op = "usleep"
      <4>1. Lasted(First - 1)
        BY <1>6, <2>7, <3>1 DEF SleepInv, StartPart
      <4>2. First - 1 \in Int /\ First \in Int /\ First <= First - 1 + 1
        BY <2>1
      <4> QED
        BY <2>4, <4>1, <4>2
    <3>2. CASE call.op = "msleep"
      BY <1>4, <2>1, <3>2 DEF Long
    <3> QED
      BY <2>1, <3>1, <3>2
  <2>8. StartPart'
    BY <1>1, <2>2, <2>6 DEF StartPart, Lasted
  <2>9. TicksPart'
    <3> SUFFICES ASSUME pc = "sleep", Warm
                 PROVE  /\ sleep_count \in 0 .. call.ticks
                        /\ Passed' >= 1 =>
                             Long(elapsed', First + (Passed' - 1) * Turn + SinceZero')
      BY <1>1, <2>2 DEF TicksPart, Lasted
    <3>1. /\ sleep_count \in 0 .. call.ticks
          /\ Passed >= 1 => Lasted(First + (Passed - 1) * Turn + SinceZero)
      BY DEF SleepInv, TicksPart
    <3>5. Passed' = IF value = 1 THEN Passed + 1 ELSE Passed
      <4>1. /\ value = 1 => ~pending /\ pending'
            /\ value # 1 => (pending' <=> pending)
        BY <1>1, Zenon
      <4>2. /\ call.ticks \in Int /\ sleep_count \in Int
            /\ UNCHANGED <<call, sleep_count>>
        BY <1>1, <2>1, <3>1
      <4> QED
        BY <4>1, <4>2 DEF Passed
    <3>2. Passed \in Nat /\ (Passed - 1) * Turn \in Int
          /\ Passed * Turn \in Int /\ Passed * Turn = (Passed - 1) * Turn + Turn
      BY <1>2, <2>1, <3>1 DEF Passed
    <3>3. CASE value # 1
      <4> DEFINE p == (Passed - 1) * Turn
      <4>1. p \in Int
        BY <3>2
      <4>2. (Passed' - 1) * Turn = p
        BY <3>5, <3>3
      <4> HIDE DEF p
      <4>3. First + p + SinceZero \in Int /\ First + p + SinceZero' \in Int
            /\ First + p + SinceZero' <= First + p + SinceZero + 1
        <5>1. First + p \in Int
          BY <2>15, <4>1
        <5> QED
          BY <2>3, <2>15, <3>3, <5>1, OneMore
      <4>4. Passed >= 1 => Lasted(First + p + SinceZero)
        BY <3>1 DEF p
      <4> QED
        BY <3>5, <2>4, <3>1, <3>3, <4>2, <4>3, <4>4
    <3>4. CASE value = 1
      <4> DEFINE p == (Passed - 1) * Turn
                 q == Passed * Turn
      <4>1. p \in Int /\ q \in Int /\ q = p + Turn
        BY <3>2
      <4>2. (Passed' - 1) * Turn = q
        BY <3>5, <3>2, <3>4
      <4>3. Passed = 0 => q = 0
        BY <2>1
      <4>4. Passed >= 1 => Lasted(First + p + SinceZero)
        BY <3>1 DEF p
      <4> HIDE DEF p, q
      <4>5. First + p + SinceZero \in Int /\ First + q + SinceZero' \in Int
            /\ First + q + SinceZero' <= First + p + SinceZero + 1
            /\ SinceZero' = 0
        BY <2>3, <2>15, <3>4, <4>1
      <4>6. CASE Passed >= 1
        BY <2>4, <3>1, <4>2, <4>4, <4>5, <4>6
      <4>7. CASE Passed = 0
        <5>1. First + q + SinceZero' = First
          BY <2>1, <4>3, <4>5, <4>7
        <5> QED
          BY <2>7, <3>1, <3>4, <4>2, <5>1
      <4> QED
        BY <3>2, <4>6, <4>7
    <3> QED
      BY <3>3, <3>4
  <2>10. AfterPart'
    <3> SUFFICES ASSUME pc \in {"rest", "wrap", "tail", "wait"}, Warm, call.ticks > 0
                 PROVE  Long(elapsed', First + call.ticks * Turn - value')
      BY <1>1, <2>2 DEF AfterPart, Lasted
    <3> DEFINE p == call.ticks * Turn
    <3>1. p \in Int /\ Lasted(First + p - value)
      BY <2>1 DEF SleepInv, AfterPart
    <3> HIDE DEF p
    <3>2. First + p - value \in Int /\ First + p - value' \in Int
          /\ First + p - value' <= First + p - value + 1
      BY <2>15, <3>1, OneLess
    <3>3. Long(elapsed', First + p - value')
      BY <2>4, <3>1, <3>2
    <3> QED
      BY <3>3 DEF p
  <2>11. FlagPart'
    <3> SUFFICES ASSUME pc \in {"rest", "wrap", "wait"}, Warm, countflag \/ value = 1
                 PROVE  Long(elapsed', First + SinceZero')
      BY <1>1, <2>2 DEF FlagPart, Lasted
    <3>1. CASE value = 1
      <4>1. First + SinceZero' = First
        BY <2>1, <2>3, <3>1
      <4> QED
        BY <2>7, <3>1, <4>1
    <3>2. CASE value # 1
      <4>1. Lasted(First + SinceZero)
        BY <3>2 DEF SleepInv, FlagPart
      <4>2. First + SinceZero \in Int /\ First + SinceZero' \in Int
            /\ First + SinceZero' <= First + SinceZero + 1
        BY <2>3, <2>15, <3>2, OneMore
      <4> QED
        BY <2>4, <4>1, <4>2
    <3> QED
      BY <3>1, <3>2
  <2>12. EndPart'
    <3>1. ASSUME Warm, pc = "tail" PROVE Long(elapsed', First + Turn - value')
      <4>1. Lasted(First + Turn - value)
        BY <3>1 DEF SleepInv, EndPart
      <4>2. First + Turn - value \in Int /\ First + Turn - value' \in Int
            /\ First + Turn - value' <= First + Turn - value + 1
        BY <2>15, OneLess
      <4> QED
        BY <2>4, <4>1, <4>2
    <3> QED
      BY <1>1, <2>2, <3>1 DEF SleepInv, EndPart, Lasted
  <2>13. SleptPart'
    <3> SUFFICES ASSUME pc = "slept", Warm
                 PROVE  Long(elapsed', Least)
      BY <1>1, <2>2 DEF SleptPart, Lasted
    <3>1. Lasted(Least)
      BY DEF SleepInv, SleptPart
    <3>2. elapsed' \in Int /\ elapsed \in Int
          /\ (elapsed' = MaxElapsed \/ elapsed' = elapsed + 1)
          /\ (elapsed = MaxElapsed => elapsed' = MaxElapsed)
      BY <1>2, <2>2, MinOfTwo
    <3>3. Least \in Int
      BY <1>6, LeastType
    <3> QED
      BY <3>1, <3>2, <3>3 DEF Lasted, Long
  <2>14. SleepShape'
    BY <1>1, <1>4 DEF SleepInv, SleepShape
  <2> QED
    BY <2>8, <2>9, <2>10, <2>11, <2>12, <2>13, <2>14 DEF SleepInv
<1> QED
  BY <1>5, <1>6

\* The interrupt is taken: the counter is not zero, so as much has passed since
\* it was as before.
LEMMA TickStartKeepsSleep == SleepInv /\ TickStart => SleepInv'
<1> SUFFICES ASSUME SleepInv, TickStart PROVE SleepInv'
  OBVIOUS
<1>1. /\ UNCHANGED <<client, running, value, countflag, pc, call, masked, elapsed>>
      /\ pending /\ pending' = FALSE /\ value # 0
      /\ sleep_count' = IF sleep_count # 0 THEN sleep_count - 1 ELSE 0
  BY DEF TickStart, main
<1>2. CASE pc \notin SleepPcs
  BY <1>1, <1>2, IdleKeepsSleep DEF SleepInv, SleepShape
<1>3. CASE pc \in SleepPcs
  <2>1. /\ Turn \in Nat /\ call.ticks \in Nat /\ First \in Nat
        /\ SinceZero \in 0 .. Turn /\ elapsed \in 0 .. MaxElapsed
        /\ MaxElapsed \in Nat
    BY <1>3, SleepTypes, ClockAssumption
  <2>2. /\ First' = First /\ Warm' = Warm /\ Least' = Least
        /\ SinceZero' = SinceZero
    BY <1>1 DEF First, Warm, Least, SinceZero
  <2>3. SleepShape' /\ StartPart' /\ AfterPart' /\ FlagPart' /\ EndPart' /\ SleptPart'
    BY <1>1, <2>2 DEF SleepInv, SleepShape, StartPart, AfterPart, FlagPart,
       EndPart, SleptPart, Lasted
  <2>4. TicksPart'
    <3> SUFFICES ASSUME pc = "sleep", Warm
                 PROVE  /\ sleep_count' \in 0 .. call.ticks
                        /\ Passed' >= 1 =>
                             Lasted(First + (Passed' - 1) * Turn + SinceZero)
      BY <1>1, <2>2 DEF TicksPart, Lasted
    <3>1. /\ sleep_count \in 0 .. call.ticks
          /\ Passed >= 1 => Lasted(First + (Passed - 1) * Turn + SinceZero)
      BY DEF SleepInv, TicksPart
    <3>2. CASE sleep_count # 0
      <4>1. sleep_count' = sleep_count - 1 /\ Passed' = Passed
        BY <1>1, <2>1, <3>1, <3>2 DEF Passed
      <4> QED
        BY <2>1, <3>1, <3>2, <4>1
    <3>3. CASE sleep_count = 0
      <4>1. sleep_count' = 0 /\ Passed' = call.ticks /\ Passed = call.ticks + 1
        BY <1>1, <2>1, <3>1, <3>3 DEF Passed
      <4> DEFINE p == (Passed' - 1) * Turn
      <4>2. p \in Int /\ (Passed - 1) * Turn = p + Turn
        BY <2>1, <4>1
      <4> HIDE DEF p
      <4>3. Lasted(First + (p + Turn) + SinceZero)
        BY <2>1, <3>1, <4>1, <4>2
      <4>4. /\ First + (p + Turn) + SinceZero \in Int /\ First + p + SinceZero \in Int
            /\ First + p + SinceZero <= First + (p + Turn) + SinceZero
        BY <2>1, <4>2
      <4>5. Lasted(First + p + SinceZero)
        BY <2>1, <4>3, <4>4, LongWeaker DEF Lasted
      <4> QED
        BY <2>1, <4>1, <4>5 DEF p
    <3> QED
      BY <3>2, <3>3
  <2> QED
    BY <2>3, <2>4 DEF SleepInv
<1> QED
  BY <1>2, <1>3

LEMMA LastedWeaker ==
  ASSUME SleepInv, pc \in SleepPcs, NEW m \in Int, NEW n \in Int, Lasted(m), n <= m
  PROVE  Lasted(n)
<1>1. elapsed \in Int
  BY SleepTypes, ClockAssumption
<1> QED
  BY <1>1, LongWeaker DEF Lasted

\* usleep sees its end value: the counter has come as far down as asked.
LEMMA EndReached ==
  ASSUME SleepInv, Warm, call.op = "usleep", pc \in {"tail", "wait"},
         ReachedEnd \/ (pc = "wait" /\ countflag)
  PROVE  Lasted(Least)
<1>1. /\ Turn \in Nat /\ Turn = Reload + 1 /\ Reload \in Nat
      /\ value \in 0 .. Reload /\ call.ticks \in Nat /\ First \in Nat
      /\ call.start \in 0 .. Reload /\ call.cycles \in 0 .. Turn /\ call.end \in Int
      /\ First >= call.start /\ (call.start = 0 => First = Turn)
      /\ call.start # 0 => First = call.start
      /\ SinceZero \in 0 .. Turn
      /\ pc \in SleepPcs /\ Least \in Int
  BY SleepTypes, LeastType DEF SleepPcs
<1> DEFINE ticked == (call.ticks - 1) * Turn
<1>2. /\ ticked \in Int
      /\ call.ticks * Turn = ticked + Turn
  BY <1>1
<1>3. /\ call.ticks > 0 => Least = ticked + call.cycles
      /\ call.ticks = 0 => Least = call.cycles
  BY <1>1 DEF Least
<1> HIDE DEF ticked
<1>4. ASSUME pc = "tail" PROVE call.cycles <= First + Turn - value
  <2>1. /\ call.cycles > call.start
        /\ call.end = Reload - (call.cycles - call.start)
        /\ call.end < 0 \/ value <= call.end
    BY <1>4 DEF SleepInv, EndPart, ReachedEnd
  <2>2. \A t, r, v, s, c, f, e \in Int :
          /\ t = r + 1 /\ 0 <= v /\ v <= r /\ 0 <= s /\ c <= t /\ f >= s
          /\ s = 0 => f = t
          /\ e = r - (c - s) /\ (e < 0 \/ v <= e)
          => c <= f + t - v
    OBVIOUS
  <2> QED
    BY <1>1, <2>1, <2>2
<1>5. CASE call.ticks > 0
  <2>1. Lasted(First + call.ticks * Turn - value)
    BY <1>5 DEF SleepInv, AfterPart
  <2>2. call.cycles <= First + Turn - value
    <3>1. CASE pc = "wait"
      <4>1. call.cycles <= call.start
        BY <3>1 DEF SleepInv, EndPart
      <4>2. \A t, r, v, s, c, f \in Int :
              t = r + 1 /\ v <= r /\ c <= s /\ f >= s => c <= f + t - v
        OBVIOUS
      <4> QED
        BY <1>1, <4>1, <4>2
    <3> QED
      BY <1>4, <3>1
  <2>3. \A f, p, t, v, c \in Int : c <= f + t - v =>
          /\ f + (p + t) - v \in Int /\ p + c \in Int
          /\ p + c <= f + (p + t) - v
    OBVIOUS
  <2>4. /\ First + (ticked + Turn) - value \in Int
        /\ ticked + call.cycles <= First + (ticked + Turn) - value
    BY <1>1, <1>2, <2>2, <2>3
  <2> QED
    BY <1>1, <1>2, <1>3, <1>5, <2>1, <2>4, LastedWeaker
<1>6. CASE call.ticks = 0
  <2>1. CASE pc = "tail"
    <3>1. Lasted(First + Turn - value) /\ First + Turn - value \in Int
      BY <1>1, <2>1 DEF SleepInv, EndPart
    <3> QED
      BY <1>1, <1>3, <1>4, <1>6, <2>1, <3>1, LastedWeaker
  <2>2. CASE pc = "wait" /\ countflag
    <3>1. Lasted(First + SinceZero) /\ First + SinceZero \in Int
      BY <1>1, <2>2 DEF SleepInv, FlagPart
    <3>2. call.cycles <= call.start
      BY <2>2 DEF SleepInv, EndPart
    <3>3. call.cycles <= First + SinceZero
      BY <1>1, <3>2
    <3> QED
      BY <1>1, <1>3, <1>6, <3>1, <3>3, LastedWeaker
  <2>3. CASE pc = "wait" /\ ReachedEnd
    <3>1. /\ call.cycles <= call.start /\ call.end = call.start - call.cycles
          /\ call.end < 0 \/ value <= call.end
      BY <2>3 DEF SleepInv, EndPart, ReachedEnd
    <3>2. value <= call.start - call.cycles
      BY <1>1, <3>1
    <3>3. CASE Lasted(First - value)
      <4>1. First - value \in Int /\ call.cycles <= First - value
        <5>1. \A f, s, c, v \in Int : f >= s /\ v <= s - c => c <= f - v /\ f - v \in Int
          OBVIOUS
        <5> QED
          BY <1>1, <3>2, <5>1
      <4> QED
        BY <1>1, <1>3, <1>6, <3>3, <4>1, LastedWeaker
    <3>4. CASE call.start = 0
      <4>1. Least = 0 /\ elapsed \in 0 .. MaxElapsed /\ MaxElapsed \in Nat
        BY <1>1, <1>3, <1>6, <3>1, <3>4, SleepTypes, ClockAssumption
      <4> QED
        BY <4>1 DEF Lasted, Long
    <3> QED
      BY <1>1, <3>3, <3>4 DEF SleepInv, StartPart
  <2> QED
    BY <2>1, <2>2, <2>3
<1> QED
  BY <1>1, <1>5, <1>6

LEMMA SleepingKeepsSleep == SleepInv /\ Sleeping => SleepInv'
<1> SUFFICES ASSUME SleepInv, Sleeping PROVE SleepInv'
  OBVIOUS
<1>1. /\ client' = client
      /\ Reload \in Nat \ {0} /\ MaxElapsed \in Nat
      /\ SleepTicks \subseteq Nat /\ SleepCycles \subseteq 0 .. Reload + 1
      /\ value \in 0 .. Reload /\ elapsed \in 0 .. MaxElapsed
      /\ running \in BOOLEAN /\ countflag \in BOOLEAN /\ pending \in BOOLEAN
  BY ClockAssumption DEF Sleeping, SleepInv, SleepShape
<1>2. Turn \in Nat /\ Turn = Reload + 1
  BY <1>1 DEF Turn
<1>3. CASE Msleep
  <2>1. PICK n \in SleepTicks :
          /\ Calls("sleeps", "sleep", [op |-> "msleep", ticks |-> n])
          /\ sleep_count' = n /\ EnsureRunning /\ elapsed' = 0 /\ UNCHANGED masked
    BY <1>3 DEF Msleep
  <2>2. /\ client = "sleeps" /\ pc' = "sleep" /\ ~masked /\ ~pending
        /\ call' = [op |-> "msleep", ticks |-> n]
    BY <2>1 DEF Calls, At, CpuFree, SleepInv, SleepShape
  <2>3. /\ running' = TRUE /\ value' \in 0 .. Reload /\ countflag' \in BOOLEAN
        /\ pending' = pending
    <3>1. CASE running
      BY <1>1, <2>1, <3>1 DEF EnsureRunning
    <3>2. CASE ~running
      <4>1. value' = 0 /\ countflag' = FALSE /\ 0 \in 0 .. Reload
        BY <1>1, <2>1, <3>2 DEF EnsureRunning, Cleared
      <4> QED
        BY <2>1, <4>1 DEF EnsureRunning
    <3> QED
      BY <3>1, <3>2
  <2>4. n \in Nat /\ call' \in SleepCalls /\ call'.op = "msleep" /\ call'.ticks = n
    BY <1>1, <2>2 DEF SleepCalls
  <2>5. SleepShape'
    BY <1>1, <2>1, <2>2, <2>3, <2>4 DEF SleepShape, SleepPcs
  <2>6. Passed' = 0
    BY <2>1, <2>2, <2>3, <2>4 DEF Passed
  <2>7. TicksPart'
    BY <2>1, <2>4, <2>6 DEF TicksPart
  <2> QED
    BY <2>2, <2>4, <2>5, <2>7
       DEF SleepInv, StartPart, AfterPart, FlagPart, EndPart, SleptPart
<1>4. CASE Usleep
  <2>1. PICK n \in SleepTicks, c \in SleepCycles, short \in BOOLEAN :
          /\ Calls("sleeps", "clear",
                   [op |-> "usleep", ticks |-> n, cycles |-> c, short |-> short,
                    start |-> value, end |-> 0, warm |-> running])
          /\ elapsed' = 0 /\ UNCHANGED <<counter, sleep_count, masked>>
    BY <1>4 DEF Usleep
  <2>2. /\ client = "sleeps" /\ pc' = "clear" /\ ~masked
        /\ call' = [op |-> "usleep", ticks |-> n, cycles |-> c, short |-> short,
                    start |-> value, end |-> 0, warm |-> running]
        /\ UNCHANGED <<running, value, countflag, pending>>
    BY <2>1 DEF Calls, At, SleepInv, SleepShape, counter
  <2>3. /\ call' \in SleepCalls /\ call'.op = "usleep" /\ call'.start = value
        /\ call'.warm = running
    BY <1>1, <2>2 DEF SleepCalls
  <2>4. SleepShape'
    BY <1>1, <2>1, <2>2, <2>3 DEF SleepShape, SleepPcs
  <2>5. StartPart'
    <3>1. CASE value = 0
      BY <2>2, <2>3, <3>1 DEF StartPart
    <3>2. CASE value # 0
      <4>1. First' = value /\ value' = value
        BY <2>2, <2>3, <3>2 DEF First
      <4>2. value - value = 0
        BY <1>1
      <4> QED
        BY <1>1, <2>1, <4>1, <4>2 DEF StartPart, Lasted, Long
    <3> QED
      BY <3>1, <3>2
  <2> QED
    BY <2>2, <2>4, <2>5
       DEF SleepInv, TicksPart, AfterPart, FlagPart, EndPart, SleptPart
\* From here on a call is under way.
<1>5. ASSUME pc \in SleepPcs, pc' \in SleepPcs, UNCHANGED <<masked, elapsed>>
      PROVE  /\ client = "sleeps" /\ ~masked /\ call \in SleepCalls
             /\ call.op = "msleep" => pc \in {"sleep", "slept"}
             /\ call.op \in {"msleep", "usleep"}
  BY <1>5 DEF SleepInv, SleepShape, SleepCalls
<1>6. CASE UsleepStart
  <2>1. /\ pc = "clear" /\ countflag' = FALSE /\ pending' = pending
        /\ ~(pending /\ ~masked)
        /\ UNCHANGED <<call, masked, elapsed>>
        /\ call.warm => value' = value
        /\ value' \in 0 .. Reload /\ running' \in BOOLEAN
        /\ sleep_count' = IF call.ticks > 0 THEN call.ticks ELSE sleep_count
        /\ pc' = IF call.ticks > 0 THEN "sleep" ELSE "rest"
    <3>1. /\ pc = "clear" /\ countflag' = FALSE /\ pending' = pending
          /\ pending => masked
          /\ UNCHANGED <<call, masked, elapsed>>
          /\ sleep_count' = IF call.ticks > 0 THEN call.ticks ELSE sleep_count
          /\ pc' = IF call.ticks > 0 THEN "sleep" ELSE "rest"
          /\ call.warm => running
      BY <1>6 DEF UsleepStart, EraseFlag, At, CpuFree, Goto, SleepInv, SleepShape
    <3>2. CASE call.short
      BY <1>1, <1>6, <3>1, <3>2 DEF UsleepStart
    <3>3. CASE ~call.short
      <4>1. running' = TRUE /\ value' = IF running THEN value ELSE 0
        BY <1>6, <3>3 DEF UsleepStart
      <4> QED
        BY <1>1, <3>1, <4>1
    <3> QED
      BY <3>2, <3>3
  <2>2. /\ client = "sleeps" /\ ~masked /\ call \in SleepCalls /\ call.op = "usleep"
        /\ call.ticks \in Nat
    BY <2>1, <1>5, SleepTypes DEF SleepPcs
  <2>3. SleepShape'
    BY <1>1, <2>1, <2>2 DEF SleepShape, SleepPcs
  <2>4. Warm' = Warm /\ First' = First /\ (Warm => call.warm)
    BY <2>1, <2>2 DEF Warm, First
  <2>5. StartPart'
    BY <2>1, <2>2, <2>4 DEF SleepInv, StartPart, Lasted, SleepPcs
  <2>6. call.ticks > 0 => Passed' = 0 /\ sleep_count' = call.ticks
    BY <2>1, <2>2 DEF Passed
  <2>7. TicksPart'
    BY <2>1, <2>2, <2>6 DEF TicksPart
  <2>8. AfterPart' /\ FlagPart' /\ EndPart' /\ SleptPart'
    BY <2>1 DEF AfterPart, FlagPart, EndPart, SleptPart
  <2> QED
    BY <2>3, <2>5, <2>7, <2>8 DEF SleepInv
\* The steps that leave counter and flag.
<1>7. ASSUME pc \in SleepPcs, pc' \in SleepPcs \ {"sleep", "clear"},
             call.op = "msleep" => pc' = "slept",
             call'.op = call.op, call'.ticks = call.ticks, call' \in SleepCalls,
             call.op = "usleep" => /\ call'.start = call.start
                                   /\ call'.cycles = call.cycles
                                   /\ call'.warm = call.warm,
             UNCHANGED <<running, value, pending, masked, elapsed>>,
             countflag' \in BOOLEAN, countflag' => countflag,
             AfterPart', FlagPart', EndPart', SleptPart'
      PROVE  SleepInv'
  <2>1. client = "sleeps" /\ ~masked /\ call.op \in {"msleep", "usleep"}
    BY <1>5, <1>7
  <2>2. SleepShape'
    BY <1>1, <1>7, <2>1 DEF SleepShape
  <2>3. StartPart' /\ TicksPart'
    <3>1. Warm' => Warm
      BY <1>7 DEF Warm
    <3>2. call.op = "usleep" => First' = First
      BY <1>7 DEF First
    <3> QED
      BY <1>7, <3>1, <3>2 DEF SleepInv, StartPart, TicksPart, Lasted
  <2> QED
    BY <1>7, <2>2, <2>3 DEF SleepInv
<1>14. ASSUME pc \in {"sleep", "rest", "wrap", "tail", "wait"}, Sleeping
       PROVE  /\ client = "sleeps" /\ ~masked /\ call \in SleepCalls
              /\ call.op \in {"msleep", "usleep"} /\ call.ticks \in Nat
              /\ call.op = "msleep" => pc = "sleep"
              /\ pc = "sleep" /\ call.op = "usleep" => call.ticks > 0
              /\ (pending => masked) => SinceZero = Turn - value
              /\ First \in Nat /\ Least \in Int /\ SinceZero \in 0 .. Turn
  <2>1. pc \in SleepPcs
    BY <1>14 DEF SleepPcs
  <2>2. /\ client = "sleeps" /\ ~masked /\ call \in SleepCalls
        /\ call.op = "msleep" => pc \in {"sleep", "slept"}
        /\ pc = "sleep" /\ call.op = "usleep" => call.ticks > 0
    BY <2>1 DEF SleepInv, SleepShape
  <2>3. (pending => masked) => SinceZero = Turn - value
    BY <2>2 DEF SinceZero
  <2> QED
    BY <1>14, <2>1, <2>2, <2>3, SleepTypes, LeastType
<1>8. CASE Wake
  <2>1. /\ pc = "sleep" /\ sleep_count = 0 /\ (pending => masked)
        /\ pc' = IF call.op = "msleep" THEN "slept" ELSE "rest"
        /\ UNCHANGED <<call, masked, elapsed, running, value, countflag, pending>>
    BY <1>8 DEF Wake, At, CpuFree, Goto, counter
  <2>2. /\ ~masked /\ call \in SleepCalls /\ call.op \in {"msleep", "usleep"}
        /\ call.ticks \in Nat /\ SinceZero = Turn - value
        /\ call.op = "usleep" => call.ticks > 0
        /\ First \in Nat /\ Least \in Int /\ pc \in SleepPcs /\ SinceZero \in 0 .. Turn
    BY <1>14, <2>1 DEF SleepPcs
  <2> DEFINE ticked == (call.ticks - 1) * Turn
  <2>3. ticked \in Int /\ call.ticks * Turn = ticked + Turn
    BY <1>2, <2>2
  <2>4. Warm /\ call.ticks > 0 => Lasted(First + ticked + SinceZero)
    <3>1. Passed = call.ticks
      BY <2>1, <2>2 DEF Passed
    <3> QED
      BY <2>1, <2>2, <3>1 DEF SleepInv, TicksPart
  <2>5. First' = First /\ Warm' = Warm /\ Least' = Least /\ SinceZero' = SinceZero
    BY <2>1 DEF First, Warm, Least, SinceZero
  <2>6. SleptPart'
    <3> SUFFICES ASSUME pc' = "slept", Warm PROVE Lasted(Least)
      BY <2>1, <2>5 DEF SleptPart, Lasted
    <3>1. call.op = "msleep"
      BY <2>1
    <3>2. CASE call.ticks = 0
      <4>1. Least = 0
        BY <3>1, <3>2 DEF Least
      <4> QED
        BY <1>1, <4>1 DEF Lasted, Long
    <3>3. CASE call.ticks > 0
      <4>1. Least = ticked
        BY <1>1, <1>2, <2>2, <3>1, <3>3 DEF Least
      <4> HIDE DEF ticked
      <4>2. First + ticked + SinceZero \in Int /\ ticked <= First + ticked + SinceZero
        BY <1>2, <2>2, <2>3
      <4> QED
        BY <2>2, <2>3, <2>4, <3>3, <4>1, <4>2, LastedWeaker
    <3> QED
      BY <2>2, <3>2, <3>3
  <2> HIDE DEF ticked
  <2>7. Warm /\ call.ticks > 0 => Lasted(First + call.ticks * Turn - value)
    <3>1. \A f, p, t, v \in Int : f + p + (t - v) = f + (p + t) - v
      OBVIOUS
    <3>2. First + ticked + SinceZero = First + call.ticks * Turn - value
      BY <1>1, <1>2, <2>2, <2>3, <3>1
    <3> QED
      BY <2>4, <3>2
  <2>8. AfterPart'
    BY <2>1, <2>5, <2>7 DEF AfterPart, Lasted
  <2>9. FlagPart'
    <3> SUFFICES ASSUME pc' = "rest", Warm PROVE Lasted(First + SinceZero)
      BY <2>1, <2>5 DEF FlagPart, Lasted
    <3>1. call.ticks > 0
      BY <2>1, <2>2
    <3>2. ticked >= 0
      BY <1>2, <2>2, <3>1 DEF ticked
    <3>3. /\ First + ticked + SinceZero \in Int /\ First + SinceZero \in Int
          /\ First + SinceZero <= First + ticked + SinceZero
      BY <1>2, <2>2, <2>3, <3>2
    <3> QED
      BY <2>2, <2>4, <3>1, <3>3, LastedWeaker
  <2>10. EndPart'
    BY <2>1 DEF EndPart
  <2> QED
    BY <1>1, <1>7, <2>1, <2>2, <2>6, <2>8, <2>9, <2>10 DEF SleepPcs
<1>9. CASE UsleepRest
  <2>1. /\ pc = "rest"
        /\ IF call.cycles > call.start
             THEN pc' = "wrap"
                  /\ call' = [call EXCEPT !.end = Reload - (call.cycles - call.start)]
             ELSE pc' = "wait"
                  /\ call' = [call EXCEPT !.end = call.start - call.cycles]
        /\ UNCHANGED <<masked, elapsed, running, value, countflag, pending>>
    BY <1>9 DEF UsleepRest, At, counter
  <2>2. /\ call \in SleepCalls /\ call.op = "usleep" /\ pc \in SleepPcs
    BY <1>9, <1>14, <2>1 DEF SleepPcs
  <2>3. \A n \in Int :
          LET c == [call EXCEPT !.end = n] IN
            /\ c \in SleepCalls /\ c.op = call.op /\ c.ticks = call.ticks
            /\ c.start = call.start /\ c.cycles = call.cycles /\ c.warm = call.warm
            /\ c.end = n
    BY <2>2 DEF SleepCalls
  <2>4. call.cycles \in Int /\ call.start \in Int
    BY <1>1, <2>2, SleepTypes
  <2>5. /\ call' \in SleepCalls /\ call'.op = call.op /\ call'.ticks = call.ticks
        /\ call'.start = call.start /\ call'.cycles = call.cycles
        /\ call'.warm = call.warm
        /\ call.cycles > call.start =>
             pc' = "wrap" /\ call'.end = Reload - (call.cycles - call.start)
        /\ call.cycles <= call.start =>
             pc' = "wait" /\ call'.end = call.start - call.cycles
        /\ pc' \in {"wrap", "wait"}
    <3>1. CASE call.cycles > call.start
      <4>1. PICK n \in Int : n = Reload - (call.cycles - call.start)
        BY <1>1, <2>4
      <4>2. call' = [call EXCEPT !.end = n]
        BY <2>1, <3>1, <4>1
      <4> QED
        BY <2>1, <2>3, <2>4, <3>1, <4>1, <4>2
    <3>2. CASE ~(call.cycles > call.start)
      <4>1. PICK n \in Int : n = call.start - call.cycles
        BY <1>1, <2>4
      <4>2. call' = [call EXCEPT !.end = n]
        BY <2>1, <3>2, <4>1
      <4> QED
        BY <2>1, <2>3, <2>4, <3>2, <4>1, <4>2
    <3> QED
      BY <3>1, <3>2
  <2>6. First' = First /\ Warm' = Warm /\ SinceZero' = SinceZero
    BY <2>1, <2>2, <2>5 DEF First, Warm, SinceZero
  <2>7. AfterPart' /\ FlagPart'
    BY <2>1, <2>5, <2>6 DEF SleepInv, AfterPart, FlagPart, Lasted
  <2>8. EndPart'
    BY <2>4, <2>5 DEF EndPart
  <2>9. SleptPart'
    BY <2>5 DEF SleptPart
  <2> QED
    BY <1>1, <1>7, <2>1, <2>2, <2>5, <2>7, <2>8, <2>9 DEF SleepPcs
<1>10. CASE PollWrap
  <2>1. /\ pc = "wrap" /\ pc' = "tail" /\ countflag /\ countflag' = FALSE
        /\ (pending => masked)
        /\ UNCHANGED <<call, masked, elapsed, running, value, pending>>
    BY <1>10 DEF PollWrap, At, CpuFree, Goto
  <2>2. /\ call \in SleepCalls /\ call.op = "usleep" /\ pc \in SleepPcs
        /\ SinceZero = Turn - value /\ First \in Nat
    BY <1>10, <1>14, <2>1 DEF SleepPcs
  <2>3. First' = First /\ Warm' = Warm
    BY <2>1 DEF First, Warm
  <2>4. AfterPart' /\ FlagPart' /\ SleptPart'
    BY <2>1, <2>3 DEF SleepInv, AfterPart, FlagPart, SleptPart, Lasted
  <2>5. EndPart'
    <3>1. Warm => Lasted(First + SinceZero)
      BY <2>1 DEF SleepInv, FlagPart
    <3>2. First + SinceZero = First + Turn - value
      BY <1>1, <1>2, <2>2
    <3>3. Warm => Lasted(First + Turn - value)
      BY <3>1, <3>2
    <3> QED
      BY <2>1, <2>3, <3>3 DEF SleepInv, EndPart, Lasted
  <2> QED
    BY <1>1, <1>7, <2>1, <2>2, <2>4, <2>5 DEF SleepPcs
<1>11. ASSUME PollTail \/ PollWait PROVE SleepInv'
  <2>1. /\ pc \in {"tail", "wait"} /\ pc' = "slept"
        /\ ReachedEnd \/ (pc = "wait" /\ countflag)
        /\ UNCHANGED <<call, masked, elapsed, running, value, pending>>
        /\ countflag' \in BOOLEAN /\ (countflag' => countflag)
    <3>1. CASE PollTail
      BY <1>1, <3>1 DEF PollTail, At, Goto, counter
    <3>2. CASE PollWait
      BY <3>2, <1>1 DEF PollWait, At, Goto
    <3> QED
      BY <1>11, <3>1, <3>2
  <2>2. /\ call \in SleepCalls /\ call.op = "usleep" /\ pc \in SleepPcs
    BY <1>14, <2>1 DEF SleepPcs
  <2>3. Warm' = Warm /\ Least' = Least
    BY <2>1 DEF Warm, Least
  <2>4. SleptPart'
    BY <2>1, <2>2, <2>3, EndReached DEF SleptPart, Lasted
  <2>5. AfterPart' /\ FlagPart' /\ EndPart'
    BY <2>1 DEF AfterPart, FlagPart, EndPart
  <2> QED
    BY <1>1, <1>7, <2>1, <2>2, <2>4, <2>5 DEF SleepPcs
<1>13. CASE SleepReturns
  <2>1. pc' = "idle" /\ elapsed' = 0 /\ UNCHANGED <<counter, masked>>
    BY <1>13 DEF SleepReturns
  <2> QED
    BY <1>1, <2>1, IdleKeepsSleep DEF counter, SleepPcs, SleepInv, SleepShape
<1> QED
  BY <1>3, <1>4, <1>6, <1>8, <1>9, <1>10, <1>11, <1>13 DEF Sleeping

LEMMA SleepNext == SleepInv /\ [Next]_vars => SleepInv'
<1> SUFFICES ASSUME SleepInv, [Next]_vars PROVE SleepInv'
  OBVIOUS
<1>1. CASE UNCHANGED vars
  BY <1>1, StillKeepsSleep DEF vars, counter, main
<1>2. CASE Cycle
  BY <1>2, CycleKeepsSleep
<1>3. CASE SysTick_Handler
  <2>1. CASE TickStart
    BY <2>1, TickStartKeepsSleep
  <2>2. CASE TickSlot \/ TickReturn \/ TimeTrack
    BY <2>2, StillKeepsSleep DEF TickSlot, TickReturn, TimeTrack, counter, main
  <2> QED
    BY <1>3, <2>1, <2>2 DEF SysTick_Handler
<1>4. CASE Control
  <2>1. /\ pc = "idle" /\ UNCHANGED <<client, elapsed, pc, masked>>
        /\ running' \in BOOLEAN /\ pending' = pending
        /\ \/ value' = 0 /\ countflag' = FALSE
           \/ UNCHANGED <<value, countflag>>
    BY <1>4 DEF Control, At, Start, Stop, Reset, TimerOn, TimerOff, Cleared,
       main, SleepInv, SleepShape
  <2>2. /\ value' \in 0 .. Reload /\ countflag' \in BOOLEAN
    <3>1. value \in 0 .. Reload /\ countflag \in BOOLEAN /\ 0 \in 0 .. Reload
      BY ClockAssumption DEF SleepInv, SleepShape
    <3> QED
      BY <2>1, <3>1
  <2> QED
    BY <2>1, <2>2, IdleKeepsSleep DEF SleepPcs, SleepInv, SleepShape
<1>5. CASE Sleeping
  BY <1>5, SleepingKeepsSleep
<1>6. CASE Registering
  <2>1. UNCHANGED <<client, value, running, countflag, pending, elapsed, masked>>
    BY <1>6 DEF Registering, AddCall, AddFind, AddPeriod, AddCountdown, Remove,
       counter, main, Goto
  <2>2. pc' \notin SleepPcs
    BY <1>6 DEF Registering, AddCall, AddFind, AddPeriod, AddCountdown, Remove,
       Calls, At, Goto, main, SleepPcs
  <2> QED
    BY <2>1, <2>2, IdleKeepsSleep DEF SleepInv, SleepShape
<1>7. CASE TimeKeeping
  <2>1. UNCHANGED <<client, value, running, countflag, pending, elapsed>>
    BY <1>7 DEF TimeKeeping, counter
  <2>2. pc' \notin SleepPcs
    BY <1>7 DEF TimeKeeping, SetCall, GetCall, TakeLock, SetSeconds, SetMsec,
       GetSeconds, GetMsec, Unlock, TimeReturns, Calls, At, Goto, SleepPcs
  <2>3. client = "sleeps" => ~masked'
    BY <1>7 DEF TimeKeeping, SetCall, GetCall, TakeLock, SetSeconds, SetMsec,
       GetSeconds, GetMsec, Unlock, TimeReturns, Calls, Goto, SleepInv, SleepShape
  <2> QED
    BY <2>1, <2>2, <2>3, IdleKeepsSleep DEF SleepInv, SleepShape
<1> QED
  BY <1>1, <1>2, <1>3, <1>4, <1>5, <1>6, <1>7 DEF Next

LEMMA SleepNotShort == SleepInv => NotShort
<1> SUFFICES ASSUME SleepInv, pc = "slept", Warm PROVE elapsed >= Least
  BY DEF NotShort, Warm
<1>1. pc \in SleepPcs
  BY DEF SleepPcs
<1>2. /\ Turn \in Nat /\ Turn = Reload + 1 /\ call.ticks \in SleepTicks
      /\ call.ticks \in Nat /\ elapsed \in Int /\ MaxElapsed \in Nat
      /\ call.op \in {"msleep", "usleep"}
      /\ call.op = "usleep" => call.cycles \in SleepCycles
  BY <1>1, SleepTypes, ClockAssumption
<1>3. Least <= MaxElapsed
  <2> DEFINE c == IF call.op = "usleep" THEN call.cycles ELSE 0
  <2>1. c \in SleepCycles \cup {0}
    BY <1>2
  <2>2. Least = (IF call.ticks > 0 THEN (call.ticks - 1) * (Reload + 1) ELSE 0) + c
    BY DEF Least
  <2> QED
    BY <1>2, <2>1, <2>2, ClockAssumption
<1>4. Lasted(Least)
  BY DEF SleepInv, SleptPart
<1>5. Least \in Int
  BY <1>1, LeastType
<1> QED
  BY <1>2, <1>3, <1>4, <1>5 DEF Lasted, Long

\* No sleep is shorter than asked, less the part of a tick that msleep loses:
\* for every length of a tick, every number of milliseconds and of cycles, and
\* wherever the ticks fall between usleep's read of the counter, its clearing
\* of the flag and its polls (systick.c:286-365).
THEOREM NotShortAlways == Spec => []NotShort
  BY SleepInit, SleepNext, SleepNotShort, PTL DEF Spec

(***************************************************************************)
(* The EEPROM.                                                             *)
(***************************************************************************)

\* Where an exchange is.
ToStart    == sta /\ \/ status = "08" /\ bus = "addr" /\ ~sto
                     \/ status = E!None /\ (sto \/ bus = "idle")
ToRestart  == sta /\ ~sto /\ \/ status = "10" /\ bus = "addr"
                             \/ status = E!None /\ bus = "send"
Addressing == ~sta /\ ~sto /\ bus = "addr" /\ status = E!None
Sending    == ~sta /\ ~sto /\ bus = "send" /\ status \in {E!None, "18", "28"}
Receiving  == ~sta /\ ~sto /\ bus = "recv" /\ status \in {E!None, "40", "50", "58"}
Failing    == ~sta /\ ~sto /\ \/ status = "38" /\ bus = "idle"
                              \/ status \in {"00", "20", "30", "48"} /\ bus # "idle"
Ended      == ~sta /\ status = E!None /\ (sto \/ bus = "idle")
Places == {"idle", "type", "probedSmall", "probedBig", "read", "wrote", "polled"}

Known == eepromType \in {"small", "big"}
Shape ==
  /\ state \in {"ok", "busy", "no_data", "nack", "arbitration", "bus_error"}
  /\ status \in {E!None, "00", "08", "10", "18", "20", "28", "30", "38", "40", "48", "50", "58"}
  /\ bus \in {"idle", "addr", "send", "recv"} /\ sta \in BOOLEAN /\ sto \in BOOLEAN
  /\ aa \in BOOLEAN /\ busy \in BOOLEAN
  /\ caller \in Places /\ chip \in Chips
  /\ eepromType \in {"unset", "none", "small", "big"}
  /\ op \in Ops /\ written \in 0 .. Len(op.data) /\ writeIndex \in Nat /\ readIndex \in Nat
  /\ mem \in [E!Offset -> Nat]
  /\ (answer = E!Waiting <=> caller # "idle")

StagePart ==
  /\ state # "busy" => Ended
  /\ state = "busy" =>
       /\ caller \notin {"idle", "type"}
       /\ \/ ToStart \/ Addressing \/ Sending \/ Failing
          \/ caller = "read" /\ (ToRestart \/ Receiving)
  /\ bus = "idle" => page = E!NoBytes

AddressLen == IF eepromType = "small" THEN 2 ELSE 3
PageStart == op.off + written       \* the offset of the page being written
\* The buffers, by the call that is under way.
PageBytes == [i \in 1 .. E!SizeAt(written) |-> E!Byte("d", op.data[written + i])]
CallPart ==
  /\ caller \notin {"idle", "type", "read"} => ctrlBuff = <<>> /\ readLength = 0
  /\ caller = "probedSmall" => outBuff = <<E!ProbeFirst>>
  /\ caller = "probedBig" => outBuff = <<E!EepromAddr>>
  /\ caller \in {"read", "wrote", "polled"} => Known
  /\ caller \in {"wrote", "polled"} => op.kind = "write" /\ written < Len(op.data)
  /\ caller = "wrote" => outBuff = E!Address(PageStart) \o PageBytes
  /\ caller = "polled" => outBuff = <<E!Address(PageStart)[1]>>
  /\ caller = "read" =>
       /\ op.kind = "read" /\ readLength = Len(op.data)
       /\ outBuff = Append(E!Address(op.off), E!ReadAddress)
       /\ ctrlBuff = Append(E!ReadControl(op.off), "cont")
IndexPart ==
  /\ readLength \in Nat /\ inBuff \in Seq([k : {"d"}, v : Nat])
  /\ Len(inBuff) = readLength
  /\ ~sta => writeIndex \in 0 .. Len(outBuff)
  /\ readLength # 0 => readIndex \in 0 .. readLength

\* The chip that is there, as far as it is known.
TypePart ==
  /\ E!TypeRight
  /\ eepromType = "unset" => ~busy /\ page = E!NoBytes
  /\ caller \in {"probedSmall", "probedBig"} => eepromType = "unset"
  /\ caller = "probedSmall" =>
       /\ Sending => chip = "small"
       /\ Failing => status = "20" /\ chip # "small"
       /\ Ended => IF E!Success THEN chip = "small" ELSE state = "nack" /\ chip # "small"
  /\ caller = "probedBig" =>
       /\ chip # "small"
       /\ Sending => chip = "big"
       /\ Failing => status = "20" 
       /\ Ended /\ E!Success => chip = "big"

\* An address alone.
AskPart ==
  caller \in {"probedSmall", "probedBig", "polled"} =>
    /\ Addressing => dat = outBuff[1]
    /\ Sending => status = "18"

Taken == IF status = E!None THEN writeIndex - 1 ELSE writeIndex
Located(k, o) ==
  /\ phase = IF k + 1 < AddressLen THEN "hi" ELSE IF k + 1 = AddressLen THEN "lo" ELSE "data"
  /\ k + 1 = AddressLen => ptr = (o \div LoSize) * LoSize

SendPart ==
  caller \in {"wrote", "read"} =>
    /\ Addressing => writeIndex # 0 /\ dat = outBuff[writeIndex]
    /\ Sending =>
         /\ writeIndex # 0 /\ dat = outBuff[writeIndex]
         /\ IF status = "18" THEN writeIndex = 1 ELSE writeIndex > 1
         /\ Located(Taken, IF caller = "read" THEN op.off ELSE PageStart)

\* The first m bytes of the page being written.
FirstBytes(m) == [a \in PageStart .. PageStart + m - 1 |-> op.data[a - op.off + 1]]
HeldTo(n) == \A i \in 1 .. n : mem[op.off + i - 1] = op.data[i]
Chunked == written + E!SizeAt(written)

WrotePart ==
  caller = "wrote" =>
    /\ Addressing => writeIndex = 1
    /\ HeldTo(written)
    /\ \E m \in 0 .. E!SizeAt(written) : page = FirstBytes(m)
    /\ ToStart \/ Addressing => page = E!NoBytes
    /\ Sending =>
         /\ page = FirstBytes(IF Taken <= AddressLen THEN 0 ELSE Taken - AddressLen)
         /\ AddressLen <= Taken /\ Taken < Len(outBuff) => ptr = PageStart + Taken - AddressLen
    /\ Ended /\ E!Success =>
         IF sto THEN page = FirstBytes(E!SizeAt(written)) ELSE HeldTo(Chunked)

PolledPart ==
  caller = "polled" =>
    /\ \/ page = E!NoBytes /\ HeldTo(Chunked)
       \/ ToStart /\ sto /\ page = FirstBytes(E!SizeAt(written)) /\ HeldTo(written)
    /\ Sending \/ (Ended /\ E!Success) => ~busy

IdlePart ==
  /\ caller \in {"type", "probedSmall", "probedBig", "read"} => page = E!NoBytes
  /\ caller \in {"type", "probedSmall", "probedBig"} => written = 0
  /\ caller = "idle" /\ page # E!NoBytes =>
       /\ sto /\ answer = E!Failed
       /\ op.kind = "write" /\ written < Len(op.data)
       /\ HeldTo(written)
       /\ \E m \in 1 .. E!SizeAt(written) : page = FirstBytes(m)
  /\ E!ReadyAfterWrite

ReadPart ==
  caller = "read" =>
    /\ readIndex <= readLength
    /\ Addressing => writeIndex = 1 \/ (writeIndex = AddressLen + 1 /\ ptr = op.off /\ readIndex = 0)
    /\ Sending => writeIndex <= AddressLen /\ (Taken = AddressLen => ptr = op.off)
    /\ ToRestart => writeIndex = AddressLen /\ ptr = op.off
    /\ Receiving =>
         /\ readIndex < readLength
         /\ ptr = (op.off + readIndex + (IF status \in {"50", "58"} THEN 1 ELSE 0)) % Size
         /\ status = "40" => readIndex = 0
         /\ status = E!None => aa = E!WantsMore(readIndex)
         /\ status = "50" => readIndex + 1 < readLength
         /\ status = "58" => readIndex + 1 = readLength
         /\ status \in {"50", "58"} => dat = E!Byte("d", mem[op.off + readIndex])
    /\ Receiving \/ (Ended /\ E!Success) =>
         \A i \in 1 .. readIndex : inBuff[i].v = mem[op.off + i - 1]
    /\ Ended /\ E!Success => readIndex = readLength

EepromInv == Shape /\ StagePart /\ CallPart /\ IndexPart /\ TypePart /\ AskPart /\ SendPart
        /\ WrotePart /\ PolledPart /\ IdlePart /\ ReadPart

-----------------------------------------------------------------------------
\* The three answers of a call are different.
LEMMA Answers ==
  /\ E!Waiting # E!Ok /\ E!Waiting # E!Failed /\ E!Ok # E!Failed
  /\ \A d : E!Answer("ok", d) # E!Waiting /\ E!Answer("ok", d) # E!Failed
BY DEF E!Waiting, E!Ok, E!Failed, E!Answer

\* What the calls may be.
LEMMA OpFacts ==
  ASSUME E!OpAssumption, op \in Ops
  PROVE  /\ op.kind \in {"read", "write"} /\ op.data \in Seq(Nat) /\ op.off \in Nat
         /\ Len(op.data) \in Nat /\ Len(op.data) > 0 /\ op.off + Len(op.data) <= Size
         /\ \A i \in 1 .. Len(op.data) : op.data[i] \in Nat
BY DEF E!OpAssumption

\* Of a page something remains to be written, and not past its end.
LEMMA RoomFacts ==
  ASSUME NEW p \in Nat \ {0}, NEW o \in Nat
  PROVE  o % p \in 0 .. p - 1
OBVIOUS

\* A chunk is something, stays in its page and in the call.
LEMMA LeastFacts ==
  ASSUME E!SizeAssumption, NEW p \in Nat, NEW q \in 0 .. p - 1,
         NEW l \in Nat, NEW w \in Nat, w < l, NEW o \in Nat, o + l <= Size
  PROVE  /\ E!Least(p - q, l - w) \in Nat /\ E!Least(p - q, l - w) > 0
         /\ w + E!Least(p - q, l - w) <= l /\ E!Least(p - q, l - w) <= p - q
         /\ o + w + E!Least(p - q, l - w) <= Size
BY DEF E!Least, E!SizeAssumption

\* So is the next chunk of a call, wherever it is.
LEMMA SizeFacts ==
  ASSUME E!SizeAssumption, E!OpAssumption, op \in Ops, NEW w \in Nat, w < Len(op.data)
  PROVE  /\ E!SizeAt(w) \in Nat /\ E!SizeAt(w) > 0 /\ w + E!SizeAt(w) <= Len(op.data)
         /\ E!SizeAt(w) <= E!PageSize - ((op.off + w) % E!PageSize)
         /\ op.off + w \in Nat /\ op.off + w + E!SizeAt(w) <= Size
<1>1. PICK p \in Nat \ {0} : p = E!PageSize
  BY DEF E!PageSize, E!SizeAssumption
<1>2. PICK l \in Nat : l = Len(op.data)
  BY OpFacts
<1>3. PICK o \in Nat : o = op.off
  BY OpFacts
<1>4. o + l <= Size /\ w < l
  BY <1>2, <1>3, OpFacts
<1>5. PICK n \in Nat : n = o + w
  OBVIOUS
<1>6. PICK q \in 0 .. p - 1 : q = n % p
  BY RoomFacts
<1>7. E!SizeAt(w) = E!Least(p - q, l - w)
  BY <1>1, <1>2, <1>3, <1>5, <1>6 DEF E!SizeAt, E!Chunk
<1>8. PICK m : m = E!Least(p - q, l - w)
  OBVIOUS
<1>9. /\ m \in Nat /\ m > 0 /\ w + m <= l /\ m <= p - q /\ o + w + m <= Size
  BY <1>4, <1>8, LeastFacts
<1> QED
  BY <1>1, <1>2, <1>3, <1>5, <1>6, <1>7, <1>8, <1>9

\* And that of the call under way.
LEMMA NextFacts ==
  ASSUME E!SizeAssumption, E!OpAssumption, op \in Ops, written \in Nat, written < Len(op.data)
  PROVE  /\ E!SizeAt(written) \in Nat /\ E!SizeAt(written) > 0
         /\ written + E!SizeAt(written) <= Len(op.data)
         /\ E!SizeAt(written) <= E!PageSize - (PageStart % E!PageSize)
         /\ PageStart \in Nat /\ PageStart + E!SizeAt(written) <= Size
BY SizeFacts DEF PageStart

\* What is computed from the call stays while the call does.
LEMMA Steady ==
  ASSUME UNCHANGED <<eepromType, op, written>>
  PROVE  /\ PageStart' = PageStart /\ AddressLen' = AddressLen /\ Chunked' = Chunked
         /\ E!SizeAt(written)' = E!SizeAt(written) /\ PageBytes' = PageBytes
         /\ \A m : FirstBytes(m)' = FirstBytes(m)
         /\ \A o : E!Address(o)' = E!Address(o)
         /\ \A o : E!ReadControl(o)' = E!ReadControl(o)
BY DEF PageStart, AddressLen, Chunked, E!SizeAt, FirstBytes, E!Address, E!ReadControl,
       E!Chunk, E!PageSize, PageBytes

\* And the buffers with it.
LEMMA SameCall ==
  ASSUME CallPart, UNCHANGED <<caller, eepromType, op, written, outBuff, ctrlBuff, readLength>>
  PROVE  CallPart'
BY Steady DEF CallPart, Known

\* What the chip holds of the call stays while the chip and the call do.
LEMMA SameHeld ==
  ASSUME UNCHANGED <<op, mem>>
  PROVE  \A n : HeldTo(n)' = HeldTo(n)
BY DEF HeldTo

\* The address of an offset: two bytes for a small chip, three for a big one.
LEMMA AddressBytes ==
  ASSUME Known, NEW o
  PROVE  /\ AddressLen \in {2, 3} /\ E!Address(o) \in Seq({E!Address(o)[1], E!Address(o)[2], E!Address(o)[3]})
         /\ Len(E!Address(o)) = AddressLen
         /\ E!Address(o)[AddressLen] = E!Byte("d", o % LoSize)
         /\ eepromType = "small" => AddressLen = 2 /\ E!Address(o)[1] = E!Byte("w", o \div LoSize)
         /\ eepromType = "big" => /\ AddressLen = 3 /\ E!Address(o)[1] = E!EepromAddr
                                 /\ E!Address(o)[2] = E!Byte("d", o \div LoSize)
<1>1. CASE eepromType = "small"
  BY <1>1 DEF AddressLen, E!Address
<1>2. CASE eepromType = "big"
  BY <1>2 DEF AddressLen, E!Address
<1> QED
  BY <1>1, <1>2 DEF Known

\* What Append does.
LEMMA AppendFacts ==
  ASSUME NEW D, NEW q \in Seq(D), NEW e, NEW l \in Nat, l = Len(q)
  PROVE  /\ Len(Append(q, e)) = l + 1 /\ Append(q, e)[l + 1] = e
         /\ \A i \in 1 .. l : Append(q, e)[i] = q[i]
OBVIOUS

\* What a concatenation holds.
LEMMA ConcatFacts ==
  ASSUME NEW D1, NEW D2, NEW a \in Seq(D1), NEW b \in Seq(D2), NEW l \in Nat, l = Len(a),
         NEW n \in Nat, n = Len(b)
  PROVE  /\ Len(a \o b) = l + n /\ \A i \in 1 .. l : (a \o b)[i] = a[i]
         /\ \A i \in 1 .. n : (a \o b)[l + i] = b[i]
OBVIOUS

\* An offset is its upper and its lower part.
LEMMA OffsetParts ==
  ASSUME E!SizeAssumption, NEW o \in Nat, o < Size
  PROVE  /\ o % Size = o
         /\ ((o \div LoSize) * LoSize) % Size = (o \div LoSize) * LoSize
         /\ ((o \div LoSize) * LoSize + (o % LoSize)) % Size = o
<1>1. LoSize \in Nat \ {0} /\ Size \in Nat \ {0}
  BY DEF E!SizeAssumption
<1>2. PICK q \in Nat : q = o \div LoSize
  BY <1>1
<1>3. PICK p \in Nat : p = o % LoSize
  BY <1>1
<1>4. o = LoSize * q + p
  BY <1>1, <1>2, <1>3
<1>5. PICK w \in Nat : w = q * LoSize
  BY <1>1
<1>6. w + p = o
  BY <1>1, <1>4, <1>5
<1>7. \A x \in Nat : x < Size => x % Size = x
  BY <1>1
<1>8. w < Size
  BY <1>1, <1>6
<1> QED
  BY <1>2, <1>3, <1>5, <1>6, <1>7, <1>8

\* What the exchange of each call is made of.
LEMMA AskBytes ==
  ASSUME CallPart, caller \in {"probedSmall", "probedBig", "polled"}
  PROVE  /\ Len(outBuff) = 1 /\ outBuff # <<>> /\ ctrlBuff = <<>> /\ readLength = 0
         /\ outBuff[1].k = "w"
         /\ caller = "probedSmall" => outBuff[1].v = 1
         /\ caller = "probedBig" => outBuff[1].v = 0
<1>1. CASE caller = "polled"
  <2>1. Known
    BY <1>1 DEF CallPart
  <2>2. eepromType \in {"small", "big"}
    BY <2>1 DEF Known
  <2>3. E!Address(PageStart)[1] = E!Byte("w", PageStart \div LoSize) \/ E!Address(PageStart)[1] = E!EepromAddr
    BY <2>1, <2>2, AddressBytes
  <2>4. \A v : E!Byte("w", v).k = "w"
    BY DEF E!Byte
  <2>5. E!Address(PageStart)[1].k = "w"
    BY <2>3, <2>4 DEF E!EepromAddr
  <2>6. outBuff = <<E!Address(PageStart)[1]>> /\ ctrlBuff = <<>> /\ readLength = 0
    BY <1>1 DEF CallPart
  <2> QED
    BY <1>1, <2>5, <2>6
<1>2. CASE caller # "polled"
  BY <1>2 DEF CallPart, E!ProbeFirst, E!EepromAddr, E!Byte
<1> QED
  BY <1>1, <1>2

\* The bytes of a page write: an address and a chunk.
LEMMA WroteBytes ==
  ASSUME E!SizeAssumption, E!OpAssumption, Shape, CallPart, caller = "wrote"
  PROVE  /\ AddressLen \in {2, 3} /\ E!SizeAt(written) \in Nat \ {0} /\ PageStart \in Nat
         /\ Len(outBuff) = AddressLen + E!SizeAt(written) /\ outBuff # <<>>
         /\ ctrlBuff = <<>> /\ readLength = 0
         /\ \A i \in 1 .. AddressLen : outBuff[i] = E!Address(PageStart)[i]
         /\ \A i \in 1 .. E!SizeAt(written) :
               outBuff[AddressLen + i] = E!Byte("d", op.data[written + i])
<1>1. Known /\ outBuff = E!Address(PageStart) \o PageBytes /\ ctrlBuff = <<>> /\ readLength = 0
      /\ written < Len(op.data)
  BY DEF CallPart
<1>2. E!SizeAt(written) \in Nat \ {0} /\ PageStart \in Nat
  BY <1>1, NextFacts DEF Shape
<1>3. PICK n \in Nat \ {0} : n = E!SizeAt(written)
  BY <1>2
<1>4. PICK l \in {2, 3} : l = AddressLen
  BY <1>1, AddressBytes
<1>5. PICK D : E!Address(PageStart) \in Seq(D) /\ Len(E!Address(PageStart)) = l
  BY <1>1, <1>4, AddressBytes
<1>6. PICK S : PageBytes \in Seq(S) /\ Len(PageBytes) = n
              /\ \A i \in 1 .. n : PageBytes[i] = E!Byte("d", op.data[written + i])
  <2>1. /\ PageBytes \in Seq({PageBytes[i] : i \in 1 .. n}) /\ Len(PageBytes) = n
        /\ \A i \in 1 .. n : PageBytes[i] = E!Byte("d", op.data[written + i])
    BY <1>3 DEF PageBytes
  <2> QED
    BY <2>1
<1>7. PICK a \in Seq(D) : a = E!Address(PageStart)
  BY <1>5
<1>8. PICK b \in Seq(S) : b = PageBytes
  BY <1>6
<1>9. /\ Len(a \o b) = l + n /\ \A i \in 1 .. l : (a \o b)[i] = a[i]
      /\ \A i \in 1 .. n : (a \o b)[l + i] = b[i]
  <2>1. l = Len(a) /\ n = Len(b)
    BY <1>5, <1>6, <1>7, <1>8
  <2>2. l \in Nat /\ n \in Nat
    BY <1>3, <1>4
  <2> QED
    BY <2>1, <2>2, ConcatFacts
<1>10. outBuff = a \o b
  BY <1>1, <1>7, <1>8
<1>11. Len(outBuff) = AddressLen + E!SizeAt(written) /\ outBuff # <<>>
  BY <1>3, <1>4, <1>9, <1>10
<1>12. \A i \in 1 .. AddressLen : outBuff[i] = E!Address(PageStart)[i]
  BY <1>4, <1>7, <1>9, <1>10
<1>13. \A i \in 1 .. E!SizeAt(written) : outBuff[AddressLen + i] = E!Byte("d", op.data[written + i])
  BY <1>3, <1>4, <1>6, <1>8, <1>9, <1>10
<1> QED
  BY <1>1, <1>2, <1>4, <1>11, <1>12, <1>13

\* The bytes of a read: an address, a restart, and the address to read from.
LEMMA ReadBytes ==
  ASSUME E!OpAssumption, Shape, CallPart, caller = "read"
  PROVE  /\ AddressLen \in {2, 3} /\ readLength = Len(op.data)
         /\ op.off \in Nat /\ readLength \in Nat /\ readLength > 0 /\ op.off + readLength <= Size
         /\ Len(outBuff) = AddressLen + 1 /\ outBuff # <<>>
         /\ \A i \in 1 .. AddressLen : outBuff[i] = E!Address(op.off)[i]
         /\ outBuff[AddressLen + 1] = E!ReadAddress
         /\ ctrlBuff # <<>>
         /\ \A i \in 1 .. AddressLen :
               ctrlBuff[i] = IF i = AddressLen THEN "restart" ELSE "cont"
<1>1. Known /\ readLength = Len(op.data) /\ outBuff = Append(E!Address(op.off), E!ReadAddress)
      /\ ctrlBuff = Append(E!ReadControl(op.off), "cont")
  BY DEF CallPart
<1>2. PICK l \in {2, 3} : l = AddressLen
  BY <1>1, AddressBytes
<1>3. PICK D : E!Address(op.off) \in Seq(D) /\ Len(E!Address(op.off)) = l
  BY <1>1, <1>2, AddressBytes
<1>4. E!ReadControl(op.off) = [i \in 1 .. l |-> IF i = l THEN "restart" ELSE "cont"]
  BY <1>3 DEF E!ReadControl
<1>5. E!ReadControl(op.off) \in Seq({"restart", "cont"}) /\ Len(E!ReadControl(op.off)) = l
  BY <1>4
<1>6. PICK a \in Seq(D) : a = E!Address(op.off)
  BY <1>3
<1>7. PICK c \in Seq({"restart", "cont"}) : c = E!ReadControl(op.off)
  BY <1>5
<1>8. /\ Len(Append(a, E!ReadAddress)) = l + 1 /\ Append(a, E!ReadAddress)[l + 1] = E!ReadAddress
      /\ \A i \in 1 .. l : Append(a, E!ReadAddress)[i] = a[i]
  BY <1>2, <1>3, <1>6, AppendFacts
<1>9. /\ Len(Append(c, "cont")) = l + 1
      /\ \A i \in 1 .. l : Append(c, "cont")[i] = c[i]
  BY <1>2, <1>5, <1>7, AppendFacts
<1> QED
  BY <1>1, <1>2, <1>4, <1>6, <1>7, <1>8, <1>9, OpFacts DEF Shape

\* The address that goes out is that of the page or of the read.
LEMMA AddressIs ==
  ASSUME E!SizeAssumption, E!OpAssumption, Shape, CallPart, caller \in {"wrote", "read"},
         NEW o, o = IF caller = "read" THEN op.off ELSE PageStart
  PROVE  /\ o \in Nat /\ o < Size /\ Known
         /\ outBuff[1] = IF eepromType = "small" THEN E!Byte("w", o \div LoSize) ELSE E!EepromAddr
         /\ eepromType = "big" => outBuff[2] = E!Byte("d", o \div LoSize)
         /\ outBuff[AddressLen] = E!Byte("d", o % LoSize)
<1>1. Known /\ eepromType \in {"small", "big"}
  BY DEF CallPart, Known
<1>2. o \in Nat /\ o < Size
  <2>1. CASE caller = "read"
    BY <2>1, ReadBytes DEF E!SizeAssumption
  <2>2. CASE caller = "wrote"
    BY <2>2, NextFacts, WroteBytes DEF E!SizeAssumption, CallPart, Shape
  <2> QED
    BY <2>1, <2>2
<1>3. AddressLen \in {2, 3} /\ \A i \in 1 .. AddressLen : outBuff[i] = E!Address(o)[i]
  BY ReadBytes, WroteBytes
<1>4. 1 \in 1 .. AddressLen /\ 2 \in 1 .. AddressLen /\ AddressLen \in 1 .. AddressLen
  BY <1>3
<1> QED
  BY <1>1, <1>2, <1>3, <1>4, AddressBytes

\* Within a page the address counts on.
LEMMA DivIs ==
  ASSUME NEW p \in Nat \ {0}, NEW q \in Nat, NEW s \in 0 .. p - 1, NEW x \in Nat, x = p * q + s
  PROVE  x \div p = q /\ x % p = s
<1>1. PICK d \in Nat : d = x \div p
  OBVIOUS
<1>2. PICK r \in 0 .. p - 1 : r = x % p
  BY RoomFacts
<1>3. x = p * d + r
  BY <1>1, <1>2
<1>4. CASE d < q
  <2>1. PICK k \in Nat : q = d + 1 + k
    BY <1>4
  <2>2. p * q = p * d + p + p * k /\ p * k >= 0
    BY <2>1
  <2> QED
    BY <1>3, <2>2
<1>5. CASE q < d
  <2>1. PICK k \in Nat : d = q + 1 + k
    BY <1>5
  <2>2. p * d = p * q + p + p * k /\ p * k >= 0
    BY <2>1
  <2> QED
    BY <1>3, <2>2
<1>6. CASE d = q
  BY <1>1, <1>2, <1>3, <1>6
<1> QED
  BY <1>4, <1>5, <1>6

\* The address counter counts on inside a page.
LEMMA NextIs ==
  ASSUME NEW p \in Nat \ {0}, NEW n \in Nat, NEW m \in Nat, m + 1 < p - (n % p)
  PROVE  ((n + m) \div p) * p + ((n + m + 1) % p) = n + m + 1
<1>1. PICK q \in Nat : q = n \div p
  OBVIOUS
<1>2. PICK r \in 0 .. p - 1 : r = n % p
  BY RoomFacts
<1>3. n = p * q + r
  BY <1>1, <1>2
<1>4. PICK w \in Nat : w = p * q
  OBVIOUS
<1>5. r + m \in 0 .. p - 1 /\ r + m + 1 \in 0 .. p - 1
      /\ n + m = w + (r + m) /\ n + m + 1 = w + (r + m + 1)
  BY <1>2, <1>3, <1>4
<1>6. (n + m) \div p = q
  BY <1>4, <1>5, DivIs
<1>7. (n + m + 1) % p = r + m + 1
  <2>1. PICK x \in Nat : x = n + m + 1
    OBVIOUS
  <2>2. PICK s \in 0 .. p - 1 : s = r + m + 1
    BY <1>5
  <2>3. x = p * q + s
    BY <1>3, <2>1, <2>2
  <2>4. x % p = s
    BY <2>3, DivIs
  <2> QED
    BY <2>1, <2>2, <2>4
<1> QED
  BY <1>4, <1>5, <1>6, <1>7

\* A call fills the buffers.
LEMMA ReadIndexes ==
  ASSUME NEW cmd, NEW ctrl, NEW n \in Nat, E!StartRead(cmd, ctrl, n)
  PROVE  IndexPart'
<1>1. inBuff' = [i \in 1 .. n |-> E!NoByte] /\ readLength' = n /\ readIndex' = 0 /\ sta' = TRUE
  BY DEF E!StartRead
<1>2. E!NoByte \in [k : {"d"}, v : Nat]
  BY DEF E!NoByte
<1>3. inBuff' \in Seq([k : {"d"}, v : Nat]) /\ Len(inBuff') = n
  BY <1>1, <1>2
<1> QED
  BY <1>1, <1>3 DEF IndexPart

\* So does a write.
LEMMA WriteIndexes ==
  ASSUME NEW cmd, E!StartWrite(cmd)
  PROVE  IndexPart'
BY DEF E!StartWrite, IndexPart

\* A page write starts with its address and its chunk.
LEMMA PageStarts ==
  ASSUME NEW n, E!WritePage(n), written' = n, UNCHANGED <<eepromType, op>>
  PROVE  /\ outBuff' = E!Address(PageStart)' \o PageBytes' /\ ctrlBuff' = <<>> /\ readLength' = 0
         /\ caller' = "wrote" /\ E!StartWrite(outBuff') /\ IndexPart'
         /\ state # "busy" /\ state' = "busy" /\ sta' = TRUE
         /\ UNCHANGED <<writeIndex, readIndex, sto, aa, dat, status>>
<1>1. E!WritePage(n) => E!StartWrite(outBuff')
  BY DEF E!WritePage, E!StartWrite
<1>2. IndexPart'
  BY <1>1, WriteIndexes
<1>3. outBuff' = E!Address(PageStart)' \o PageBytes'
  BY DEF E!WritePage, E!StartWrite, PageStart, PageBytes, E!SizeAt, E!Chunk, E!PageSize,
         E!Address
<1> QED
  BY <1>1, <1>2, <1>3 DEF E!WritePage, E!StartWrite

\* What the STOP commits.
LEMMA FirstDomain ==
  ASSUME NEW m, NEW a
  PROVE  /\ DOMAIN FirstBytes(m) = PageStart .. PageStart + m - 1
         /\ a \in PageStart .. PageStart + m - 1 => FirstBytes(m)[a] = op.data[a - op.off + 1]
BY DEF FirstBytes

\* Before its first byte there is no page.
LEMMA FirstNone ==
  ASSUME PageStart \in Nat
  PROVE  FirstBytes(0) = E!NoBytes
<1>1. PageStart .. PageStart + 0 - 1 = {}
  OBVIOUS
<1> QED
  BY <1>1 DEF FirstBytes, E!NoBytes

\* The next byte of a chunk goes where it belongs.
LEMMA FirstMore ==
  ASSUME PageStart \in Nat, op.off \in Nat, PageStart = op.off + written, written \in Nat, NEW k \in Nat
  PROVE  FirstBytes(k + 1) = [x \in DOMAIN FirstBytes(k) \cup {PageStart + k} |->
                           IF x = PageStart + k THEN op.data[written + (k + 1)] ELSE FirstBytes(k)[x]]
<1>1. DOMAIN FirstBytes(k) \cup {PageStart + k} = PageStart .. PageStart + (k + 1) - 1
  BY DEF FirstBytes
<1>2. \A x \in PageStart .. PageStart + k - 1 : x # PageStart + k
  OBVIOUS
<1>5. \A x \in PageStart .. PageStart + k - 1 : FirstBytes(k)[x] = op.data[x - op.off + 1]
  BY FirstDomain
<1>3. (PageStart + k) - op.off + 1 = written + (k + 1)
  OBVIOUS
<1>4. \A x \in PageStart .. PageStart + (k + 1) - 1 : x = PageStart + k \/ x \in PageStart .. PageStart + k - 1
  OBVIOUS
<1> QED
  BY <1>1, <1>2, <1>3, <1>4, <1>5 DEF FirstBytes

\* Without a page a STOP changes nothing.
LEMMA WrittenSame ==
  ASSUME page = E!NoBytes, mem \in [E!Offset -> Nat]
  PROVE  E!Written = mem
BY DEF E!Written, E!NoBytes

\* A page holds bytes of the call.
LEMMA PageIs ==
  ASSUME E!SizeAssumption, E!OpAssumption, Shape, written < Len(op.data),
         NEW m \in 0 .. E!SizeAt(written)
  PROVE  /\ PageStart \in Nat /\ op.off \in Nat /\ PageStart = op.off + written /\ m \in Nat
         /\ PageStart + m <= Size /\ written + m <= Len(op.data)
         /\ DOMAIN FirstBytes(m) = PageStart .. PageStart + m - 1
         /\ DOMAIN FirstBytes(m) \subseteq E!Offset
         /\ \A a \in PageStart .. PageStart + m - 1 :
               /\ a - op.off + 1 \in written + 1 .. written + m
               /\ FirstBytes(m)[a] = op.data[a - op.off + 1] /\ FirstBytes(m)[a] \in Nat
<1>1. /\ op.off \in Nat /\ written \in Nat /\ Len(op.data) \in Nat /\ PageStart = op.off + written
      /\ \A i \in 1 .. Len(op.data) : op.data[i] \in Nat
  BY OpFacts DEF Shape, PageStart
<1>2. /\ E!SizeAt(written) \in Nat /\ written + E!SizeAt(written) <= Len(op.data)
      /\ PageStart \in Nat /\ PageStart + E!SizeAt(written) <= Size
  BY NextFacts DEF Shape
<1>3. m \in Nat /\ PageStart + m <= Size /\ written + m <= Len(op.data)
  <2>1. \A s, n, w, l, z \in Nat : (m \in 0 .. s /\ n + s <= z /\ w + s <= l) =>
           m \in Nat /\ n + m <= z /\ w + m <= l
    OBVIOUS
  <2> QED
    BY <2>1, <1>1, <1>2 DEF E!SizeAssumption
<1>4. \A a \in PageStart .. PageStart + m - 1 :
         a - op.off + 1 \in written + 1 .. written + m /\ a - op.off + 1 \in 1 .. Len(op.data)
         /\ a \in E!Offset
  <2>1. \A o, w, l, z, k \in Nat : (o + w + k <= z /\ w + k <= l) =>
           \A a \in o + w .. o + w + k - 1 :
             a - o + 1 \in w + 1 .. w + k /\ a - o + 1 \in 1 .. l /\ a \in 0 .. z - 1
    OBVIOUS
  <2> QED
    BY <2>1, <1>1, <1>3 DEF E!Offset, E!SizeAssumption
<1>5. DOMAIN FirstBytes(m) = PageStart .. PageStart + m - 1
  BY DEF FirstBytes
<1> QED
  BY <1>1, <1>2, <1>3, <1>4, <1>5, FirstDomain

\* With one the chip still holds bytes.
LEMMA WrittenType ==
  ASSUME E!SizeAssumption, E!OpAssumption, Shape,
         page # E!NoBytes => /\ written < Len(op.data)
                             /\ \E m \in 0 .. E!SizeAt(written) : page = FirstBytes(m)
  PROVE  E!Written \in [E!Offset -> Nat]
<1>1. CASE page = E!NoBytes
  BY <1>1, WrittenSame DEF Shape
<1>2. CASE page # E!NoBytes
  <2>1. PICK m \in 0 .. E!SizeAt(written) : page = FirstBytes(m)
    BY <1>2
  <2>2. \A a \in DOMAIN page : page[a] \in Nat
    BY <1>2, <2>1, PageIs
  <2> QED
    BY <2>2 DEF E!Written, Shape
<1> QED
  BY <1>1, <1>2

\* The bytes before the page stay, and those of the page are there.
LEMMA WrittenBytes ==
  ASSUME E!SizeAssumption, E!OpAssumption, Shape, written < Len(op.data),
         NEW m \in 0 .. E!SizeAt(written), page = FirstBytes(m), HeldTo(written)
  PROVE  \A i \in 1 .. written + m : E!Written[op.off + i - 1] = op.data[i]
<1> SUFFICES ASSUME NEW i \in 1 .. written + m
             PROVE  E!Written[op.off + i - 1] = op.data[i]
  OBVIOUS
<1>1. /\ PageStart \in Nat /\ op.off \in Nat /\ PageStart = op.off + written /\ m \in Nat /\ written \in Nat
      /\ PageStart + m <= Size /\ DOMAIN page = PageStart .. PageStart + m - 1
  BY PageIs DEF Shape
<1>2. PICK a \in Int : a = op.off + i - 1
  BY <1>1
<1>3. a \in E!Offset /\ E!Written[a] = IF a \in DOMAIN page THEN page[a] ELSE mem[a]
  <2>1. \A o, w, k, z \in Nat : o + w + k <= z => \A j \in 1 .. w + k : o + j - 1 \in 0 .. z - 1
    OBVIOUS
  <2>2. a \in E!Offset
    BY <2>1, <1>1, <1>2 DEF E!Offset, E!SizeAssumption
  <2> QED
    BY <2>2 DEF E!Written
<1>4. CASE i <= written
  <2>1. a \notin DOMAIN page /\ i \in 1 .. written
    BY <1>1, <1>2, <1>4
  <2> QED
    BY <2>1, <1>2, <1>3 DEF HeldTo
<1>5. CASE i > written
  <2>1. a \in PageStart .. PageStart + m - 1 /\ a - op.off + 1 = i
    <3>1. \A o, w, k \in Nat : \A j \in 1 .. w + k : j > w =>
             o + j - 1 \in o + w .. o + w + k - 1 /\ (o + j - 1) - o + 1 = j
      OBVIOUS
    <3> QED
      BY <3>1, <1>1, <1>2, <1>5
  <2>2. page[a] = op.data[i]
    BY <2>1, PageIs
  <2> QED
    BY <2>1, <2>2, <1>1, <1>2, <1>3
<1> QED
  BY <1>1, <1>4, <1>5

\* And still what the write stored before.
LEMMA WrittenHeld ==
  ASSUME E!SizeAssumption, E!OpAssumption, Shape, written < Len(op.data),
         \E m \in 0 .. E!SizeAt(written) : page = FirstBytes(m), HeldTo(written),
         mem' = E!Written, UNCHANGED <<op, written>>
  PROVE  HeldTo(written)'
<1>1. PICK m \in 0 .. E!SizeAt(written) : page = FirstBytes(m)
  OBVIOUS
<1>2. m \in Nat /\ written \in Nat
  BY PageIs DEF Shape
<1>3. \A i \in 1 .. written : mem'[op.off + i - 1] = op.data[i]
  BY <1>1, <1>2, WrittenBytes
<1> QED
  BY <1>3 DEF HeldTo

\* With the whole chunk it holds the chunk as well.
LEMMA WrittenAll ==
  ASSUME E!SizeAssumption, E!OpAssumption, Shape, written < Len(op.data),
         page = FirstBytes(E!SizeAt(written)), HeldTo(written),
         mem' = E!Written, UNCHANGED <<op, written, eepromType>>
  PROVE  HeldTo(Chunked)'
<1>1. E!SizeAt(written) \in Nat /\ E!SizeAt(written) \in 0 .. E!SizeAt(written) /\ written \in Nat
  BY NextFacts DEF Shape
<1>2. \A i \in 1 .. written + E!SizeAt(written) : mem'[op.off + i - 1] = op.data[i]
  BY <1>1, WrittenBytes
<1> QED
  BY <1>2, Steady DEF HeldTo, Chunked

Assumed == E!SizeAssumption /\ E!OpAssumption /\ E!BoundAssumption /\ ~RoughProbe

\* A page under way is a first part of what the call writes next, and what it
\* wrote before is there.
LEMMA PageFacts ==
  ASSUME Assumed, EepromInv, page # E!NoBytes
  PROVE  /\ caller \in {"wrote", "polled", "idle"} /\ (caller = "idle" => sto /\ answer = E!Failed)
         /\ op.kind = "write" /\ written < Len(op.data) /\ HeldTo(written)
         /\ \E m \in 1 .. E!SizeAt(written) : page = FirstBytes(m)
<1>1. caller \in {"wrote", "polled", "idle"}
  BY DEF EepromInv, Shape, Places, IdlePart
<1>2. CASE caller = "idle"
  BY <1>2 DEF EepromInv, IdlePart
<1>3. CASE caller \in {"wrote", "polled"}
  <2>1. op.kind = "write" /\ written < Len(op.data) /\ HeldTo(written)
    BY <1>3 DEF EepromInv, CallPart, WrotePart, PolledPart
  <2>2. E!SizeAt(written) \in Nat /\ E!SizeAt(written) > 0 /\ PageStart \in Nat
    BY <2>1, NextFacts DEF EepromInv, Assumed, Shape
  <2>3. PICK m \in 0 .. E!SizeAt(written) : page = FirstBytes(m)
    BY <1>3, <2>2 DEF EepromInv, WrotePart, PolledPart
  <2>4. m # 0
    BY <2>2, <2>3, FirstNone
  <2>5. m \in 1 .. E!SizeAt(written)
    BY <2>2, <2>4
  <2> QED
    BY <1>3, <2>1, <2>3, <2>5
<1> QED
  BY <1>1, <1>2, <1>3

\* What the page becomes when the exchange ends.
LEMMA CommitFacts ==
  ASSUME Assumed, EepromInv
  PROVE  /\ E!Written \in [E!Offset -> Nat]
         /\ page = E!NoBytes => E!Written = mem
         /\ page # E!NoBytes => \A i \in 1 .. written : E!Written[op.off + i - 1] = op.data[i]
<1>1. Shape /\ E!SizeAssumption /\ E!OpAssumption
  BY DEF Assumed, EepromInv
<1>2. page # E!NoBytes => \E m \in 0 .. E!SizeAt(written) : page = FirstBytes(m)
  <2>1. page # E!NoBytes => E!SizeAt(written) \in Nat
    BY <1>1, PageFacts, NextFacts DEF Shape
  <2> QED
    BY <2>1, PageFacts
<1>3. E!Written \in [E!Offset -> Nat]
  BY <1>1, <1>2, WrittenType, PageFacts
<1>4. page = E!NoBytes => E!Written = mem
  BY <1>1, WrittenSame DEF Shape
<1>5. ASSUME page # E!NoBytes
      PROVE  \A i \in 1 .. written : E!Written[op.off + i - 1] = op.data[i]
  <2>1. PICK m \in 0 .. E!SizeAt(written) : page = FirstBytes(m)
    BY <1>2, <1>5
  <2>2. \A i \in 1 .. written + m : E!Written[op.off + i - 1] = op.data[i]
    BY <1>1, <1>5, <2>1, PageFacts, WrittenBytes
  <2>3. m \in Nat /\ written \in Nat
    BY <1>1, <1>5, <2>1, PageFacts, PageIs DEF Shape
  <2> QED
    BY <2>2, <2>3
<1> QED
  BY <1>3, <1>4, <1>5

\* A bus error ends the exchange.
LEMMA BusErrorKeeps ==
  ASSUME Assumed, EepromInv, E!BusError, UNCHANGED <<E!callerVars, E!OutsideUnchanged>>
  PROVE  EepromInv'
<1>s. UNCHANGED <<caller, eepromType, op, written, outBuff, ctrlBuff, readLength>>
  BY DEF E!BusError, E!callVars, E!callerVars, E!chipVars, E!limitVars, E!OutsideUnchanged
<1>0. /\ PageStart' = PageStart /\ AddressLen' = AddressLen /\ Chunked' = Chunked
      /\ E!SizeAt(written)' = E!SizeAt(written)
      /\ \A m : FirstBytes(m)' = FirstBytes(m)
      /\ \A o : E!Address(o)' = E!Address(o) /\ E!ReadControl(o)' = E!ReadControl(o)
  BY <1>s, Steady
<1>m. \A n : HeldTo(n)' = HeldTo(n)
  BY SameHeld
     DEF E!BusError, E!callVars, E!callerVars, E!chipVars, E!limitVars, E!OutsideUnchanged
<1>1. Shape'
  BY OpFacts, Answers
     DEF Assumed, EepromInv, Shape, E!BusError, E!callVars, E!callerVars, E!chipVars,
         E!limitVars, E!OutsideUnchanged, E!Pending, E!End, E!None
<1>2. StagePart'
  BY <1>0, <1>m, OpFacts
     DEF Assumed, EepromInv, StagePart, E!BusError, E!callVars, E!callerVars, E!chipVars,
         E!limitVars, E!OutsideUnchanged, E!Pending, E!End, ToStart, ToRestart, Addressing,
         Sending, Receiving, Failing, Ended, E!None
<1>3. CallPart'
  BY <1>s, SameCall DEF EepromInv
<1>4. IndexPart'
  BY <1>0, <1>m, OpFacts
     DEF Assumed, EepromInv, IndexPart, E!BusError, E!callVars, E!callerVars, E!chipVars,
         E!limitVars, E!OutsideUnchanged, E!Pending, E!End, E!None
<1>5. TypePart'
  BY <1>0, <1>m, OpFacts
     DEF Assumed, EepromInv, Shape, StagePart, TypePart, E!BusError, E!callVars,
         E!callerVars, E!chipVars, E!limitVars, E!OutsideUnchanged, E!Pending, E!End,
         E!Success, ToStart, ToRestart, Addressing, Sending, Receiving, Failing, Ended,
         E!TypeRight, E!None
<1>6. AskPart'
  BY <1>0, <1>m, OpFacts
     DEF Assumed, EepromInv, AskPart, E!BusError, E!callVars, E!callerVars, E!chipVars,
         E!limitVars, E!OutsideUnchanged, E!Pending, E!End, Addressing, Sending, E!None
<1>7. SendPart'
  BY <1>0, <1>m, OpFacts
     DEF Assumed, EepromInv, SendPart, E!BusError, E!callVars, E!callerVars, E!chipVars,
         E!limitVars, E!OutsideUnchanged, E!Pending, E!End, Addressing, Sending, Taken,
         E!None
<1>8. WrotePart'
  BY <1>0, <1>m, OpFacts
     DEF Assumed, EepromInv, Shape, StagePart, WrotePart, E!BusError, E!callVars,
         E!callerVars, E!chipVars, E!limitVars, E!OutsideUnchanged, E!Pending, E!End,
         E!Success, ToStart, ToRestart, Addressing, Sending, Receiving, Failing, Ended,
         Taken, E!None
<1>9. PolledPart'
  BY <1>0, <1>m, OpFacts
     DEF Assumed, EepromInv, PolledPart, E!BusError, E!callVars, E!callerVars, E!chipVars,
         E!limitVars, E!OutsideUnchanged, E!Pending, E!End, E!Success, ToStart, Sending,
         Ended, E!None
<1>10. IdlePart'
  BY <1>0, <1>m, OpFacts
     DEF Assumed, EepromInv, IdlePart, E!BusError, E!callVars, E!callerVars, E!chipVars,
         E!limitVars, E!OutsideUnchanged, E!Pending, E!End, E!ReadyAfterWrite, E!None
<1>11. ReadPart'
  BY <1>0, <1>m, OpFacts
     DEF Assumed, EepromInv, ReadPart, E!BusError, E!callVars, E!callerVars, E!chipVars,
         E!limitVars, E!OutsideUnchanged, E!Pending, E!End, E!Success, ToRestart, Addressing,
         Sending, Receiving, Ended, Taken, E!None
<1> QED
  BY <1>1, <1>2, <1>3, <1>4, <1>5, <1>6, <1>7, <1>8, <1>9, <1>10, <1>11 DEF EepromInv

\* The START is out: the address byte follows.
LEMMA StartedKeeps ==
  ASSUME Assumed, EepromInv, E!Started, UNCHANGED <<E!callerVars, E!OutsideUnchanged>>
  PROVE  EepromInv'
<1>s. UNCHANGED <<caller, eepromType, op, written, outBuff, ctrlBuff, readLength>>
  BY DEF E!Started, E!callVars, E!callerVars, E!chipVars, E!limitVars, E!OutsideUnchanged
<1>0. /\ PageStart' = PageStart /\ AddressLen' = AddressLen /\ Chunked' = Chunked
      /\ E!SizeAt(written)' = E!SizeAt(written)
      /\ \A m : FirstBytes(m)' = FirstBytes(m)
      /\ \A o : E!Address(o)' = E!Address(o) /\ E!ReadControl(o)' = E!ReadControl(o)
  BY <1>s, Steady
<1>m. \A n : HeldTo(n)' = HeldTo(n)
  BY SameHeld
     DEF E!Started, E!callVars, E!callerVars, E!chipVars, E!limitVars, E!OutsideUnchanged
<1>a. state = "busy" /\ caller \notin {"idle", "type"} /\ ToStart /\ status = "08"
  BY DEF EepromInv, Shape, StagePart, E!Started, E!Pending, ToStart, ToRestart, Addressing,
         Sending, Receiving, Failing, Ended, E!None
<1>b. outBuff # <<>> /\ Len(outBuff) \in Nat /\ Len(outBuff) > 0
  BY <1>a, AskBytes, WroteBytes, ReadBytes DEF EepromInv, Assumed, Shape, Places
<1>e. /\ dat' = outBuff[1] /\ writeIndex' = 1 /\ sta' = FALSE /\ status' = E!None
      /\ UNCHANGED <<state, E!callVars, readIndex, sto, aa, E!callerVars, E!OutsideUnchanged>>
  BY <1>b DEF E!Started, E!Pending
<1>1. Shape'
  BY <1>e
     DEF EepromInv, Shape, E!callVars, E!callerVars, E!chipVars, E!limitVars,
         E!OutsideUnchanged, E!None
<1>2. StagePart'
  BY <1>0, <1>m, OpFacts
     DEF Assumed, EepromInv, StagePart, E!Started, E!callVars, E!callerVars, E!chipVars,
         E!limitVars, E!OutsideUnchanged, E!Pending, E!End, ToStart, ToRestart, Addressing,
         Sending, Receiving, Failing, Ended, E!None
<1>3. CallPart'
  BY <1>s, SameCall DEF EepromInv
<1>4. IndexPart'
  BY <1>b, <1>e
     DEF EepromInv, Shape, IndexPart, E!callVars, E!callerVars, E!chipVars, E!limitVars,
         E!OutsideUnchanged
<1>5. TypePart'
  BY <1>a, <1>e
     DEF EepromInv, TypePart, E!TypeRight, E!Success, ToStart, Sending, Failing, Ended,
         E!None, E!callVars, E!callerVars, E!chipVars, E!limitVars, E!OutsideUnchanged
<1>6. AskPart'
  BY <1>0, <1>m, OpFacts
     DEF Assumed, EepromInv, Shape, StagePart, AskPart, E!Started, E!callVars, E!callerVars,
         E!chipVars, E!limitVars, E!OutsideUnchanged, E!Pending, E!End, ToStart, ToRestart,
         Addressing, Sending, Receiving, Failing, Ended, E!None
<1>7. SendPart'
  BY <1>0, <1>m, OpFacts
     DEF Assumed, EepromInv, Shape, StagePart, SendPart, E!Started, E!callVars, E!callerVars,
         E!chipVars, E!limitVars, E!OutsideUnchanged, E!Pending, E!End, ToStart, ToRestart,
         Addressing, Sending, Receiving, Failing, Ended, Taken, E!None
<1>8. WrotePart'
  BY <1>0, <1>m, <1>a, <1>e
     DEF EepromInv, WrotePart, ToStart, Addressing, Sending, Ended, E!None, E!callVars,
         E!callerVars, E!chipVars, E!limitVars, E!OutsideUnchanged
<1>9. PolledPart'
  BY <1>0, <1>m, <1>a, <1>e
     DEF EepromInv, PolledPart, ToStart, Sending, Ended, E!None, E!callVars, E!callerVars,
         E!chipVars, E!limitVars, E!OutsideUnchanged
<1>10. IdlePart'
  BY <1>0, <1>m, OpFacts
     DEF Assumed, EepromInv, IdlePart, E!Started, E!callVars, E!callerVars, E!chipVars,
         E!limitVars, E!OutsideUnchanged, E!Pending, E!End, E!ReadyAfterWrite, E!None
<1>11. ReadPart'
  BY <1>0, <1>m, OpFacts
     DEF Assumed, EepromInv, Shape, StagePart, CallPart, ReadPart, E!Started, E!callVars,
         E!callerVars, E!chipVars, E!limitVars, E!OutsideUnchanged, E!Pending, E!End,
         E!Success, ToStart, ToRestart, Addressing, Sending, Receiving, Failing, Ended,
         Taken, E!None
<1> QED
  BY <1>1, <1>2, <1>3, <1>4, <1>5, <1>6, <1>7, <1>8, <1>9, <1>10, <1>11 DEF EepromInv

\* The repeated START is out: the address to read from follows.
LEMMA RestartedKeeps ==
  ASSUME Assumed, EepromInv, E!Restarted, UNCHANGED <<E!callerVars, E!OutsideUnchanged>>
  PROVE  EepromInv'
<1>s. UNCHANGED <<caller, eepromType, op, written, outBuff, ctrlBuff, readLength>>
  BY DEF E!Restarted, E!callVars, E!callerVars, E!chipVars, E!limitVars, E!OutsideUnchanged
<1>0. /\ PageStart' = PageStart /\ AddressLen' = AddressLen /\ Chunked' = Chunked
      /\ E!SizeAt(written)' = E!SizeAt(written)
      /\ \A m : FirstBytes(m)' = FirstBytes(m)
      /\ \A o : E!Address(o)' = E!Address(o) /\ E!ReadControl(o)' = E!ReadControl(o)
  BY <1>s, Steady
<1>m. \A n : HeldTo(n)' = HeldTo(n)
  BY SameHeld
     DEF E!Restarted, E!callVars, E!callerVars, E!chipVars, E!limitVars, E!OutsideUnchanged
<1>a. state = "busy" /\ caller = "read" /\ ToRestart
  BY DEF EepromInv, Shape, StagePart, E!Restarted, E!Pending, ToStart, ToRestart, Addressing,
         Sending, Receiving, Failing, Ended, E!None
<1>b. writeIndex = AddressLen /\ Len(outBuff) = AddressLen + 1 /\ AddressLen \in {2, 3}
  BY <1>a, ReadBytes DEF EepromInv, Assumed, ReadPart
<1>e. /\ dat' = outBuff[writeIndex + 1] /\ writeIndex' = writeIndex + 1 /\ readIndex' = 0
      /\ sta' = FALSE /\ status' = E!None
      /\ UNCHANGED <<state, E!callVars, sto, aa, E!callerVars, E!OutsideUnchanged>>
  BY DEF E!Restarted, E!Pending, E!SendNext
<1>g. writeIndex' \in Nat
  BY <1>b, <1>e
<1>1. Shape'
  BY <1>g, <1>e
     DEF EepromInv, Shape, E!callVars, E!callerVars, E!chipVars, E!limitVars,
         E!OutsideUnchanged, E!None
<1>2. StagePart'
  BY <1>0, <1>m, OpFacts
     DEF Assumed, EepromInv, StagePart, E!Restarted, E!SendNext, E!callVars, E!callerVars,
         E!chipVars, E!limitVars, E!OutsideUnchanged, E!Pending, ToStart, ToRestart,
         Addressing, Sending, Receiving, Failing, Ended, E!None
<1>3. CallPart'
  BY <1>s, SameCall DEF EepromInv
<1>4. IndexPart'
  BY <1>b, <1>e
     DEF EepromInv, IndexPart, E!callVars, E!callerVars, E!chipVars, E!limitVars,
         E!OutsideUnchanged
<1>5. TypePart'
  BY <1>0, <1>m, OpFacts
     DEF Assumed, EepromInv, Shape, StagePart, TypePart, E!Restarted, E!SendNext, E!callVars,
         E!callerVars, E!chipVars, E!limitVars, E!OutsideUnchanged, E!Pending, E!Success,
         ToStart, ToRestart, Addressing, Sending, Receiving, Failing, Ended, E!TypeRight,
         E!None
<1>6. AskPart'
  BY <1>0, <1>m, OpFacts
     DEF Assumed, EepromInv, Shape, StagePart, AskPart, E!Restarted, E!SendNext, E!callVars,
         E!callerVars, E!chipVars, E!limitVars, E!OutsideUnchanged, E!Pending, ToStart,
         ToRestart, Addressing, Sending, Receiving, Failing, Ended, E!None
<1>7. SendPart'
  BY <1>0, <1>m, OpFacts
     DEF Assumed, EepromInv, Shape, StagePart, SendPart, E!Restarted, E!SendNext, E!callVars,
         E!callerVars, E!chipVars, E!limitVars, E!OutsideUnchanged, E!Pending, ToStart,
         ToRestart, Addressing, Sending, Receiving, Failing, Ended, Taken, E!None
<1>8. WrotePart'
  BY <1>0, <1>m, OpFacts
     DEF Assumed, EepromInv, Shape, StagePart, WrotePart, E!Restarted, E!SendNext,
         E!callVars, E!callerVars, E!chipVars, E!limitVars, E!OutsideUnchanged, E!Pending,
         E!Success, ToStart, ToRestart, Addressing, Sending, Receiving, Failing, Ended,
         Taken, E!None
<1>9. PolledPart'
  BY <1>0, <1>m, OpFacts
     DEF Assumed, EepromInv, Shape, StagePart, PolledPart, E!Restarted, E!SendNext,
         E!callVars, E!callerVars, E!chipVars, E!limitVars, E!OutsideUnchanged, E!Pending,
         E!Success, ToStart, ToRestart, Addressing, Sending, Receiving, Failing, Ended,
         E!None
<1>10. IdlePart'
  BY <1>0, <1>m, OpFacts
     DEF Assumed, EepromInv, IdlePart, E!Restarted, E!SendNext, E!callVars, E!callerVars,
         E!chipVars, E!limitVars, E!OutsideUnchanged, E!Pending, E!ReadyAfterWrite, E!None
<1>11. ReadPart'
  BY <1>0, <1>m, OpFacts
     DEF Assumed, EepromInv, Shape, StagePart, CallPart, ReadPart, E!Restarted, E!SendNext,
         E!callVars, E!callerVars, E!chipVars, E!limitVars, E!OutsideUnchanged, E!Pending,
         E!Success, ToStart, ToRestart, Addressing, Sending, Receiving, Failing, Ended,
         Taken, E!None
<1> QED
  BY <1>1, <1>2, <1>3, <1>4, <1>5, <1>6, <1>7, <1>8, <1>9, <1>10, <1>11 DEF EepromInv

\* A lost arbitration ends the exchange.
LEMMA ArbitrationLostKeeps ==
  ASSUME Assumed, EepromInv, E!ArbitrationLost, UNCHANGED <<E!callerVars, E!OutsideUnchanged>>
  PROVE  EepromInv'
<1>s. UNCHANGED <<caller, eepromType, op, written, outBuff, ctrlBuff, readLength>>
  BY DEF E!ArbitrationLost, E!callVars, E!callerVars, E!chipVars, E!limitVars,
         E!OutsideUnchanged
<1>0. /\ PageStart' = PageStart /\ AddressLen' = AddressLen /\ Chunked' = Chunked
      /\ E!SizeAt(written)' = E!SizeAt(written)
      /\ \A m : FirstBytes(m)' = FirstBytes(m)
      /\ \A o : E!Address(o)' = E!Address(o) /\ E!ReadControl(o)' = E!ReadControl(o)
  BY <1>s, Steady
<1>m. \A n : HeldTo(n)' = HeldTo(n)
  BY SameHeld
     DEF E!ArbitrationLost, E!callVars, E!callerVars, E!chipVars, E!limitVars,
         E!OutsideUnchanged
<1>1. Shape'
  BY OpFacts, Answers
     DEF Assumed, EepromInv, Shape, E!ArbitrationLost, E!callVars, E!callerVars, E!chipVars,
         E!limitVars, E!OutsideUnchanged, E!Pending, E!None
<1>2. StagePart'
  BY <1>0, <1>m, OpFacts
     DEF Assumed, EepromInv, StagePart, E!ArbitrationLost, E!callVars, E!callerVars,
         E!chipVars, E!limitVars, E!OutsideUnchanged, E!Pending, ToStart, ToRestart,
         Addressing, Sending, Receiving, Failing, Ended, E!None
<1>3. CallPart'
  BY <1>s, SameCall DEF EepromInv
<1>4. IndexPart'
  BY <1>0, <1>m, OpFacts
     DEF Assumed, EepromInv, IndexPart, E!ArbitrationLost, E!callVars, E!callerVars,
         E!chipVars, E!limitVars, E!OutsideUnchanged, E!Pending, E!None
<1>5. TypePart'
  BY <1>0, <1>m, OpFacts
     DEF Assumed, EepromInv, Shape, StagePart, TypePart, E!ArbitrationLost, E!callVars,
         E!callerVars, E!chipVars, E!limitVars, E!OutsideUnchanged, E!Pending, E!Success,
         ToStart, ToRestart, Addressing, Sending, Receiving, Failing, Ended, E!TypeRight,
         E!None
<1>6. AskPart'
  BY <1>0, <1>m, OpFacts
     DEF Assumed, EepromInv, Shape, StagePart, AskPart, E!ArbitrationLost, E!callVars,
         E!callerVars, E!chipVars, E!limitVars, E!OutsideUnchanged, E!Pending, ToStart,
         ToRestart, Addressing, Sending, Receiving, Failing, Ended, E!None
<1>7. SendPart'
  BY <1>0, <1>m, OpFacts
     DEF Assumed, EepromInv, Shape, StagePart, SendPart, E!ArbitrationLost, E!callVars,
         E!callerVars, E!chipVars, E!limitVars, E!OutsideUnchanged, E!Pending, ToStart,
         ToRestart, Addressing, Sending, Receiving, Failing, Ended, Taken, E!None
<1>8. WrotePart'
  BY <1>0, <1>m, OpFacts
     DEF Assumed, EepromInv, Shape, StagePart, WrotePart, E!ArbitrationLost, E!callVars,
         E!callerVars, E!chipVars, E!limitVars, E!OutsideUnchanged, E!Pending, E!Success,
         ToStart, ToRestart, Addressing, Sending, Receiving, Failing, Ended, Taken, E!None
<1>9. PolledPart'
  BY <1>0, <1>m, OpFacts
     DEF Assumed, EepromInv, Shape, StagePart, PolledPart, E!ArbitrationLost, E!callVars,
         E!callerVars, E!chipVars, E!limitVars, E!OutsideUnchanged, E!Pending, E!Success,
         ToStart, ToRestart, Addressing, Sending, Receiving, Failing, Ended, E!None
<1>10. IdlePart'
  BY <1>0, <1>m, OpFacts
     DEF Assumed, EepromInv, IdlePart, E!ArbitrationLost, E!callVars, E!callerVars,
         E!chipVars, E!limitVars, E!OutsideUnchanged, E!Pending, E!ReadyAfterWrite, E!None
<1>11. ReadPart'
  BY <1>0, <1>m, OpFacts
     DEF Assumed, EepromInv, Shape, StagePart, ReadPart, E!ArbitrationLost, E!callVars,
         E!callerVars, E!chipVars, E!limitVars, E!OutsideUnchanged, E!Pending, E!Success,
         ToStart, ToRestart, Addressing, Sending, Receiving, Failing, Ended, Taken, E!None
<1> QED
  BY <1>1, <1>2, <1>3, <1>4, <1>5, <1>6, <1>7, <1>8, <1>9, <1>10, <1>11 DEF EepromInv

\* The chip answered its address: the next byte, a restart or the end.
LEMMA AddressAckedKeeps ==
  ASSUME Assumed, EepromInv, E!AddressAcked, UNCHANGED <<E!callerVars, E!OutsideUnchanged>>
  PROVE  EepromInv'
<1>s. UNCHANGED <<caller, eepromType, op, written, outBuff, ctrlBuff, readLength>>
  BY DEF E!AddressAcked, E!callVars, E!callerVars, E!chipVars, E!limitVars, E!OutsideUnchanged
<1>0. /\ PageStart' = PageStart /\ AddressLen' = AddressLen /\ Chunked' = Chunked
      /\ E!SizeAt(written)' = E!SizeAt(written)
      /\ \A m : FirstBytes(m)' = FirstBytes(m)
      /\ \A o : E!Address(o)' = E!Address(o) /\ E!ReadControl(o)' = E!ReadControl(o)
  BY <1>s, Steady
<1>m. \A n : HeldTo(n)' = HeldTo(n)
  BY SameHeld
     DEF E!AddressAcked, E!callVars, E!callerVars, E!chipVars, E!limitVars,
         E!OutsideUnchanged
<1>a. state = "busy" /\ Sending /\ caller \notin {"idle", "type"} /\ sta = FALSE /\ sto = FALSE
  BY DEF EepromInv, Shape, StagePart, E!AddressAcked, E!Pending, ToStart, ToRestart,
         Addressing, Sending, Receiving, Failing, Ended, E!None
<1>b. caller \in {"wrote", "read"} => writeIndex = 1 /\ dat = outBuff[1]
  BY <1>a DEF EepromInv, SendPart, E!AddressAcked, E!Pending
<1>c. caller \in {"wrote", "read"} => /\ Len(outBuff) \in Nat /\ Len(outBuff) > 2
                                      /\ E!Condition = "cont"
  BY <1>b, WroteBytes, ReadBytes DEF EepromInv, Assumed, E!Condition
<1>d. status' = E!None /\ UNCHANGED <<E!callVars, readIndex, aa, E!callerVars, E!OutsideUnchanged>>
  BY DEF E!AddressAcked, E!Pending
<1>e. caller \in {"wrote", "read"} => /\ dat' = outBuff[2] /\ writeIndex' = 2
                                      /\ UNCHANGED <<state, sta, sto>>
  <2>0. \A l \in Nat : l > 2 => l # 1
    OBVIOUS
  <2>1. caller \in {"wrote", "read"} => Len(outBuff) # 1
    BY <2>0, <1>c
  <2> QED
    BY <2>1, <1>b, <1>c DEF E!AddressAcked, E!Execute, E!SendNext
<1>f. caller \notin {"wrote", "read"} => /\ state' = "no_data" /\ sto' = TRUE
                                         /\ UNCHANGED <<writeIndex, sta, dat>>
  BY <1>a, AskBytes DEF EepromInv, Shape, Places, E!AddressAcked, E!End
<1>g. writeIndex' \in Nat
  BY <1>e, <1>f DEF EepromInv, Shape
<1>h. caller \in {"wrote", "read"} \/ caller \notin {"wrote", "read"}
  OBVIOUS
<1>1. Shape'
  BY <1>g, <1>h, <1>d, <1>e, <1>f
     DEF EepromInv, Shape, E!callVars, E!callerVars, E!chipVars, E!limitVars,
         E!OutsideUnchanged, E!None
<1>2. StagePart'
  BY <1>0, <1>m, OpFacts
     DEF Assumed, EepromInv, Shape, StagePart, CallPart, E!AddressAcked, E!Condition,
         E!Execute, E!SendNext, E!callVars, E!callerVars, E!chipVars, E!limitVars,
         E!OutsideUnchanged, E!Pending, E!End, ToStart, ToRestart, Addressing, Sending,
         Receiving, Failing, Ended, E!None
<1>3. CallPart'
  BY <1>s, SameCall DEF EepromInv
<1>4. IndexPart'
  BY <1>c, <1>d, <1>e, <1>f
     DEF EepromInv, Shape, IndexPart, E!callVars, E!callerVars, E!chipVars, E!limitVars,
         E!OutsideUnchanged
<1>5. TypePart'
  BY <1>0, <1>m, OpFacts
     DEF Assumed, EepromInv, Shape, StagePart, TypePart, E!AddressAcked, E!Condition,
         E!Execute, E!SendNext, E!callVars, E!callerVars, E!chipVars, E!limitVars,
         E!OutsideUnchanged, E!Pending, E!End, E!Success, ToStart, ToRestart, Addressing,
         Sending, Receiving, Failing, Ended, E!TypeRight, E!None
<1>6. AskPart'
  BY <1>0, <1>m, OpFacts
     DEF Assumed, EepromInv, Shape, StagePart, CallPart, AskPart, E!AddressAcked,
         E!Condition, E!Execute, E!SendNext, E!callVars, E!callerVars, E!chipVars,
         E!limitVars, E!OutsideUnchanged, E!Pending, E!End, ToStart, ToRestart, Addressing,
         Sending, Receiving, Failing, Ended, E!None
<1>7. SendPart'
  <2> SUFFICES ASSUME caller \in {"wrote", "read"} PROVE SendPart'
    BY <1>d DEF SendPart, E!callVars, E!callerVars, E!chipVars, E!limitVars, E!OutsideUnchanged
  <2>1. dat' = outBuff[2] /\ writeIndex' = 2 /\ status' = E!None /\ E!None # "18" /\ outBuff' = outBuff
    BY <1>d, <1>e
       DEF E!None, E!callVars, E!callerVars, E!chipVars, E!limitVars, E!OutsideUnchanged
  <2>2. Taken = 1 /\ Taken' = 1
    BY <2>1, <1>b DEF E!AddressAcked, E!Pending, Taken, E!None
  <2>3. ~Addressing'
    BY <1>a, <1>d
       DEF Addressing, Sending, E!None, E!callVars, E!callerVars, E!chipVars, E!limitVars,
           E!OutsideUnchanged
  <2>4. Located(Taken, IF caller = "read" THEN op.off ELSE PageStart)
    BY <1>a DEF EepromInv, SendPart
  <2>5. \A k, x : Located(k, x)' = Located(k, x)
    BY <1>0, <1>d
       DEF Located, E!callVars, E!callerVars, E!chipVars, E!limitVars, E!OutsideUnchanged
  <2>6. Located(Taken, IF caller = "read" THEN op.off ELSE PageStart)'
    BY <2>2, <2>4, <2>5, <1>0, <1>d
       DEF E!callVars, E!callerVars, E!chipVars, E!limitVars, E!OutsideUnchanged
  <2> QED
    BY <2>1, <2>2, <2>3, <2>6 DEF SendPart
<1>8. WrotePart'
  BY <1>0, <1>m, <1>a, <1>b, <1>c, <1>d, <1>e, WroteBytes
     DEF EepromInv, Assumed, WrotePart, Taken, ToStart, Addressing, Sending, Ended, E!None,
         E!callVars, E!callerVars, E!chipVars, E!limitVars, E!OutsideUnchanged,
         E!AddressAcked, E!Pending
<1>9. PolledPart'
  BY <1>0, <1>m, OpFacts
     DEF Assumed, EepromInv, Shape, StagePart, PolledPart, E!AddressAcked, E!Condition,
         E!Execute, E!SendNext, E!callVars, E!callerVars, E!chipVars, E!limitVars,
         E!OutsideUnchanged, E!Pending, E!End, E!Success, ToStart, ToRestart, Addressing,
         Sending, Receiving, Failing, Ended, E!None
<1>10. IdlePart'
  BY <1>0, <1>m, OpFacts
     DEF Assumed, EepromInv, IdlePart, E!AddressAcked, E!Condition, E!Execute, E!SendNext,
         E!callVars, E!callerVars, E!chipVars, E!limitVars, E!OutsideUnchanged, E!Pending,
         E!End, E!ReadyAfterWrite, E!None
<1>11. ReadPart'
  BY <1>0, <1>a, <1>b, <1>c, <1>d, <1>e, ReadBytes
     DEF EepromInv, Assumed, ReadPart, Taken, ToRestart, Addressing, Sending, Receiving,
         Ended, E!None, E!callVars, E!callerVars, E!chipVars, E!limitVars,
         E!OutsideUnchanged, E!AddressAcked, E!Pending
<1> QED
  BY <1>1, <1>2, <1>3, <1>4, <1>5, <1>6, <1>7, <1>8, <1>9, <1>10, <1>11 DEF EepromInv

\* The chip did not answer: the exchange ends.
LEMMA NackedKeeps ==
  ASSUME Assumed, EepromInv, E!Nacked, UNCHANGED <<E!callerVars, E!OutsideUnchanged>>
  PROVE  EepromInv'
<1>s. UNCHANGED <<caller, eepromType, op, written, outBuff, ctrlBuff, readLength>>
  BY DEF E!Nacked, E!callVars, E!callerVars, E!chipVars, E!limitVars, E!OutsideUnchanged
<1>0. /\ PageStart' = PageStart /\ AddressLen' = AddressLen /\ Chunked' = Chunked
      /\ E!SizeAt(written)' = E!SizeAt(written)
      /\ \A m : FirstBytes(m)' = FirstBytes(m)
      /\ \A o : E!Address(o)' = E!Address(o) /\ E!ReadControl(o)' = E!ReadControl(o)
  BY <1>s, Steady
<1>m. \A n : HeldTo(n)' = HeldTo(n)
  BY SameHeld
     DEF E!Nacked, E!callVars, E!callerVars, E!chipVars, E!limitVars, E!OutsideUnchanged
<1>1. Shape'
  BY OpFacts, Answers
     DEF Assumed, EepromInv, Shape, E!Nacked, E!NackedEnds, E!callVars, E!callerVars,
         E!chipVars, E!limitVars, E!OutsideUnchanged, E!Pending, E!End, E!None
<1>2. StagePart'
  BY <1>0, <1>m, OpFacts
     DEF Assumed, EepromInv, StagePart, E!Nacked, E!NackedEnds, E!callVars, E!callerVars,
         E!chipVars, E!limitVars, E!OutsideUnchanged, E!Pending, E!End, ToStart, ToRestart,
         Addressing, Sending, Receiving, Failing, Ended, E!None
<1>3. CallPart'
  BY <1>s, SameCall DEF EepromInv
<1>4. IndexPart'
  BY <1>0, <1>m, OpFacts
     DEF Assumed, EepromInv, IndexPart, E!Nacked, E!NackedEnds, E!callVars, E!callerVars,
         E!chipVars, E!limitVars, E!OutsideUnchanged, E!Pending, E!End, E!None
<1>5. TypePart'
  BY <1>0, <1>m, OpFacts
     DEF Assumed, EepromInv, Shape, StagePart, TypePart, E!Nacked, E!NackedEnds, E!callVars,
         E!callerVars, E!chipVars, E!limitVars, E!OutsideUnchanged, E!Pending, E!End,
         E!Success, ToStart, ToRestart, Addressing, Sending, Receiving, Failing, Ended,
         E!TypeRight, E!None
<1>6. AskPart'
  BY <1>0, <1>m, OpFacts
     DEF Assumed, EepromInv, AskPart, E!Nacked, E!NackedEnds, E!callVars, E!callerVars,
         E!chipVars, E!limitVars, E!OutsideUnchanged, E!Pending, E!End, Addressing, Sending,
         E!None
<1>7. SendPart'
  BY <1>0, <1>m, OpFacts
     DEF Assumed, EepromInv, SendPart, E!Nacked, E!NackedEnds, E!callVars, E!callerVars,
         E!chipVars, E!limitVars, E!OutsideUnchanged, E!Pending, E!End, Addressing, Sending,
         Taken, E!None
<1>8. WrotePart'
  BY <1>0, <1>m, OpFacts
     DEF Assumed, EepromInv, Shape, StagePart, WrotePart, E!Nacked, E!NackedEnds, E!callVars,
         E!callerVars, E!chipVars, E!limitVars, E!OutsideUnchanged, E!Pending, E!End,
         E!Success, ToStart, ToRestart, Addressing, Sending, Receiving, Failing, Ended,
         Taken, E!None
<1>9. PolledPart'
  BY <1>0, <1>m, OpFacts
     DEF Assumed, EepromInv, PolledPart, E!Nacked, E!NackedEnds, E!callVars, E!callerVars,
         E!chipVars, E!limitVars, E!OutsideUnchanged, E!Pending, E!End, E!Success, ToStart,
         Sending, Ended, E!None
<1>10. IdlePart'
  BY <1>0, <1>m, OpFacts
     DEF Assumed, EepromInv, IdlePart, E!Nacked, E!NackedEnds, E!callVars, E!callerVars,
         E!chipVars, E!limitVars, E!OutsideUnchanged, E!Pending, E!End, E!ReadyAfterWrite,
         E!None
<1>11. ReadPart'
  BY <1>0, <1>m, OpFacts
     DEF Assumed, EepromInv, ReadPart, E!Nacked, E!NackedEnds, E!callVars, E!callerVars,
         E!chipVars, E!limitVars, E!OutsideUnchanged, E!Pending, E!End, E!Success, ToRestart,
         Addressing, Sending, Receiving, Ended, Taken, E!None
<1> QED
  BY <1>1, <1>2, <1>3, <1>4, <1>5, <1>6, <1>7, <1>8, <1>9, <1>10, <1>11 DEF EepromInv

\* The chip took a byte: the next byte, a restart or the end.
LEMMA DataAckedKeeps ==
  ASSUME Assumed, EepromInv, E!DataAcked, UNCHANGED <<E!callerVars, E!OutsideUnchanged>>
  PROVE  EepromInv'
<1>s. UNCHANGED <<caller, eepromType, op, written, outBuff, ctrlBuff, readLength>>
  BY DEF E!DataAcked, E!callVars, E!callerVars, E!chipVars, E!limitVars, E!OutsideUnchanged
<1>0. /\ PageStart' = PageStart /\ AddressLen' = AddressLen /\ Chunked' = Chunked
      /\ E!SizeAt(written)' = E!SizeAt(written)
      /\ \A m : FirstBytes(m)' = FirstBytes(m)
      /\ \A o : E!Address(o)' = E!Address(o) /\ E!ReadControl(o)' = E!ReadControl(o)
  BY <1>s, Steady
<1>m. \A n : HeldTo(n)' = HeldTo(n)
  BY SameHeld
     DEF E!DataAcked, E!callVars, E!callerVars, E!chipVars, E!limitVars, E!OutsideUnchanged
<1>a. state = "busy" /\ Sending /\ caller \in {"wrote", "read"} /\ sta = FALSE /\ sto = FALSE
      /\ status = "28"
  BY DEF EepromInv, Shape, Places, StagePart, AskPart, E!DataAcked, E!Pending, ToStart,
         ToRestart, Addressing, Sending, Receiving, Failing, Ended, E!None
<1>b. writeIndex > 1 /\ writeIndex \in Nat /\ Taken = writeIndex
  BY <1>a DEF EepromInv, Shape, SendPart, Taken, E!None
<1>d. status' = E!None /\ UNCHANGED <<E!callVars, readIndex, aa, E!callerVars, E!OutsideUnchanged>>
  BY DEF E!DataAcked, E!Pending
<1>c. caller = "wrote" =>
        /\ writeIndex < Len(outBuff) => /\ dat' = outBuff[writeIndex + 1] /\ writeIndex' = writeIndex + 1
                                        /\ UNCHANGED <<state, sta, sto>>
        /\ ~(writeIndex < Len(outBuff)) => /\ state' = "ok" /\ sto' = TRUE
                                           /\ UNCHANGED <<sta, dat, writeIndex>>
  BY WroteBytes DEF EepromInv, Assumed, E!DataAcked, E!Execute, E!Condition, E!SendNext, E!End
<1>e. caller = "read" =>
        /\ writeIndex < Len(outBuff) /\ writeIndex <= AddressLen /\ AddressLen \in {2, 3}
        /\ writeIndex < AddressLen => /\ dat' = outBuff[writeIndex + 1] /\ writeIndex' = writeIndex + 1
                                      /\ UNCHANGED <<state, sta, sto>>
        /\ writeIndex = AddressLen => sta' = TRUE /\ UNCHANGED <<state, sto, dat, writeIndex>>
  <2>1. caller = "read" => /\ writeIndex <= AddressLen /\ AddressLen \in {2, 3} /\ writeIndex < Len(outBuff)
                           /\ E!Condition = IF writeIndex = AddressLen THEN "restart" ELSE "cont"
    BY <1>a, <1>b, ReadBytes DEF EepromInv, Assumed, ReadPart, E!Condition
  <2> QED
    BY <2>1, <1>b DEF E!DataAcked, E!Execute, E!SendNext
<1>g. writeIndex' \in Nat
  BY <1>a, <1>b, <1>c, <1>e DEF EepromInv, Shape
<1>h. state' \in {state, "ok"} /\ sta' \in BOOLEAN /\ sto' \in BOOLEAN
  <2>1. CASE caller = "wrote"
    BY <2>1, <1>a, <1>c
  <2>2. CASE caller = "read"
    <3>1. writeIndex < AddressLen \/ writeIndex = AddressLen
      BY <2>2, <1>b, <1>e
    <3> QED
      BY <2>2, <3>1, <1>a, <1>e
  <2> QED
    BY <2>1, <2>2, <1>a
<1>1. Shape'
  BY <1>d, <1>g, <1>h
     DEF EepromInv, Shape, E!callVars, E!callerVars, E!chipVars, E!limitVars,
         E!OutsideUnchanged, E!None
<1>2. StagePart'
  BY <1>0, <1>m, OpFacts
     DEF Assumed, EepromInv, Shape, StagePart, CallPart, E!DataAcked, E!Condition, E!Execute,
         E!SendNext, E!callVars, E!callerVars, E!chipVars, E!limitVars, E!OutsideUnchanged,
         E!Pending, E!End, ToStart, ToRestart, Addressing, Sending, Receiving, Failing,
         Ended, E!None
<1>3. CallPart'
  BY <1>s, SameCall DEF EepromInv
<1>4. IndexPart'
  <2>1. /\ UNCHANGED <<outBuff, inBuff, readIndex, readLength>> /\ Len(outBuff) \in Nat
        /\ writeIndex <= Len(outBuff)
    BY <1>a, <1>d, ReadBytes, WroteBytes
       DEF EepromInv, Assumed, IndexPart, E!callVars, E!callerVars, E!chipVars, E!limitVars,
           E!OutsideUnchanged
  <2>2. writeIndex' \in 0 .. Len(outBuff)
    <3>1. CASE writeIndex < Len(outBuff) /\ writeIndex' = writeIndex + 1
      BY <3>1, <2>1, <1>b
    <3>2. CASE writeIndex' = writeIndex
      BY <3>2, <2>1, <1>b
    <3> QED
      BY <3>1, <3>2, <1>a, <1>b, <1>c, <1>e
  <2> QED
    BY <2>1, <2>2 DEF EepromInv, IndexPart
<1>5. TypePart'
  BY <1>0, <1>m, OpFacts
     DEF Assumed, EepromInv, Shape, StagePart, TypePart, E!DataAcked, E!Condition, E!Execute,
         E!SendNext, E!callVars, E!callerVars, E!chipVars, E!limitVars, E!OutsideUnchanged,
         E!Pending, E!End, E!Success, ToStart, ToRestart, Addressing, Sending, Receiving,
         Failing, Ended, E!TypeRight, E!None
<1>6. AskPart'
  BY <1>0, <1>m, OpFacts
     DEF Assumed, EepromInv, Shape, StagePart, AskPart, E!DataAcked, E!Condition, E!Execute,
         E!SendNext, E!callVars, E!callerVars, E!chipVars, E!limitVars, E!OutsideUnchanged,
         E!Pending, E!End, ToStart, ToRestart, Addressing, Sending, Receiving, Failing,
         Ended, E!None
<1>7. SendPart'
  <2>1. Sending' => dat' = outBuff[writeIndex + 1] /\ writeIndex' = writeIndex + 1
    BY <1>a, <1>b, <1>c, <1>d, <1>e DEF Sending, E!None
  <2>2. Sending' => Taken' = Taken /\ writeIndex' # 0 /\ writeIndex' > 1
    BY <2>1, <1>b, <1>d DEF Taken, Sending, E!None
  <2>3. ~Addressing'
    BY <1>a, <1>d
       DEF Addressing, Sending, E!None, E!callVars, E!callerVars, E!chipVars, E!limitVars,
           E!OutsideUnchanged
  <2>4. Located(Taken, IF caller = "read" THEN op.off ELSE PageStart)
    BY <1>a DEF EepromInv, SendPart
  <2>5. \A k, x : Located(k, x)' = Located(k, x)
    BY <1>0, <1>d
       DEF Located, E!callVars, E!callerVars, E!chipVars, E!limitVars, E!OutsideUnchanged
  <2>6. Sending' => Located(Taken, IF caller = "read" THEN op.off ELSE PageStart)'
    BY <2>2, <2>4, <2>5, <1>0, <1>d
       DEF E!callVars, E!callerVars, E!chipVars, E!limitVars, E!OutsideUnchanged
  <2>7. status' = E!None /\ E!None # "18" /\ outBuff' = outBuff
    BY <1>d DEF E!None, E!callVars, E!callerVars, E!chipVars, E!limitVars, E!OutsideUnchanged
  <2> QED
    BY <2>1, <2>2, <2>3, <2>6, <2>7 DEF SendPart
<1>8. WrotePart'
  <2>1. CASE caller = "wrote" /\ writeIndex < Len(outBuff)
    <3>1. /\ AddressLen \in {2, 3} /\ E!SizeAt(written) \in Nat
          /\ Len(outBuff) = AddressLen + E!SizeAt(written)
      BY <2>1, WroteBytes DEF EepromInv, Assumed
    <3>2. Sending' /\ Taken' = Taken /\ ~Addressing' /\ ~ToStart' /\ ~Ended' /\ page' = page /\ ptr' = ptr
      BY <2>1, <1>a, <1>b, <1>c, <1>d
         DEF Taken, ToStart, Addressing, Sending, Ended, E!None, E!callVars, E!callerVars,
             E!chipVars, E!limitVars, E!OutsideUnchanged
    <3> QED
      BY <2>1, <3>1, <3>2, <1>a, <1>b, <1>c, <1>d, <1>0, <1>m
         DEF EepromInv, WrotePart, E!callVars, E!callerVars, E!chipVars, E!limitVars,
             E!OutsideUnchanged
  <2>2. CASE caller = "wrote" /\ ~(writeIndex < Len(outBuff))
    <3>1. /\ AddressLen \in {2, 3} /\ E!SizeAt(written) \in Nat \ {0}
          /\ Len(outBuff) = AddressLen + E!SizeAt(written)
      BY <2>2, WroteBytes DEF EepromInv, Assumed
    <3>2. writeIndex = AddressLen + E!SizeAt(written)
      BY <2>2, <3>1, <1>a, <1>b DEF EepromInv, IndexPart
    <3>3. page = FirstBytes(E!SizeAt(written))
      BY <3>1, <3>2, <2>2, <1>a, <1>b DEF EepromInv, WrotePart
    <3>4. ~Sending' /\ ~Addressing' /\ ~ToStart' /\ sto' /\ page' = page
      BY <2>2, <1>a, <1>c, <1>d
         DEF ToStart, Addressing, Sending, E!None, E!callVars, E!callerVars, E!chipVars,
             E!limitVars, E!OutsideUnchanged
    <3> QED
      BY <2>2, <3>3, <3>4, <1>a, <1>d, <1>0, <1>m
         DEF EepromInv, WrotePart, E!callVars, E!callerVars, E!chipVars, E!limitVars,
             E!OutsideUnchanged
  <2> QED
    BY <2>1, <2>2, <1>a, <1>d
       DEF WrotePart, E!vars, E!i2cVars, E!callVars, E!callerVars, E!chipVars, E!limitVars,
           E!OutsideUnchanged, E!BusUnchanged
<1>9. PolledPart'
  BY <1>0, <1>m, OpFacts
     DEF Assumed, EepromInv, Shape, StagePart, PolledPart, E!DataAcked, E!Condition,
         E!Execute, E!SendNext, E!callVars, E!callerVars, E!chipVars, E!limitVars,
         E!OutsideUnchanged, E!Pending, E!End, E!Success, ToStart, ToRestart, Addressing,
         Sending, Receiving, Failing, Ended, E!None
<1>10. IdlePart'
  BY <1>0, <1>m, OpFacts
     DEF Assumed, EepromInv, IdlePart, E!DataAcked, E!Condition, E!Execute, E!SendNext,
         E!callVars, E!callerVars, E!chipVars, E!limitVars, E!OutsideUnchanged, E!Pending,
         E!End, E!ReadyAfterWrite, E!None
<1>11. ReadPart'
  <2> SUFFICES ASSUME caller = "read" PROVE ReadPart'
    BY <1>d DEF ReadPart, E!callVars, E!callerVars, E!chipVars, E!limitVars, E!OutsideUnchanged
  <2>1. Taken = AddressLen => ptr = op.off
    BY <1>a DEF EepromInv, ReadPart
  <2>2. CASE writeIndex < AddressLen
    <3>1. Sending' /\ Taken' = Taken /\ ~Addressing' /\ ~ToRestart' /\ ~Ended' /\ ~Receiving'
      BY <2>2, <1>a, <1>b, <1>d, <1>e
         DEF Taken, ToRestart, Addressing, Sending, Receiving, Ended, E!None, E!callVars,
             E!callerVars, E!chipVars, E!limitVars, E!OutsideUnchanged
    <3> QED
      BY <2>1, <2>2, <3>1, <1>0, <1>a, <1>b, <1>d, <1>e
         DEF EepromInv, ReadPart, E!callVars, E!callerVars, E!chipVars, E!limitVars,
             E!OutsideUnchanged
  <2>3. CASE writeIndex = AddressLen
    <3>1. ToRestart' /\ ~Sending' /\ ~Addressing' /\ ~Ended' /\ ~Receiving'
      BY <2>3, <1>a, <1>b, <1>d, <1>e
         DEF ToRestart, Addressing, Sending, Receiving, Ended, E!None, E!callVars,
             E!callerVars, E!chipVars, E!limitVars, E!OutsideUnchanged
    <3> QED
      BY <2>1, <2>3, <3>1, <1>0, <1>a, <1>b, <1>d, <1>e
         DEF EepromInv, ReadPart, E!callVars, E!callerVars, E!chipVars, E!limitVars,
             E!OutsideUnchanged
  <2> QED
    BY <2>2, <2>3, <1>b, <1>e
<1> QED
  BY <1>1, <1>2, <1>3, <1>4, <1>5, <1>6, <1>7, <1>8, <1>9, <1>10, <1>11 DEF EepromInv

\* The chip answered to be read: it is told whether more is wanted.
LEMMA AddressRAckedKeeps ==
  ASSUME Assumed, EepromInv, E!AddressRAcked, UNCHANGED <<E!callerVars, E!OutsideUnchanged>>
  PROVE  EepromInv'
<1>s. UNCHANGED <<caller, eepromType, op, written, outBuff, ctrlBuff, readLength>>
  BY DEF E!AddressRAcked, E!callVars, E!callerVars, E!chipVars, E!limitVars, E!OutsideUnchanged
<1>0. /\ PageStart' = PageStart /\ AddressLen' = AddressLen /\ Chunked' = Chunked
      /\ E!SizeAt(written)' = E!SizeAt(written)
      /\ \A m : FirstBytes(m)' = FirstBytes(m)
      /\ \A o : E!Address(o)' = E!Address(o) /\ E!ReadControl(o)' = E!ReadControl(o)
  BY <1>s, Steady
<1>m. \A n : HeldTo(n)' = HeldTo(n)
  BY SameHeld
     DEF E!AddressRAcked, E!callVars, E!callerVars, E!chipVars, E!limitVars,
         E!OutsideUnchanged
<1>1. Shape'
  BY OpFacts, Answers
     DEF Assumed, EepromInv, Shape, E!AddressRAcked, E!WantsMore, E!callVars, E!callerVars,
         E!chipVars, E!limitVars, E!OutsideUnchanged, E!Pending, E!None
<1>2. StagePart'
  BY <1>0, <1>m, OpFacts
     DEF Assumed, EepromInv, StagePart, E!AddressRAcked, E!WantsMore, E!callVars,
         E!callerVars, E!chipVars, E!limitVars, E!OutsideUnchanged, E!Pending, ToStart,
         ToRestart, Addressing, Sending, Receiving, Failing, Ended, E!None
<1>3. CallPart'
  BY <1>s, SameCall DEF EepromInv
<1>4. IndexPart'
  BY <1>0, <1>m, OpFacts
     DEF Assumed, EepromInv, IndexPart, E!AddressRAcked, E!WantsMore, E!callVars,
         E!callerVars, E!chipVars, E!limitVars, E!OutsideUnchanged, E!Pending, E!None
<1>5. TypePart'
  BY <1>0, <1>m, OpFacts
     DEF Assumed, EepromInv, Shape, StagePart, TypePart, E!AddressRAcked, E!WantsMore,
         E!callVars, E!callerVars, E!chipVars, E!limitVars, E!OutsideUnchanged, E!Pending,
         E!Success, ToStart, ToRestart, Addressing, Sending, Receiving, Failing, Ended,
         E!TypeRight, E!None
<1>6. AskPart'
  BY <1>0, <1>m, OpFacts
     DEF Assumed, EepromInv, Shape, StagePart, AskPart, E!AddressRAcked, E!WantsMore,
         E!callVars, E!callerVars, E!chipVars, E!limitVars, E!OutsideUnchanged, E!Pending,
         ToStart, ToRestart, Addressing, Sending, Receiving, Failing, Ended, E!None
<1>7. SendPart'
  BY <1>0, <1>m, OpFacts
     DEF Assumed, EepromInv, Shape, StagePart, SendPart, E!AddressRAcked, E!WantsMore,
         E!callVars, E!callerVars, E!chipVars, E!limitVars, E!OutsideUnchanged, E!Pending,
         ToStart, ToRestart, Addressing, Sending, Receiving, Failing, Ended, Taken, E!None
<1>8. WrotePart'
  BY <1>0, <1>m, OpFacts
     DEF Assumed, EepromInv, Shape, StagePart, WrotePart, E!AddressRAcked, E!WantsMore,
         E!callVars, E!callerVars, E!chipVars, E!limitVars, E!OutsideUnchanged, E!Pending,
         E!Success, ToStart, ToRestart, Addressing, Sending, Receiving, Failing, Ended,
         Taken, E!None
<1>9. PolledPart'
  BY <1>0, <1>m, OpFacts
     DEF Assumed, EepromInv, Shape, StagePart, PolledPart, E!AddressRAcked, E!WantsMore,
         E!callVars, E!callerVars, E!chipVars, E!limitVars, E!OutsideUnchanged, E!Pending,
         E!Success, ToStart, ToRestart, Addressing, Sending, Receiving, Failing, Ended,
         E!None
<1>10. IdlePart'
  BY <1>0, <1>m, OpFacts
     DEF Assumed, EepromInv, IdlePart, E!AddressRAcked, E!WantsMore, E!callVars,
         E!callerVars, E!chipVars, E!limitVars, E!OutsideUnchanged, E!Pending,
         E!ReadyAfterWrite, E!None
<1>11. ReadPart'
  BY <1>0, <1>m, OpFacts
     DEF Assumed, EepromInv, Shape, StagePart, ReadPart, E!AddressRAcked, E!WantsMore,
         E!callVars, E!callerVars, E!chipVars, E!limitVars, E!OutsideUnchanged, E!Pending,
         E!Success, ToStart, ToRestart, Addressing, Sending, Receiving, Failing, Ended,
         Taken, E!None
<1> QED
  BY <1>1, <1>2, <1>3, <1>4, <1>5, <1>6, <1>7, <1>8, <1>9, <1>10, <1>11 DEF EepromInv

\* A byte came, and is not the last.
LEMMA DataReceivedKeeps ==
  ASSUME Assumed, EepromInv, E!DataReceived, UNCHANGED <<E!callerVars, E!OutsideUnchanged>>
  PROVE  EepromInv'
<1>s. UNCHANGED <<caller, eepromType, op, written, outBuff, ctrlBuff, readLength>>
  BY DEF E!DataReceived, E!StoreByte, E!callerVars, E!chipVars, E!limitVars, E!OutsideUnchanged
<1>0. /\ PageStart' = PageStart /\ AddressLen' = AddressLen /\ Chunked' = Chunked
      /\ E!SizeAt(written)' = E!SizeAt(written)
      /\ \A m : FirstBytes(m)' = FirstBytes(m)
      /\ \A o : E!Address(o)' = E!Address(o) /\ E!ReadControl(o)' = E!ReadControl(o)
  BY <1>s, Steady
<1>m. \A n : HeldTo(n)' = HeldTo(n)
  BY SameHeld DEF E!DataReceived, E!callerVars, E!chipVars, E!limitVars, E!OutsideUnchanged
<1>a. /\ state = "busy" /\ caller = "read" /\ Receiving /\ status = "50"
      /\ sta = FALSE /\ sto = FALSE
  BY DEF EepromInv, Shape, StagePart, E!DataReceived, E!Pending, ToStart, ToRestart,
         Addressing, Sending, Receiving, Failing, Ended, E!None
<1>b. /\ readIndex \in Nat /\ readLength \in Nat /\ readIndex < readLength
      /\ op.off \in Nat /\ op.off + readLength <= Size
      /\ dat = E!Byte("d", mem[op.off + readIndex])
  BY <1>a, ReadBytes DEF EepromInv, Assumed, Shape, ReadPart
<1>c. inBuff \in Seq([k : {"d"}, v : Nat]) /\ Len(inBuff) = readLength
  BY DEF EepromInv, IndexPart
<1>d. mem[op.off + readIndex] \in Nat
  BY <1>b DEF EepromInv, Assumed, E!SizeAssumption, Shape, E!Offset
<1>f. dat \in [k : {"d"}, v : Nat] /\ dat.v = mem[op.off + readIndex]
  BY <1>b, <1>d DEF E!Byte
<1>g. PICK n \in Nat : n = readIndex + 1
  BY <1>b
<1>h. /\ inBuff' = [inBuff EXCEPT ![n] = dat] /\ readIndex' = n /\ status' = E!None
      /\ UNCHANGED <<outBuff, ctrlBuff, readLength, writeIndex, sta, dat, E!callerVars, E!OutsideUnchanged>>
  BY <1>b, <1>c, <1>g DEF E!DataReceived, E!Pending, E!StoreByte, E!WantsMore
<1>i. n \in 1 .. Len(inBuff)
  BY <1>b, <1>c, <1>g
<1>j. /\ inBuff' \in Seq([k : {"d"}, v : Nat]) /\ Len(inBuff') = readLength
      /\ inBuff'[n] = dat /\ \A i \in 1 .. readLength : i # n => inBuff'[i] = inBuff[i]
  BY <1>c, <1>f, <1>h, <1>i
<1>1. Shape'
  BY OpFacts, Answers
     DEF Assumed, EepromInv, Shape, E!DataReceived, E!StoreByte, E!WantsMore, E!callerVars,
         E!chipVars, E!limitVars, E!OutsideUnchanged, E!Pending, E!None
<1>2. StagePart'
  BY <1>0, <1>m, OpFacts
     DEF Assumed, EepromInv, StagePart, E!DataReceived, E!StoreByte, E!WantsMore,
         E!callerVars, E!chipVars, E!limitVars, E!OutsideUnchanged, E!Pending, ToStart,
         ToRestart, Addressing, Sending, Receiving, Failing, Ended, E!None
<1>3. CallPart'
  BY <1>s, SameCall DEF EepromInv
<1>4. IndexPart'
  BY <1>a, <1>b, <1>g, <1>h, <1>i, <1>j
     DEF EepromInv, IndexPart, E!callerVars, E!chipVars, E!limitVars, E!OutsideUnchanged
<1>5. TypePart'
  BY <1>0, <1>m, OpFacts
     DEF Assumed, EepromInv, Shape, StagePart, TypePart, E!DataReceived, E!StoreByte,
         E!WantsMore, E!callerVars, E!chipVars, E!limitVars, E!OutsideUnchanged, E!Pending,
         E!Success, ToStart, ToRestart, Addressing, Sending, Receiving, Failing, Ended,
         E!TypeRight, E!None
<1>6. AskPart'
  BY <1>0, <1>m, OpFacts
     DEF Assumed, EepromInv, Shape, StagePart, AskPart, E!DataReceived, E!StoreByte,
         E!WantsMore, E!callerVars, E!chipVars, E!limitVars, E!OutsideUnchanged, E!Pending,
         ToStart, ToRestart, Addressing, Sending, Receiving, Failing, Ended, E!None
<1>7. SendPart'
  BY <1>0, <1>m, OpFacts
     DEF Assumed, EepromInv, Shape, StagePart, SendPart, E!DataReceived, E!StoreByte,
         E!WantsMore, E!callerVars, E!chipVars, E!limitVars, E!OutsideUnchanged, E!Pending,
         ToStart, ToRestart, Addressing, Sending, Receiving, Failing, Ended, Taken, E!None
<1>8. WrotePart'
  BY <1>0, <1>m, OpFacts
     DEF Assumed, EepromInv, Shape, StagePart, WrotePart, E!DataReceived, E!StoreByte,
         E!WantsMore, E!callerVars, E!chipVars, E!limitVars, E!OutsideUnchanged, E!Pending,
         E!Success, ToStart, ToRestart, Addressing, Sending, Receiving, Failing, Ended,
         Taken, E!None
<1>9. PolledPart'
  BY <1>0, <1>m, OpFacts
     DEF Assumed, EepromInv, Shape, StagePart, PolledPart, E!DataReceived, E!StoreByte,
         E!WantsMore, E!callerVars, E!chipVars, E!limitVars, E!OutsideUnchanged, E!Pending,
         E!Success, ToStart, ToRestart, Addressing, Sending, Receiving, Failing, Ended,
         E!None
<1>10. IdlePart'
  BY <1>0, <1>m, OpFacts
     DEF Assumed, EepromInv, IdlePart, E!DataReceived, E!StoreByte, E!WantsMore,
         E!callerVars, E!chipVars, E!limitVars, E!OutsideUnchanged, E!Pending,
         E!ReadyAfterWrite, E!None
<1>11. ReadPart'
  <2>1. \A i \in 1 .. readIndex : inBuff[i].v = mem[op.off + i - 1]
    BY <1>a DEF EepromInv, ReadPart
  <2>2. op.off + n - 1 = op.off + readIndex
    BY <1>b, <1>g
  <2>3. \A i \in 1 .. n : inBuff'[i].v = mem[op.off + i - 1]
    <3> SUFFICES ASSUME NEW i \in 1 .. n PROVE inBuff'[i].v = mem[op.off + i - 1]
      OBVIOUS
    <3>1. CASE i = n
      BY <3>1, <2>2, <1>f, <1>j
    <3>2. CASE i # n
      <4>1. i \in 1 .. readIndex /\ i \in 1 .. readLength
        BY <3>2, <1>b, <1>g
      <4> QED
        BY <3>2, <4>1, <2>1, <1>j
    <3> QED
      BY <3>1, <3>2
  <2>4. n < readLength
    BY <1>a, <1>b, <1>g DEF EepromInv, ReadPart
  <2>5. ptr = (op.off + n) % Size
    BY <1>a, <1>b, <1>g DEF EepromInv, ReadPart
  <2>6. ~Ended' /\ ~Addressing' /\ ~Sending' /\ ~ToRestart' /\ aa' = E!WantsMore(n)
    BY <1>a, <1>b, <1>g, <1>h
       DEF E!DataReceived, E!WantsMore, ToRestart, Addressing, Sending, Receiving, Ended,
           E!None, E!callerVars, E!chipVars, E!limitVars, E!OutsideUnchanged
  <2>7. E!WantsMore(readIndex)' = E!WantsMore(n)
    BY <1>h DEF E!WantsMore
  <2>8. ptr' = (op'.off + readIndex' + (IF status' \in {"50", "58"} THEN 1 ELSE 0)) % Size
    BY <2>5, <1>b, <1>g, <1>h
       DEF E!None, E!callerVars, E!chipVars, E!limitVars, E!OutsideUnchanged
  <2>9. readIndex' <= readLength' /\ readIndex' < readLength'
    <3>1. n \in Nat /\ readLength \in Nat /\ readIndex' = n /\ readLength' = readLength
      BY <1>b, <1>g, <1>h
    <3> QED
      BY <3>1, <2>4
  <2>11. status' = E!None /\ E!None \notin {"40", "50", "58"} /\ readIndex' = n
    BY <1>h DEF E!None
  <2>10. \A i \in 1 .. readIndex' : inBuff'[i].v = mem'[op'.off + i - 1]
    BY <2>3, <2>11, <1>h DEF E!callerVars, E!chipVars, E!limitVars, E!OutsideUnchanged
  <2> QED
    BY <2>6, <2>7, <2>8, <2>9, <2>10, <2>11, <1>h DEF ReadPart
<1> QED
  BY <1>1, <1>2, <1>3, <1>4, <1>5, <1>6, <1>7, <1>8, <1>9, <1>10, <1>11 DEF EepromInv

\* The last byte came: the exchange ends.
LEMMA LastReceivedKeeps ==
  ASSUME Assumed, EepromInv, E!LastReceived, UNCHANGED <<E!callerVars, E!OutsideUnchanged>>
  PROVE  EepromInv'
<1>s. UNCHANGED <<caller, eepromType, op, written, outBuff, ctrlBuff, readLength>>
  BY DEF E!LastReceived, E!StoreByte, E!callerVars, E!chipVars, E!limitVars, E!OutsideUnchanged
<1>0. /\ PageStart' = PageStart /\ AddressLen' = AddressLen /\ Chunked' = Chunked
      /\ E!SizeAt(written)' = E!SizeAt(written)
      /\ \A m : FirstBytes(m)' = FirstBytes(m)
      /\ \A o : E!Address(o)' = E!Address(o) /\ E!ReadControl(o)' = E!ReadControl(o)
  BY <1>s, Steady
<1>m. \A n : HeldTo(n)' = HeldTo(n)
  BY SameHeld DEF E!LastReceived, E!callerVars, E!chipVars, E!limitVars, E!OutsideUnchanged
<1>a. /\ state = "busy" /\ caller = "read" /\ Receiving /\ status = "58"
      /\ sta = FALSE /\ sto = FALSE
  BY DEF EepromInv, Shape, StagePart, E!LastReceived, E!Pending, ToStart, ToRestart,
         Addressing, Sending, Receiving, Failing, Ended, E!None
<1>b. /\ readIndex \in Nat /\ readLength \in Nat /\ readIndex < readLength
      /\ op.off \in Nat /\ op.off + readLength <= Size
      /\ dat = E!Byte("d", mem[op.off + readIndex])
  BY <1>a, ReadBytes DEF EepromInv, Assumed, Shape, ReadPart
<1>c. inBuff \in Seq([k : {"d"}, v : Nat]) /\ Len(inBuff) = readLength
  BY DEF EepromInv, IndexPart
<1>d. mem[op.off + readIndex] \in Nat
  BY <1>b DEF EepromInv, Assumed, E!SizeAssumption, Shape, E!Offset
<1>f. dat \in [k : {"d"}, v : Nat] /\ dat.v = mem[op.off + readIndex]
  BY <1>b, <1>d DEF E!Byte
<1>g. PICK n \in Nat : n = readIndex + 1
  BY <1>b
<1>h. /\ inBuff' = [inBuff EXCEPT ![n] = dat] /\ readIndex' = n /\ status' = E!None
      /\ UNCHANGED <<outBuff, ctrlBuff, readLength, writeIndex, sta, dat, E!callerVars, E!OutsideUnchanged>>
  BY <1>b, <1>c, <1>g DEF E!LastReceived, E!Pending, E!StoreByte, E!LastEnds, E!End
<1>i. n \in 1 .. Len(inBuff)
  BY <1>b, <1>c, <1>g
<1>j. /\ inBuff' \in Seq([k : {"d"}, v : Nat]) /\ Len(inBuff') = readLength
      /\ inBuff'[n] = dat /\ \A i \in 1 .. readLength : i # n => inBuff'[i] = inBuff[i]
  BY <1>c, <1>f, <1>h, <1>i
<1>1. Shape'
  BY OpFacts, Answers
     DEF Assumed, EepromInv, Shape, E!LastReceived, E!StoreByte, E!LastEnds, E!callerVars,
         E!chipVars, E!limitVars, E!OutsideUnchanged, E!Pending, E!End, E!None
<1>2. StagePart'
  BY <1>0, <1>m, OpFacts
     DEF Assumed, EepromInv, StagePart, E!LastReceived, E!StoreByte, E!LastEnds,
         E!callerVars, E!chipVars, E!limitVars, E!OutsideUnchanged, E!Pending, E!End,
         ToStart, ToRestart, Addressing, Sending, Receiving, Failing, Ended, E!None
<1>3. CallPart'
  BY <1>s, SameCall DEF EepromInv
<1>4. IndexPart'
  BY <1>a, <1>b, <1>g, <1>h, <1>i, <1>j
     DEF EepromInv, IndexPart, E!callerVars, E!chipVars, E!limitVars, E!OutsideUnchanged
<1>5. TypePart'
  BY <1>0, <1>m, OpFacts
     DEF Assumed, EepromInv, Shape, StagePart, TypePart, E!LastReceived, E!StoreByte,
         E!LastEnds, E!callerVars, E!chipVars, E!limitVars, E!OutsideUnchanged, E!Pending,
         E!End, E!Success, ToStart, ToRestart, Addressing, Sending, Receiving, Failing,
         Ended, E!TypeRight, E!None
<1>6. AskPart'
  BY <1>0, <1>m, OpFacts
     DEF Assumed, EepromInv, AskPart, E!LastReceived, E!StoreByte, E!LastEnds, E!callerVars,
         E!chipVars, E!limitVars, E!OutsideUnchanged, E!Pending, E!End, Addressing, Sending,
         E!None
<1>7. SendPart'
  BY <1>0, <1>m, OpFacts
     DEF Assumed, EepromInv, SendPart, E!LastReceived, E!StoreByte, E!LastEnds, E!callerVars,
         E!chipVars, E!limitVars, E!OutsideUnchanged, E!Pending, E!End, Addressing, Sending,
         Taken, E!None
<1>8. WrotePart'
  BY <1>0, <1>m, OpFacts
     DEF Assumed, EepromInv, Shape, StagePart, WrotePart, E!LastReceived, E!StoreByte,
         E!LastEnds, E!callerVars, E!chipVars, E!limitVars, E!OutsideUnchanged, E!Pending,
         E!End, E!Success, ToStart, ToRestart, Addressing, Sending, Receiving, Failing,
         Ended, Taken, E!None
<1>9. PolledPart'
  BY <1>0, <1>m, OpFacts
     DEF Assumed, EepromInv, Shape, StagePart, PolledPart, E!LastReceived, E!StoreByte,
         E!LastEnds, E!callerVars, E!chipVars, E!limitVars, E!OutsideUnchanged, E!Pending,
         E!End, E!Success, ToStart, ToRestart, Addressing, Sending, Receiving, Failing,
         Ended, E!None
<1>10. IdlePart'
  BY <1>0, <1>m, OpFacts
     DEF Assumed, EepromInv, IdlePart, E!LastReceived, E!StoreByte, E!LastEnds, E!callerVars,
         E!chipVars, E!limitVars, E!OutsideUnchanged, E!Pending, E!End, E!ReadyAfterWrite,
         E!None
<1>11. ReadPart'
  <2>1. \A i \in 1 .. readIndex : inBuff[i].v = mem[op.off + i - 1]
    BY <1>a DEF EepromInv, ReadPart
  <2>2. op.off + n - 1 = op.off + readIndex
    BY <1>b, <1>g
  <2>3. \A i \in 1 .. n : inBuff'[i].v = mem[op.off + i - 1]
    <3> SUFFICES ASSUME NEW i \in 1 .. n PROVE inBuff'[i].v = mem[op.off + i - 1]
      OBVIOUS
    <3>1. CASE i = n
      BY <3>1, <2>2, <1>f, <1>j
    <3>2. CASE i # n
      <4>1. i \in 1 .. readIndex /\ i \in 1 .. readLength
        BY <3>2, <1>b, <1>g
      <4> QED
        BY <3>2, <4>1, <2>1, <1>j
    <3> QED
      BY <3>1, <3>2
  <2>4. n = readLength
    BY <1>a, <1>b, <1>g DEF EepromInv, ReadPart
  <2>5. Ended' /\ ~Receiving' /\ ~Addressing' /\ ~Sending' /\ ~ToRestart'
    BY <1>a, <1>h
       DEF E!LastReceived, E!LastEnds, E!End, ToRestart, Addressing, Sending, Receiving,
           Ended, E!None, E!callerVars, E!chipVars, E!limitVars, E!OutsideUnchanged
  <2> QED
    BY <2>3, <2>4, <2>5, <1>h
       DEF ReadPart, E!vars, E!i2cVars, E!callVars, E!callerVars, E!chipVars, E!limitVars,
           E!OutsideUnchanged, E!BusUnchanged
<1> QED
  BY <1>1, <1>2, <1>3, <1>4, <1>5, <1>6, <1>7, <1>8, <1>9, <1>10, <1>11 DEF EepromInv

\* The STOP is out: the chip starts to write its page.
LEMMA StopKeeps ==
  ASSUME Assumed, EepromInv, E!Stop
  PROVE  EepromInv'
<1>s. UNCHANGED <<caller, eepromType, op, written, outBuff, ctrlBuff, readLength>>
  BY DEF E!Stop, E!callVars, E!callerVars, E!limitVars, E!BusUnchanged
<1>0. /\ PageStart' = PageStart /\ AddressLen' = AddressLen /\ Chunked' = Chunked
      /\ E!SizeAt(written)' = E!SizeAt(written)
      /\ \A m : FirstBytes(m)' = FirstBytes(m)
      /\ \A o : E!Address(o)' = E!Address(o) /\ E!ReadControl(o)' = E!ReadControl(o)
  BY <1>s, Steady
<1>a. /\ status = E!None /\ sta \in BOOLEAN /\ sto = TRUE /\ sto' = FALSE /\ bus' = "idle"
      /\ page' = E!NoBytes /\ phase' = "none" /\ status' = E!None
      /\ UNCHANGED <<state, E!callVars, writeIndex, readIndex, sta, aa, dat, ptr, E!callerVars, E!limitVars>>
  BY DEF EepromInv, Shape, E!Stop, E!Free, E!Forget, E!callVars, E!callerVars, E!limitVars,
         E!BusUnchanged
<1>b. mem' = E!Written /\ busy' = (busy \/ page # E!NoBytes)
  BY DEF E!Stop, E!Commit
<1>c. mem \in [E!Offset -> Nat]
  BY DEF EepromInv, Shape
<1>d. page = E!NoBytes => mem' = mem
  BY <1>b, <1>c, WrittenSame
<1>f. (state = "busy" => ToStart) /\ (state # "busy" => Ended)
  BY <1>a
     DEF EepromInv, StagePart, ToStart, ToRestart, Addressing, Sending, Receiving, Failing,
         Ended, E!None
<1>1. Shape'
  <2>1. mem' \in [E!Offset -> Nat]
    BY <1>b, CommitFacts
  <2>2. busy' \in BOOLEAN
    BY <1>b DEF EepromInv, Shape
  <2> QED
    BY <1>a, <2>1, <2>2 DEF EepromInv, Shape, E!callVars, E!callerVars, E!limitVars, E!None
<1>2. StagePart'
  BY <1>0, OpFacts
     DEF Assumed, EepromInv, StagePart, E!Stop, E!Commit, E!Forget, E!Written, E!callVars,
         E!callerVars, E!limitVars, E!BusUnchanged, E!Free, ToStart, ToRestart, Addressing,
         Sending, Receiving, Failing, Ended, E!None
<1>3. CallPart'
  BY <1>s, SameCall DEF EepromInv
<1>4. IndexPart'
  BY <1>0, OpFacts
     DEF Assumed, EepromInv, IndexPart, E!Stop, E!Commit, E!Forget, E!Written, E!callVars,
         E!callerVars, E!limitVars, E!BusUnchanged, E!Free, E!None
<1>5. TypePart'
  BY <1>0, OpFacts
     DEF Assumed, EepromInv, TypePart, E!Stop, E!Commit, E!Forget, E!Written, E!callVars,
         E!callerVars, E!limitVars, E!BusUnchanged, E!Free, E!Success, Sending, Failing,
         Ended, E!TypeRight, E!None
<1>6. AskPart'
  BY <1>0, OpFacts
     DEF Assumed, EepromInv, AskPart, E!Stop, E!Commit, E!Forget, E!Written, Addressing,
         Sending, E!None
<1>7. SendPart'
  BY <1>0, OpFacts
     DEF Assumed, EepromInv, SendPart, E!Stop, E!Commit, E!Forget, E!Written, Addressing,
         Sending, Taken, E!None
<1>8. WrotePart'
  <2> SUFFICES ASSUME caller = "wrote" PROVE WrotePart'
    BY <1>a DEF WrotePart, E!callVars, E!callerVars, E!limitVars
  <2>1. \E m \in 0 .. E!SizeAt(written) : page = FirstBytes(m)
    BY DEF EepromInv, WrotePart
  <2>2. HeldTo(written) /\ (ToStart => page = E!NoBytes)
    BY DEF EepromInv, WrotePart
  <2>3. HeldTo(written)'
    BY <2>1, <2>2, <1>a, <1>b, WrittenHeld
       DEF EepromInv, Assumed, CallPart, E!callVars, E!callerVars, E!limitVars
  <2>4. page' = FirstBytes(0)' /\ 0 \in 0 .. E!SizeAt(written)'
    BY <1>a, <1>0, FirstNone, NextFacts DEF EepromInv, Assumed, Shape, CallPart
  <2>5. ~Sending' /\ ~Addressing'
    BY <1>a DEF Addressing, Sending, E!None
  <2>6. Ended' /\ E!Success' => page = FirstBytes(E!SizeAt(written))
    BY <1>a, <1>f DEF EepromInv, WrotePart, E!Success
  <2>7. Ended' /\ E!Success' => HeldTo(Chunked)'
    BY <2>2, <2>6, <1>a, <1>b, WrittenAll
       DEF EepromInv, Assumed, CallPart, E!callVars, E!callerVars, E!limitVars
  <2> QED
    BY <2>3, <2>4, <2>5, <2>7, <1>a DEF WrotePart
<1>9. PolledPart'
  <2> SUFFICES ASSUME caller = "polled" PROVE PolledPart'
    BY <1>a DEF PolledPart, E!callVars, E!callerVars, E!limitVars
  <2>1. CASE page = E!NoBytes /\ HeldTo(Chunked)
    <3>1. HeldTo(Chunked)'
      BY <2>1, <1>0, <1>a, <1>d, SameHeld DEF E!callVars, E!callerVars, E!limitVars
    <3>2. (Ended' /\ E!Success' => Ended /\ E!Success) /\ busy' = busy /\ ~Sending'
      BY <2>1, <1>a, <1>b, <1>f DEF EepromInv, Shape, E!Success, ToStart, Sending, Ended, E!None
    <3> QED
      BY <3>1, <3>2, <1>a DEF EepromInv, PolledPart
  <2>2. CASE ToStart /\ page = FirstBytes(E!SizeAt(written)) /\ HeldTo(written)
    <3>1. HeldTo(Chunked)'
      BY <2>2, <1>a, <1>b, WrittenAll
         DEF EepromInv, Assumed, CallPart, E!callVars, E!callerVars, E!limitVars
    <3>2. ~Sending' /\ ~Ended'
      BY <2>2, <1>a DEF ToStart, Sending, Ended, E!None
    <3> QED
      BY <3>1, <3>2, <1>a DEF PolledPart
  <2> QED
    BY <2>1, <2>2 DEF EepromInv, PolledPart
<1>10. IdlePart'
  BY <1>a, <1>b, Answers
     DEF EepromInv, IdlePart, E!ReadyAfterWrite, E!callVars, E!callerVars, E!limitVars
<1>11. ReadPart'
  <2> SUFFICES ASSUME caller = "read" PROVE ReadPart'
    BY <1>a DEF ReadPart, E!callVars, E!callerVars, E!limitVars
  <2>1. mem' = mem
    BY <1>d DEF EepromInv, IdlePart
  <2>2. ~Sending' /\ ~Addressing' /\ ~Receiving' /\ ~ToRestart' /\ (Ended' => Ended)
    BY <1>a, <1>f DEF ToStart, ToRestart, Addressing, Sending, Receiving, Ended, E!None
  <2>3. E!Success' = E!Success
    BY <1>a DEF E!Success
  <2> QED
    BY <2>1, <2>2, <2>3, <1>a DEF EepromInv, ReadPart, E!callVars, E!callerVars, E!limitVars
<1> QED
  BY <1>1, <1>2, <1>3, <1>4, <1>5, <1>6, <1>7, <1>8, <1>9, <1>10, <1>11 DEF EepromInv

\* The bus raises a START or a repeated one.
LEMMA StartKeeps ==
  ASSUME Assumed, EepromInv, E!Start
  PROVE  EepromInv'
<1>s. UNCHANGED <<caller, eepromType, op, written, outBuff, ctrlBuff, readLength>>
  BY DEF E!Start, E!callVars, E!callerVars, E!limitVars, E!BusUnchanged
<1>0. /\ PageStart' = PageStart /\ AddressLen' = AddressLen /\ Chunked' = Chunked
      /\ E!SizeAt(written)' = E!SizeAt(written)
      /\ \A m : FirstBytes(m)' = FirstBytes(m)
      /\ \A o : E!Address(o)' = E!Address(o) /\ E!ReadControl(o)' = E!ReadControl(o)
  BY <1>s, Steady
<1>m. \A n : HeldTo(n)' = HeldTo(n)
  BY SameHeld DEF E!Start, E!callVars, E!callerVars, E!limitVars, E!BusUnchanged
<1>1. Shape'
  BY OpFacts, Answers
     DEF Assumed, EepromInv, Shape, E!Start, E!Forget, E!callVars, E!callerVars, E!limitVars,
         E!BusUnchanged, E!Free, E!Raise, E!None
<1>2. StagePart'
  BY <1>0, <1>m, OpFacts
     DEF Assumed, EepromInv, StagePart, E!Start, E!Forget, E!callVars, E!callerVars,
         E!limitVars, E!BusUnchanged, E!Free, E!Raise, ToStart, ToRestart, Addressing,
         Sending, Receiving, Failing, Ended, E!None
<1>3. CallPart'
  BY <1>s, SameCall DEF EepromInv
<1>4. IndexPart'
  BY <1>0, <1>m, OpFacts
     DEF Assumed, EepromInv, IndexPart, E!Start, E!Forget, E!callVars, E!callerVars,
         E!limitVars, E!BusUnchanged, E!Free, E!Raise, E!None
<1>5. TypePart'
  BY <1>0, <1>m, OpFacts
     DEF Assumed, EepromInv, TypePart, E!Start, E!Forget, E!callVars, E!callerVars,
         E!limitVars, E!BusUnchanged, E!Free, E!Raise, E!Success, Sending, Failing, Ended,
         E!TypeRight, E!None
<1>6. AskPart'
  BY <1>0, <1>m, OpFacts
     DEF Assumed, EepromInv, AskPart, E!Start, E!Forget, E!callVars, E!callerVars,
         E!limitVars, E!BusUnchanged, E!Free, E!Raise, Addressing, Sending, E!None
<1>7. SendPart'
  BY <1>0, <1>m, OpFacts
     DEF Assumed, EepromInv, SendPart, E!Start, E!Forget, E!callVars, E!callerVars,
         E!limitVars, E!BusUnchanged, E!Free, E!Raise, Addressing, Sending, Taken, E!None
<1>8. WrotePart'
  BY <1>0, <1>m, OpFacts
     DEF Assumed, EepromInv, Shape, StagePart, WrotePart, E!Start, E!Forget, E!callVars,
         E!callerVars, E!limitVars, E!BusUnchanged, E!Free, E!Raise, E!Success, ToStart,
         ToRestart, Addressing, Sending, Receiving, Failing, Ended, Taken, E!None
<1>9. PolledPart'
  BY <1>0, <1>m, OpFacts
     DEF Assumed, EepromInv, PolledPart, E!Start, E!Forget, E!callVars, E!callerVars,
         E!limitVars, E!BusUnchanged, E!Free, E!Raise, E!Success, ToStart, Sending, Ended,
         E!None
<1>10. IdlePart'
  BY <1>0, <1>m, OpFacts
     DEF Assumed, EepromInv, IdlePart, E!Start, E!Forget, E!callVars, E!callerVars,
         E!limitVars, E!BusUnchanged, E!Free, E!Raise, E!ReadyAfterWrite, E!None
<1>11. ReadPart'
  BY <1>0, <1>m, OpFacts
     DEF Assumed, EepromInv, Shape, StagePart, ReadPart, E!Start, E!Forget, E!callVars,
         E!callerVars, E!limitVars, E!BusUnchanged, E!Free, E!Raise, E!Success, ToStart,
         ToRestart, Addressing, Sending, Receiving, Failing, Ended, Taken, E!None
<1> QED
  BY <1>1, <1>2, <1>3, <1>4, <1>5, <1>6, <1>7, <1>8, <1>9, <1>10, <1>11 DEF EepromInv

\* The address byte is out: the chip answers, or another, or none.
LEMMA SendAddressKeeps ==
  ASSUME Assumed, EepromInv, E!SendAddress
  PROVE  EepromInv'
<1>s. UNCHANGED <<caller, eepromType, op, written, outBuff, ctrlBuff, readLength>>
  BY DEF E!SendAddress, E!callVars, E!callerVars, E!limitVars, E!BusUnchanged
<1>0. /\ PageStart' = PageStart /\ AddressLen' = AddressLen /\ Chunked' = Chunked
      /\ E!SizeAt(written)' = E!SizeAt(written)
      /\ \A m : FirstBytes(m)' = FirstBytes(m)
      /\ \A o : E!Address(o)' = E!Address(o) /\ E!ReadControl(o)' = E!ReadControl(o)
  BY <1>s, Steady
<1>m. \A n : HeldTo(n)' = HeldTo(n)
  BY SameHeld DEF E!SendAddress, E!callVars, E!callerVars, E!limitVars, E!BusUnchanged
<1>a. /\ state = "busy" /\ Addressing /\ status = E!None /\ sta = FALSE /\ sto = FALSE
      /\ bus = "addr" /\ caller \notin {"idle", "type"}
  BY DEF EepromInv, Shape, StagePart, E!SendAddress, E!Shifts, E!Free, ToStart, ToRestart,
         Addressing, Sending, Receiving, Failing, Ended, E!None
<1>b. /\ UNCHANGED <<state, E!callVars, writeIndex, readIndex, sta, sto, aa, dat, mem, page, busy,
                    E!callerVars, E!limitVars>>
  BY DEF E!SendAddress, E!callVars, E!callerVars, E!limitVars, E!BusUnchanged
<1>c. dat.k = "w" =>
        /\ status' = (IF E!Meant THEN "18" ELSE "20") /\ bus' = "send"
        /\ phase' = (IF ~E!Meant THEN "none" ELSE IF chip = "small" THEN "lo" ELSE "hi")
        /\ ptr' = (IF E!Meant /\ chip = "small" THEN (dat.v * LoSize) % Size ELSE ptr)
  BY DEF E!SendAddress, E!Raise
<1>d. dat.k # "w" =>
        /\ status' = (IF E!Meant THEN "40" ELSE "48") /\ bus' = "recv"
        /\ phase' = (IF E!Meant THEN "out" ELSE "none") /\ ptr' = ptr
  BY DEF E!SendAddress, E!Raise
<1>f. chip \in {"small", "big", "absent"} /\ (caller \in {"wrote", "read", "polled"} => chip = eepromType)
  BY DEF EepromInv, Assumed, E!BoundAssumption, Shape, TypePart, E!TypeRight, CallPart, Known
<1>w. caller \in {"probedSmall", "probedBig", "polled", "wrote"} => dat.k = "w"
  <2>1. CASE caller = "wrote"
    <3>1. dat = outBuff[1] /\ Known
      BY <1>a, <2>1 DEF EepromInv, SendPart, WrotePart, CallPart
    <3>2. outBuff[1] \in {E!Byte("w", PageStart \div LoSize), E!EepromAddr}
      BY <2>1, AddressIs DEF EepromInv, Assumed
    <3> QED
      BY <3>1, <3>2 DEF E!EepromAddr, E!Byte
  <2>2. CASE caller \in {"probedSmall", "probedBig", "polled"}
    BY <1>a, <2>2, AskBytes DEF EepromInv, AskPart
  <2> QED
    BY <2>1, <2>2
<1>r. caller = "read" =>
        /\ dat.k = "w" <=> writeIndex = 1
        /\ dat.k # "w" => /\ writeIndex = AddressLen + 1 /\ ptr = op.off /\ readIndex = 0
                          /\ readLength > 0 /\ dat.v = 0
  <2> SUFFICES ASSUME caller = "read"
               PROVE  /\ dat.k = "w" <=> writeIndex = 1
                      /\ dat.k # "w" =>
                           /\ writeIndex = AddressLen + 1 /\ ptr = op.off /\ readIndex = 0
                           /\ readLength > 0 /\ dat.v = 0
    OBVIOUS
  <2>1. writeIndex = 1 \/ (writeIndex = AddressLen + 1 /\ ptr = op.off /\ readIndex = 0)
    BY <1>a DEF EepromInv, ReadPart
  <2>2. dat = outBuff[writeIndex] /\ readLength > 0 /\ AddressLen \in {2, 3}
        /\ outBuff[AddressLen + 1] = E!ReadAddress
    BY <1>a, ReadBytes DEF EepromInv, Assumed, SendPart
  <2>3. outBuff[1] \in {E!Byte("w", op.off \div LoSize), E!EepromAddr}
    BY AddressIs DEF EepromInv, Assumed
  <2>4. outBuff[1].k = "w"
    BY <2>3 DEF E!EepromAddr, E!Byte
  <2> QED
    BY <2>1, <2>2, <2>4 DEF E!ReadAddress, E!Byte
<1>u. caller \in {"wrote", "read"} /\ dat.k = "w" =>
        /\ writeIndex = 1 /\ dat = outBuff[1] /\ AddressLen \in {2, 3}
        /\ E!Meant => phase' = IF AddressLen = 2 THEN "lo" ELSE "hi"
        /\ E!Meant /\ AddressLen = 2 =>
             ptr' = ((IF caller = "read" THEN op.off ELSE PageStart) \div LoSize) * LoSize
  <2> SUFFICES ASSUME caller \in {"wrote", "read"}, dat.k = "w"
               PROVE  /\ writeIndex = 1 /\ dat = outBuff[1] /\ AddressLen \in {2, 3}
                      /\ E!Meant => phase' = IF AddressLen = 2 THEN "lo" ELSE "hi"
                      /\ E!Meant /\ AddressLen = 2 =>
                           ptr' = ((IF caller = "read" THEN op.off ELSE PageStart) \div LoSize) * LoSize
    OBVIOUS
  <2> PICK x : x = IF caller = "read" THEN op.off ELSE PageStart
    OBVIOUS
  <2>1. writeIndex = 1 /\ dat = outBuff[1]
    <3>1. writeIndex = 1
      BY <1>a, <1>r DEF EepromInv, WrotePart
    <3>2. dat = outBuff[writeIndex]
      BY <1>a DEF EepromInv, SendPart
    <3> QED
      BY <3>1, <3>2
  <2>2. AddressLen \in {2, 3} /\ (AddressLen = 2 <=> eepromType = "small") /\ chip = eepromType
    BY <1>f DEF AddressLen
  <2>3. x \in Nat /\ x < Size /\ (eepromType = "small" => dat = E!Byte("w", x \div LoSize))
    BY <2>1, AddressIs DEF EepromInv, Assumed
  <2>4. ((x \div LoSize) * LoSize) % Size = (x \div LoSize) * LoSize
    BY <2>3, OffsetParts DEF Assumed
  <2>5. eepromType = "small" => dat.v = x \div LoSize
    BY <2>3 DEF E!Byte
  <2> QED
    BY <2>1, <2>2, <2>4, <2>5, <1>c
<1>1. Shape'
  BY OpFacts, Answers
     DEF Assumed, EepromInv, Shape, E!SendAddress, E!Meant, E!callVars, E!callerVars,
         E!limitVars, E!BusUnchanged, E!Free, E!Raise, E!Shifts, E!None
<1>2. StagePart'
  BY <1>a, <1>b, <1>c, <1>d, <1>w
     DEF EepromInv, Shape, Places, StagePart, ToStart, ToRestart, Addressing, Sending,
         Receiving, Failing, Ended, E!None, E!callVars, E!callerVars, E!limitVars
<1>3. CallPart'
  BY <1>s, SameCall DEF EepromInv
<1>4. IndexPart'
  BY <1>0, <1>m, OpFacts
     DEF Assumed, EepromInv, IndexPart, E!SendAddress, E!Meant, E!callVars, E!callerVars,
         E!limitVars, E!BusUnchanged, E!Free, E!Raise, E!Shifts, E!None
<1>5. TypePart'
  <2>1. E!TypeRight' /\ (eepromType' = "unset" => ~busy' /\ page' = E!NoBytes)
        /\ (caller' \in {"probedSmall", "probedBig"} => eepromType' = "unset")
    BY <1>b DEF EepromInv, TypePart, E!TypeRight, E!callVars, E!callerVars, E!limitVars
  <2>2. ~Ended'
    BY <1>a, <1>b, <1>c, <1>d, <1>w
       DEF Addressing, Ended, E!None, E!callVars, E!callerVars, E!limitVars
  <2>3. ASSUME caller \in {"probedSmall", "probedBig"}
        PROVE  /\ dat.v = (IF caller = "probedSmall" THEN 1 ELSE 0) /\ ~busy
               /\ status' = IF E!Meant THEN "18" ELSE "20"
    BY <2>3, <1>a, <1>c, <1>w, AskBytes DEF EepromInv, AskPart, TypePart
  <2>4. caller = "probedSmall" => (status' = "18" /\ chip = "small") \/ (status' = "20" /\ chip # "small")
    BY <2>3 DEF E!Meant
  <2>5. caller = "probedBig" => chip # "small" /\ ((status' = "18" /\ chip = "big") \/ status' = "20")
    BY <2>3 DEF EepromInv, TypePart, E!Meant
  <2> QED
    BY <2>1, <2>2, <2>4, <2>5, <1>b
       DEF TypePart, ToStart, ToRestart, Addressing, Sending, Receiving, Failing, Ended,
           E!None, E!vars, E!i2cVars, E!callVars, E!callerVars, E!chipVars, E!limitVars,
           E!OutsideUnchanged, E!BusUnchanged
<1>6. AskPart'
  BY <1>0, <1>m, OpFacts
     DEF Assumed, EepromInv, AskPart, E!SendAddress, E!Meant, E!callVars, E!callerVars,
         E!limitVars, E!BusUnchanged, E!Free, E!Raise, E!Shifts, Addressing, Sending, E!None
<1>7. SendPart'
  <2> SUFFICES ASSUME caller \in {"wrote", "read"} PROVE SendPart'
    BY <1>b DEF SendPart, E!callVars, E!callerVars, E!limitVars
  <2>1. ~Addressing'
    BY <1>a, <1>b, <1>c, <1>d, <1>w
       DEF Addressing, E!None, E!callVars, E!callerVars, E!limitVars
  <2>2. Sending' => dat.k = "w" /\ E!Meant /\ status' = "18"
    BY <1>a, <1>b, <1>c, <1>d
       DEF Addressing, Sending, E!None, E!callVars, E!callerVars, E!limitVars
  <2>3. Sending' => Taken' = 1
    BY <2>2, <1>u, <1>b DEF Taken, Sending, E!None
  <2>4. Sending' => Located(1, IF caller = "read" THEN op.off ELSE PageStart)'
    BY <2>2, <1>u, <1>b, <1>0 DEF Located, E!callVars, E!callerVars, E!limitVars
  <2> QED
    BY <2>1, <2>2, <2>3, <2>4, <1>0, <1>u, <1>b
       DEF SendPart, E!vars, E!i2cVars, E!callVars, E!callerVars, E!chipVars, E!limitVars,
           E!OutsideUnchanged, E!BusUnchanged
<1>8. WrotePart'
  <2> SUFFICES ASSUME caller = "wrote" PROVE WrotePart'
    BY <1>b DEF WrotePart, E!callVars, E!callerVars, E!limitVars
  <2>1. ~Addressing' /\ ~ToStart' /\ ~Ended'
    BY <1>a, <1>b, <1>c, <1>d, <1>w DEF ToStart, Addressing, Ended, E!None
  <2>2. Sending' => Taken' = 1
    BY <1>u, <1>a, <1>b, <1>c, <1>w DEF Taken, E!None, E!callVars, E!callerVars, E!limitVars
  <2>3. page = FirstBytes(0) /\ 0 \in Nat /\ AddressLen \in {2, 3}
    BY <1>a, FirstNone, WroteBytes DEF EepromInv, Assumed, WrotePart
  <2> QED
    BY <2>1, <2>2, <2>3, <1>0, <1>m, <1>b
       DEF EepromInv, WrotePart, E!callVars, E!callerVars, E!limitVars
<1>9. PolledPart'
  BY <1>0, <1>m, OpFacts
     DEF Assumed, EepromInv, PolledPart, E!SendAddress, E!Meant, E!callVars, E!callerVars,
         E!limitVars, E!BusUnchanged, E!Free, E!Raise, E!Shifts, E!Success, ToStart, Sending,
         Ended, E!None
<1>10. IdlePart'
  BY <1>0, <1>m, OpFacts
     DEF Assumed, EepromInv, IdlePart, E!SendAddress, E!Meant, E!callVars, E!callerVars,
         E!limitVars, E!BusUnchanged, E!Free, E!Raise, E!Shifts, E!ReadyAfterWrite, E!None
<1>11. ReadPart'
  <2> SUFFICES ASSUME caller = "read" PROVE ReadPart'
    BY <1>b DEF ReadPart, E!callVars, E!callerVars, E!limitVars
  <2>1. ~Addressing' /\ ~ToStart' /\ ~ToRestart' /\ ~Ended'
    BY <1>a, <1>b, <1>c, <1>d DEF ToStart, ToRestart, Addressing, Ended, E!None
  <2>2. CASE dat.k = "w"
    <3>1. writeIndex' = 1 /\ (Sending' => Taken' = 1) /\ ~Receiving' /\ AddressLen \in {2, 3}
      BY <2>2, <1>u, <1>a, <1>b, <1>c DEF Taken, Addressing, Sending, Receiving, E!None
    <3> QED
      BY <2>1, <3>1, <1>0, <1>b DEF EepromInv, ReadPart, E!callVars, E!callerVars, E!limitVars
  <2>3. CASE dat.k # "w"
    <3>0. readIndex' = 0 /\ ptr' = op.off /\ readLength > 0
      BY <2>3, <1>r, <1>b, <1>d
    <3>1. ~Sending' /\ (Receiving' => status' = "40")
      BY <2>3, <1>d DEF Sending, Receiving, E!None
    <3>2. op.off \in Nat /\ op.off % Size = op.off /\ readLength \in Nat
      <4>1. op.off \in Nat /\ op.off < Size /\ readLength \in Nat
        BY ReadBytes DEF EepromInv, Assumed, E!SizeAssumption
      <4> QED
        BY <4>1, OffsetParts DEF Assumed
    <3>3. Receiving' => ptr' = (op.off + readIndex' + (IF status' \in {"50", "58"} THEN 1 ELSE 0)) % Size
      BY <3>0, <3>1, <3>2
    <3> QED
      BY <2>1, <3>0, <3>1, <3>2, <3>3, <1>0, <1>b
         DEF EepromInv, ReadPart, E!None, E!callVars, E!callerVars, E!limitVars
  <2> QED
    BY <2>2, <2>3
<1> QED
  BY <1>1, <1>2, <1>3, <1>4, <1>5, <1>6, <1>7, <1>8, <1>9, <1>10, <1>11 DEF EepromInv

\* A byte is out: the chip takes it for its address or into its page.
LEMMA SendByteKeeps ==
  ASSUME Assumed, EepromInv, E!SendByte
  PROVE  EepromInv'
<1>s. UNCHANGED <<caller, eepromType, op, written, outBuff, ctrlBuff, readLength>>
  BY DEF E!SendByte, E!callVars, E!callerVars, E!limitVars, E!BusUnchanged
<1>0. /\ PageStart' = PageStart /\ AddressLen' = AddressLen /\ Chunked' = Chunked
      /\ E!SizeAt(written)' = E!SizeAt(written)
      /\ \A m : FirstBytes(m)' = FirstBytes(m)
      /\ \A o : E!Address(o)' = E!Address(o) /\ E!ReadControl(o)' = E!ReadControl(o)
  BY <1>s, Steady
<1>m. \A n : HeldTo(n)' = HeldTo(n)
  BY SameHeld DEF E!SendByte, E!callVars, E!callerVars, E!limitVars, E!BusUnchanged
<1>a. /\ state = "busy" /\ Sending /\ status = E!None /\ sta = FALSE /\ sto = FALSE
      /\ bus = "send" /\ caller \in {"wrote", "read"}
  BY DEF EepromInv, Shape, Places, StagePart, AskPart, E!SendByte, E!Shifts, E!Free, ToStart,
         ToRestart, Addressing, Sending, Receiving, Failing, Ended, E!None
<1>b. status' = "28" /\ UNCHANGED <<state, E!callVars, writeIndex, readIndex, sta, sto, aa, dat, bus,
                                   mem, busy, E!callerVars, E!limitVars>>
  BY DEF E!SendByte, E!Raise, E!callVars, E!callerVars, E!limitVars, E!BusUnchanged
<1>c. /\ writeIndex \in Nat /\ writeIndex > 1 /\ writeIndex <= Len(outBuff) /\ Len(outBuff) \in Nat
      /\ dat = outBuff[writeIndex] /\ AddressLen \in {2, 3}
      /\ Taken = writeIndex - 1 /\ Taken' = writeIndex
  BY <1>a, <1>b, ReadBytes, WroteBytes
     DEF EepromInv, Assumed, Shape, IndexPart, SendPart, Taken, E!None
<1>d. PICK o : o = IF caller = "read" THEN op.off ELSE PageStart
  OBVIOUS
<1>e. /\ phase = IF writeIndex < AddressLen THEN "hi" ELSE IF writeIndex = AddressLen THEN "lo" ELSE "data"
      /\ writeIndex = AddressLen => ptr = (o \div LoSize) * LoSize
  BY <1>a, <1>c, <1>d DEF EepromInv, SendPart, Located
<1>f. /\ o \in Nat /\ o < Size /\ Known /\ outBuff[AddressLen] = E!Byte("d", o % LoSize)
      /\ eepromType = "big" => outBuff[2] = E!Byte("d", o \div LoSize)
  BY <1>a, <1>d, AddressIs DEF EepromInv, Assumed
<1>g. writeIndex < AddressLen =>
        writeIndex = 2 /\ AddressLen = 3 /\ phase' = "lo" /\ page' = page /\ ptr' = (o \div LoSize) * LoSize
  <2> SUFFICES ASSUME writeIndex < AddressLen
               PROVE  writeIndex = 2 /\ AddressLen = 3 /\ phase' = "lo" /\ page' = page
                      /\ ptr' = (o \div LoSize) * LoSize
    OBVIOUS
  <2>1. writeIndex = 2 /\ AddressLen = 3
    BY <1>c
  <2>2. eepromType = "big"
    BY <2>1, <1>f DEF AddressLen, Known
  <2>3. dat.v = o \div LoSize
    BY <2>1, <2>2, <1>c, <1>f DEF E!Byte
  <2>4. phase = "hi"
    BY <1>e
  <2>5. ((o \div LoSize) * LoSize) % Size = (o \div LoSize) * LoSize
    BY <1>f, OffsetParts DEF Assumed
  <2> QED
    BY <2>1, <2>3, <2>4, <2>5 DEF E!SendByte
<1>h. writeIndex = AddressLen => phase' = "data" /\ page' = page /\ ptr' = o
  <2> SUFFICES ASSUME writeIndex = AddressLen
               PROVE  phase' = "data" /\ page' = page /\ ptr' = o
    OBVIOUS
  <2>1. phase = "lo" /\ ptr = (o \div LoSize) * LoSize
    BY <1>c, <1>e
  <2>2. dat.v = o % LoSize
    BY <1>c, <1>f DEF E!Byte
  <2>3. ((o \div LoSize) * LoSize + (o % LoSize)) % Size = o
    BY <1>f, OffsetParts DEF Assumed
  <2> QED
    BY <2>1, <2>2, <2>3 DEF E!SendByte
<1>i. writeIndex > AddressLen => caller = "wrote" /\ phase' = "data" /\ ptr' = E!NextInPage(ptr)
        /\ page' = [x \in DOMAIN page \cup {ptr} |-> IF x = ptr THEN dat.v ELSE page[x]]
  <2>1. caller = "read" => writeIndex <= AddressLen
    BY <1>a DEF EepromInv, ReadPart
  <2>2. writeIndex > AddressLen => phase = "data"
    BY <1>c, <1>e
  <2> QED
    BY <2>1, <2>2, <1>a, <1>c DEF E!SendByte
<1>1. Shape'
  BY OpFacts, Answers
     DEF Assumed, EepromInv, Shape, E!SendByte, E!PageOf, E!NextInPage, E!callVars,
         E!callerVars, E!limitVars, E!BusUnchanged, E!Free, E!Raise, E!Shifts, E!None
<1>2. StagePart'
  BY <1>0, <1>m, OpFacts
     DEF Assumed, EepromInv, StagePart, E!SendByte, E!PageOf, E!NextInPage, E!callVars,
         E!callerVars, E!limitVars, E!BusUnchanged, E!Free, E!Raise, E!Shifts, ToStart,
         ToRestart, Addressing, Sending, Receiving, Failing, Ended, E!None
<1>3. CallPart'
  BY <1>s, SameCall DEF EepromInv
<1>4. IndexPart'
  BY <1>0, <1>m, OpFacts
     DEF Assumed, EepromInv, IndexPart, E!SendByte, E!PageOf, E!NextInPage, E!callVars,
         E!callerVars, E!limitVars, E!BusUnchanged, E!Free, E!Raise, E!Shifts, E!None
<1>5. TypePart'
  BY <1>0, <1>m, OpFacts
     DEF Assumed, EepromInv, Shape, StagePart, CallPart, TypePart, AskPart, E!SendByte,
         E!PageOf, E!NextInPage, E!callVars, E!callerVars, E!limitVars, E!BusUnchanged,
         E!Free, E!Raise, E!Shifts, E!Success, ToStart, ToRestart, Addressing, Sending,
         Receiving, Failing, Ended, Known, E!TypeRight, E!None, Places
<1>6. AskPart'
  BY <1>0, <1>m, OpFacts
     DEF Assumed, EepromInv, AskPart, E!SendByte, E!PageOf, E!NextInPage, E!callVars,
         E!callerVars, E!limitVars, E!BusUnchanged, E!Free, E!Raise, E!Shifts, Addressing,
         Sending, E!None
<1>7. SendPart'
  <2>1. ~Addressing' /\ Sending'
    BY <1>a, <1>b DEF Addressing, Sending, E!None
  <2>2. Located(writeIndex, o)'
    BY <1>b, <1>c, <1>g, <1>h, <1>i, <1>0 DEF Located, E!callVars, E!callerVars, E!limitVars
  <2>3. o = IF caller' = "read" THEN op'.off ELSE PageStart'
    BY <1>b, <1>d, <1>0 DEF E!callVars, E!callerVars, E!limitVars
  <2> QED
    BY <2>1, <2>2, <2>3, <1>b, <1>c
       DEF SendPart, E!vars, E!i2cVars, E!callVars, E!callerVars, E!chipVars, E!limitVars,
           E!OutsideUnchanged, E!BusUnchanged
<1>8. WrotePart'
  <2> SUFFICES ASSUME caller = "wrote" PROVE WrotePart'
    BY <1>b DEF WrotePart, E!callVars, E!callerVars, E!limitVars
  <2>1. ~Addressing' /\ ~ToStart' /\ ~Ended' /\ Sending'
    BY <1>a, <1>b DEF ToStart, Addressing, Sending, Ended, E!None
  <2>2. o = PageStart /\ HeldTo(written)
    BY <1>d DEF EepromInv, WrotePart
  <2>3. PICK s \in Nat \ {0} : s = E!SizeAt(written)
    BY WroteBytes DEF EepromInv, Assumed
  <2>4. Len(outBuff) = AddressLen + s
        /\ \A i \in 1 .. s : outBuff[AddressLen + i] = E!Byte("d", op.data[written + i])
    BY <2>3, WroteBytes DEF EepromInv, Assumed
  <2>5. PICK m \in 0 .. s : m = IF writeIndex <= AddressLen THEN 0 ELSE writeIndex - AddressLen
    <3>1. writeIndex <= AddressLen + s
      BY <1>c, <2>4
    <3> QED
      BY <3>1, <1>c, <2>3
  <2>6. page' = FirstBytes(m) /\ (AddressLen <= writeIndex /\ writeIndex < Len(outBuff) => ptr' = PageStart + m)
    <3>1. CASE writeIndex <= AddressLen
      <4>1. page = FirstBytes(0) /\ m = 0 /\ page' = page
        BY <3>1, <2>5, <1>a, <1>c, <1>g, <1>h DEF EepromInv, WrotePart
      <4> QED
        BY <3>1, <4>1, <2>2, <1>c, <1>f, <1>h
    <3>2. CASE writeIndex > AddressLen
      <4>1. PICK k \in Nat : m = k + 1 /\ writeIndex = AddressLen + m
        BY <3>2, <2>5, <1>c
      <4>2. page = FirstBytes(k) /\ ptr = PageStart + k
        <5>1. Taken = AddressLen + k /\ Taken < Len(outBuff)
          BY <4>1, <1>c
        <5>2. page = FirstBytes(IF Taken <= AddressLen THEN 0 ELSE Taken - AddressLen) /\ ptr = PageStart + Taken - AddressLen
          BY <5>1, <1>a, <1>c, <4>1 DEF EepromInv, WrotePart
        <5>3. (IF Taken <= AddressLen THEN 0 ELSE Taken - AddressLen) = k
          BY <5>1, <1>c, <4>1
        <5> QED
          BY <5>1, <5>2, <5>3, <1>c, <1>f, <2>2, <4>1
      <4>3. dat.v = op.data[written + m]
        <5>1. m \in 1 .. s
          BY <4>1, <2>5
        <5>2. dat = E!Byte("d", op.data[written + m])
          BY <5>1, <4>1, <2>4, <1>c
        <5> QED
          BY <5>2 DEF E!Byte
      <4>a. /\ PageStart \in Nat /\ op.off \in Nat /\ written \in Nat /\ PageStart = op.off + written
            /\ s <= E!PageSize - (PageStart % E!PageSize) /\ E!PageSize \in Nat \ {0} /\ E!PageOf = E!PageSize
        BY <2>3, OpFacts, NextFacts, <1>a
           DEF EepromInv, Assumed, Shape, CallPart, Known, TypePart, E!TypeRight, PageStart,
               E!PageOf, E!PageSize, E!SizeAssumption
      <4>4. page' = FirstBytes(m)
        <5>1. FirstBytes(m) = [x \in DOMAIN FirstBytes(k) \cup {PageStart + k} |->
                           IF x = PageStart + k THEN op.data[written + m] ELSE FirstBytes(k)[x]]
          <6>1. FirstBytes(k + 1) = [x \in DOMAIN FirstBytes(k) \cup {PageStart + k} |->
                  IF x = PageStart + k THEN op.data[written + (k + 1)] ELSE FirstBytes(k)[x]]
            BY <4>a, FirstMore
          <6> QED
            BY <6>1, <4>1
        <5> QED
          BY <5>1, <4>2, <4>3, <1>i, <3>2
      <4>5. m < s => ptr' = PageStart + m
        <5> SUFFICES ASSUME m < s PROVE ptr' = PageStart + m
          OBVIOUS
        <5>1. PICK p \in Nat \ {0} : p = E!PageSize
          BY <4>a
        <5>2. PICK n \in Nat : n = PageStart
          BY <4>a
        <5>3. PICK r \in 0 .. p - 1 : r = n % p
          BY RoomFacts
        <5>4. k + 1 < p - (n % p)
          BY <5>1, <5>2, <5>3, <4>1, <4>a
        <5>5. ((n + k) \div p) * p + ((n + k + 1) % p) = n + k + 1
          BY <5>4, NextIs
        <5>6. E!NextInPage(ptr) = ((n + k) \div p) * p + ((n + k + 1) % p)
          BY <5>1, <5>2, <4>2, <4>a DEF E!NextInPage
        <5> QED
          BY <5>2, <5>5, <5>6, <4>1, <1>i, <3>2
      <4> QED
        BY <4>1, <4>4, <4>5, <2>4, <2>5, <1>c
    <3> QED
      BY <3>1, <3>2, <1>c
  <2> QED
    BY <2>1, <2>2, <2>3, <2>5, <2>6, <1>0, <1>m, <1>b, <1>c
       DEF WrotePart, E!vars, E!i2cVars, E!callVars, E!callerVars, E!chipVars, E!limitVars,
           E!OutsideUnchanged, E!BusUnchanged
<1>9. PolledPart'
  BY <1>0, <1>m, OpFacts
     DEF Assumed, EepromInv, Shape, StagePart, CallPart, AskPart, PolledPart, E!SendByte,
         E!PageOf, E!NextInPage, E!callVars, E!callerVars, E!limitVars, E!BusUnchanged,
         E!Free, E!Raise, E!Shifts, E!Success, ToStart, ToRestart, Addressing, Sending,
         Receiving, Failing, Ended, E!None
<1>10. IdlePart'
  BY <1>a, <1>b, <1>i, <1>g, <1>h, <1>c
     DEF EepromInv, IdlePart, E!ReadyAfterWrite, E!callVars, E!callerVars, E!limitVars
<1>11. ReadPart'
  <2> SUFFICES ASSUME caller = "read" PROVE ReadPart'
    BY <1>b DEF ReadPart, E!callVars, E!callerVars, E!limitVars
  <2>1. ~Addressing' /\ ~ToRestart' /\ ~Receiving' /\ ~Ended'
    BY <1>a, <1>b DEF ToRestart, Addressing, Sending, Receiving, Ended, E!None
  <2>2. writeIndex <= AddressLen /\ o = op.off
    BY <1>a, <1>d DEF EepromInv, ReadPart
  <2> QED
    BY <2>1, <2>2, <1>0, <1>b, <1>c, <1>h
       DEF EepromInv, ReadPart, E!callVars, E!callerVars, E!limitVars
<1> QED
  BY <1>1, <1>2, <1>3, <1>4, <1>5, <1>6, <1>7, <1>8, <1>9, <1>10, <1>11 DEF EepromInv

\* The chip sends a byte.
LEMMA ReceiveByteKeeps ==
  ASSUME Assumed, EepromInv, E!ReceiveByte
  PROVE  EepromInv'
<1>s. UNCHANGED <<caller, eepromType, op, written, outBuff, ctrlBuff, readLength>>
  BY DEF E!ReceiveByte, E!callVars, E!callerVars, E!limitVars, E!BusUnchanged
<1>0. /\ PageStart' = PageStart /\ AddressLen' = AddressLen /\ Chunked' = Chunked
      /\ E!SizeAt(written)' = E!SizeAt(written)
      /\ \A m : FirstBytes(m)' = FirstBytes(m)
      /\ \A o : E!Address(o)' = E!Address(o) /\ E!ReadControl(o)' = E!ReadControl(o)
  BY <1>s, Steady
<1>m. \A n : HeldTo(n)' = HeldTo(n)
  BY SameHeld DEF E!ReceiveByte, E!callVars, E!callerVars, E!limitVars, E!BusUnchanged
<1>a. /\ state = "busy" /\ Receiving /\ status = E!None /\ sta = FALSE /\ sto = FALSE
      /\ bus = "recv" /\ caller = "read"
  BY DEF EepromInv, Shape, StagePart, E!ReceiveByte, E!Shifts, E!Free, ToStart, ToRestart,
         Addressing, Sending, Receiving, Failing, Ended, E!None
<1>b. /\ UNCHANGED <<state, E!callVars, writeIndex, readIndex, sta, sto, aa, bus, mem, page, phase,
                    busy, E!callerVars, E!limitVars>>
      /\ dat' = E!Byte("d", mem[ptr]) /\ ptr' = (ptr + 1) % Size
      /\ status' = IF aa THEN "50" ELSE "58"
  BY DEF E!ReceiveByte, E!Raise, E!callVars, E!callerVars, E!limitVars, E!BusUnchanged
<1>c. /\ readIndex \in Nat /\ readLength \in Nat /\ readIndex < readLength
      /\ op.off \in Nat /\ op.off + readLength <= Size
  BY <1>a, ReadBytes DEF EepromInv, Assumed, Shape, ReadPart
<1>d. ptr = op.off + readIndex /\ aa = (readIndex + 1 < readLength)
  <2>1. ptr = (op.off + readIndex + 0) % Size /\ aa = (readIndex + 1 < readLength)
    BY <1>a DEF EepromInv, ReadPart, E!WantsMore, E!None
  <2>2. PICK x \in Nat : x = op.off + readIndex
    BY <1>c
  <2>3. x < Size /\ x + 0 = x
    BY <1>c, <2>2 DEF Assumed, E!SizeAssumption
  <2>4. x % Size = x
    BY <2>3, OffsetParts DEF Assumed
  <2> QED
    BY <1>c, <2>1, <2>2, <2>3, <2>4
<1>1. Shape'
  BY OpFacts, Answers
     DEF Assumed, EepromInv, Shape, E!ReceiveByte, E!callVars, E!callerVars, E!limitVars,
         E!BusUnchanged, E!Free, E!Raise, E!Shifts, E!None
<1>2. StagePart'
  BY <1>0, <1>m, OpFacts
     DEF Assumed, EepromInv, StagePart, E!ReceiveByte, E!callVars, E!callerVars, E!limitVars,
         E!BusUnchanged, E!Free, E!Raise, E!Shifts, ToStart, ToRestart, Addressing, Sending,
         Receiving, Failing, Ended, E!None
<1>3. CallPart'
  BY <1>s, SameCall DEF EepromInv
<1>4. IndexPart'
  BY <1>0, <1>m, OpFacts
     DEF Assumed, EepromInv, IndexPart, E!ReceiveByte, E!callVars, E!callerVars, E!limitVars,
         E!BusUnchanged, E!Free, E!Raise, E!Shifts, E!None
<1>5. TypePart'
  BY <1>0, <1>m, OpFacts
     DEF Assumed, EepromInv, TypePart, E!ReceiveByte, E!callVars, E!callerVars, E!limitVars,
         E!BusUnchanged, E!Free, E!Raise, E!Shifts, E!Success, Sending, Failing, Ended,
         E!TypeRight, E!None
<1>6. AskPart'
  BY <1>0, <1>m, OpFacts
     DEF Assumed, EepromInv, AskPart, E!ReceiveByte, E!callVars, E!callerVars, E!limitVars,
         E!BusUnchanged, E!Free, E!Raise, E!Shifts, Addressing, Sending, E!None
<1>7. SendPart'
  BY <1>0, <1>m, OpFacts
     DEF Assumed, EepromInv, SendPart, E!ReceiveByte, E!callVars, E!callerVars, E!limitVars,
         E!BusUnchanged, E!Free, E!Raise, E!Shifts, Addressing, Sending, Taken, E!None
<1>8. WrotePart'
  BY <1>0, <1>m, OpFacts
     DEF Assumed, EepromInv, WrotePart, E!ReceiveByte, E!callVars, E!callerVars, E!limitVars,
         E!BusUnchanged, E!Free, E!Raise, E!Shifts, E!Success, ToStart, Addressing, Sending,
         Ended, Taken, E!None
<1>9. PolledPart'
  BY <1>0, <1>m, OpFacts
     DEF Assumed, EepromInv, PolledPart, E!ReceiveByte, E!callVars, E!callerVars,
         E!limitVars, E!BusUnchanged, E!Free, E!Raise, E!Shifts, E!Success, ToStart, Sending,
         Ended, E!None
<1>10. IdlePart'
  BY <1>0, <1>m, OpFacts
     DEF Assumed, EepromInv, IdlePart, E!ReceiveByte, E!callVars, E!callerVars, E!limitVars,
         E!BusUnchanged, E!Free, E!Raise, E!Shifts, E!ReadyAfterWrite, E!None
<1>11. ReadPart'
  <2>1. ~Addressing' /\ ~ToRestart' /\ ~Sending' /\ ~Ended'
    BY <1>a, <1>b DEF ToRestart, Addressing, Sending, Receiving, Ended, E!None
  <2>2. IF readIndex + 1 < readLength THEN status' = "50" ELSE status' = "58"
    BY <1>b, <1>d
  <2>3. readIndex + 1 < readLength \/ readIndex + 1 = readLength
    BY <1>c
  <2>4. ptr' = (op.off + readIndex + 1) % Size /\ dat' = E!Byte("d", mem[op.off + readIndex])
    BY <1>b, <1>c, <1>d
  <2> QED
    BY <2>1, <2>2, <2>3, <2>4, <1>a, <1>b, <1>0, <1>c
       DEF EepromInv, ReadPart, E!None, E!callVars, E!callerVars, E!limitVars
<1> QED
  BY <1>1, <1>2, <1>3, <1>4, <1>5, <1>6, <1>7, <1>8, <1>9, <1>10, <1>11 DEF EepromInv

\* The chip has written its page.
LEMMA WriteCycleEndsKeeps ==
  ASSUME Assumed, EepromInv, E!WriteCycleEnds
  PROVE  EepromInv'
<1>s. UNCHANGED <<caller, eepromType, op, written, outBuff, ctrlBuff, readLength>>
  BY DEF E!WriteCycleEnds, E!i2cVars, E!callVars, E!callerVars, E!limitVars
<1>0. /\ PageStart' = PageStart /\ AddressLen' = AddressLen /\ Chunked' = Chunked
      /\ E!SizeAt(written)' = E!SizeAt(written)
      /\ \A m : FirstBytes(m)' = FirstBytes(m)
      /\ \A o : E!Address(o)' = E!Address(o) /\ E!ReadControl(o)' = E!ReadControl(o)
  BY <1>s, Steady
<1>m. \A n : HeldTo(n)' = HeldTo(n)
  BY SameHeld DEF E!WriteCycleEnds, E!i2cVars, E!callVars, E!callerVars, E!limitVars
<1>1. Shape'
  BY OpFacts, Answers
     DEF Assumed, E!BoundAssumption, EepromInv, Shape, StagePart, E!WriteCycleEnds,
         E!i2cVars, E!callVars, E!callerVars, E!limitVars, ToStart, ToRestart, Addressing,
         Sending, Receiving, Failing, Ended, E!None
<1>2. StagePart'
  BY <1>0, <1>m, OpFacts
     DEF Assumed, EepromInv, StagePart, E!WriteCycleEnds, E!i2cVars, E!callVars,
         E!callerVars, E!limitVars, ToStart, ToRestart, Addressing, Sending, Receiving,
         Failing, Ended, E!None
<1>3. CallPart'
  BY <1>s, SameCall DEF EepromInv
<1>4. IndexPart'
  BY <1>0, <1>m, OpFacts
     DEF Assumed, EepromInv, IndexPart, E!WriteCycleEnds, E!i2cVars, E!callVars,
         E!callerVars, E!limitVars, E!None
<1>5. TypePart'
  BY <1>0, <1>m, OpFacts
     DEF Assumed, EepromInv, TypePart, E!WriteCycleEnds, E!i2cVars, E!callVars, E!callerVars,
         E!limitVars, E!Success, E!TypeRight, E!None
<1>6. AskPart'
  BY <1>0, <1>m, OpFacts
     DEF Assumed, EepromInv, AskPart, E!WriteCycleEnds, E!i2cVars, E!callVars, E!callerVars,
         E!limitVars, Addressing, Sending, E!None
<1>7. SendPart'
  BY <1>0, <1>m, OpFacts
     DEF Assumed, EepromInv, SendPart, E!WriteCycleEnds, E!i2cVars, E!callVars, E!callerVars,
         E!limitVars, Addressing, Sending, Taken, Located, E!None
<1>8. WrotePart'
  BY <1>0, <1>m, OpFacts
     DEF Assumed, EepromInv, WrotePart, E!WriteCycleEnds, E!i2cVars, E!callVars,
         E!callerVars, E!limitVars, E!Success, ToStart, Addressing, Sending, Ended, Taken,
         E!None
<1>9. PolledPart'
  BY <1>0, <1>m, OpFacts
     DEF Assumed, EepromInv, PolledPart, E!WriteCycleEnds, E!i2cVars, E!callVars,
         E!callerVars, E!limitVars, E!Success, ToStart, Sending, Ended, E!None
<1>10. IdlePart'
  BY <1>0, <1>m, OpFacts
     DEF Assumed, EepromInv, IdlePart, E!WriteCycleEnds, E!i2cVars, E!callVars, E!callerVars,
         E!limitVars, E!ReadyAfterWrite, E!None
<1>11. ReadPart'
  <2>2. /\ UNCHANGED <<caller, readIndex, readLength, writeIndex, AddressLen, ptr, op, status, aa, dat, mem,
                       inBuff>>
        /\ UNCHANGED <<Addressing, Sending, ToRestart, Receiving, Ended, E!Success, Taken>>
    BY <1>0
       DEF E!WriteCycleEnds, Taken, E!Success, ToRestart, Addressing, Sending, Receiving,
           Ended, E!None, E!i2cVars, E!callVars, E!callerVars, E!limitVars
  <2>1. E!WantsMore(readIndex)' = E!WantsMore(readIndex)
    BY DEF E!WantsMore, E!WriteCycleEnds, E!i2cVars, E!callVars, E!callerVars, E!limitVars
  <2> QED
    BY <2>1, <2>2 DEF EepromInv, ReadPart
<1> QED
  BY <1>1, <1>2, <1>3, <1>4, <1>5, <1>6, <1>7, <1>8, <1>9, <1>10, <1>11 DEF EepromInv

\* The exchange is disturbed.
LEMMA FaultKeeps ==
  ASSUME Assumed, EepromInv, E!Fault
  PROVE  EepromInv'
<1>s. UNCHANGED <<caller, eepromType, op, written, outBuff, ctrlBuff, readLength>>
  BY DEF E!Fault, E!callVars, E!callerVars, E!BusUnchanged
<1>0. /\ PageStart' = PageStart /\ AddressLen' = AddressLen /\ Chunked' = Chunked
      /\ E!SizeAt(written)' = E!SizeAt(written)
      /\ \A m : FirstBytes(m)' = FirstBytes(m)
      /\ \A o : E!Address(o)' = E!Address(o) /\ E!ReadControl(o)' = E!ReadControl(o)
  BY <1>s, Steady
<1>a. /\ state = "busy" /\ status = E!None /\ sta = FALSE /\ sto = FALSE /\ bus # "idle"
      /\ caller \in {"wrote", "polled", "read"}
  BY DEF EepromInv, Assumed, Shape, Places, StagePart, TypePart, E!Fault, E!Free, ToStart,
         ToRestart, Addressing, Sending, Receiving, Failing, Ended, E!None
<1>b. UNCHANGED <<state, E!callVars, writeIndex, readIndex, sta, sto, aa, dat, ptr, E!callerVars, chip>>
      /\ phase' = "none"
  BY DEF E!Fault, E!CutOff, E!Forget, E!callVars, E!callerVars, E!BusUnchanged
<1>c. \/ /\ status' = "38" /\ bus' = "idle" /\ page' = E!NoBytes
         /\ mem' = E!Written \/ mem' = mem
      \/ /\ status' \in {"00", "20", "30"} /\ bus' = bus /\ page' \in {page, E!NoBytes}
         /\ mem' = mem /\ busy' = busy
  BY DEF E!Fault, E!CutOff, E!Commit, E!Forget, E!Raise, E!callVars, E!callerVars,
         E!BusUnchanged
<1>d. busy' \in BOOLEAN
  BY DEF EepromInv, Shape, E!Fault, E!CutOff, E!Commit
<1>f. page = E!NoBytes => mem' = mem
  BY <1>c, CommitFacts
<1>g. Failing' /\ ~ToStart' /\ ~ToRestart' /\ ~Addressing' /\ ~Sending' /\ ~Receiving' /\ ~Ended'
  BY <1>a, <1>b, <1>c
     DEF ToStart, ToRestart, Addressing, Sending, Receiving, Failing, Ended, E!None
<1>1. Shape'
  <2>1. mem' \in [E!Offset -> Nat]
    BY <1>c, CommitFacts DEF EepromInv, Shape
  <2> QED
    BY <2>1, <1>a, <1>b, <1>c, <1>d DEF EepromInv, Shape, E!None, E!callVars, E!callerVars
<1>2. StagePart'
  BY <1>0, OpFacts
     DEF Assumed, EepromInv, StagePart, E!Fault, E!CutOff, E!Commit, E!Forget, E!Written,
         E!callVars, E!callerVars, E!BusUnchanged, E!Free, E!Raise, ToStart, ToRestart,
         Addressing, Sending, Receiving, Failing, Ended, E!None
<1>3. CallPart'
  BY <1>s, SameCall DEF EepromInv
<1>4. IndexPart'
  BY <1>0, OpFacts
     DEF Assumed, EepromInv, IndexPart, E!Fault, E!CutOff, E!Commit, E!Forget, E!Written,
         E!callVars, E!callerVars, E!BusUnchanged, E!Free, E!Raise, E!None
<1>5. TypePart'
  BY <1>0, OpFacts
     DEF Assumed, EepromInv, TypePart, E!Fault, E!CutOff, E!Commit, E!Forget, E!Written,
         E!callVars, E!callerVars, E!BusUnchanged, E!Free, E!Raise, E!Success, E!TypeRight,
         E!None
<1>6. AskPart'
  BY <1>0, OpFacts
     DEF Assumed, EepromInv, AskPart, E!Fault, E!CutOff, E!Commit, E!Forget, E!Written,
         E!callVars, E!callerVars, E!BusUnchanged, E!Free, E!Raise, Addressing, Sending,
         E!None
<1>7. SendPart'
  BY <1>0, OpFacts
     DEF Assumed, EepromInv, SendPart, E!Fault, E!CutOff, E!Commit, E!Forget, E!Written,
         E!callVars, E!callerVars, E!BusUnchanged, E!Free, E!Raise, Addressing, Sending,
         Taken, E!None
<1>8. WrotePart'
  <2> SUFFICES ASSUME caller = "wrote" PROVE WrotePart'
    BY <1>b DEF WrotePart, E!callVars, E!callerVars
  <2>1. \E m \in 0 .. E!SizeAt(written) : page = FirstBytes(m)
    BY DEF EepromInv, WrotePart
  <2>2. HeldTo(written)
    BY DEF EepromInv, WrotePart
  <2>3. HeldTo(written)'
    BY <2>1, <2>2, <1>b, <1>c, WrittenHeld, SameHeld
       DEF EepromInv, Assumed, CallPart, E!callVars, E!callerVars
  <2>4. \E m \in 0 .. E!SizeAt(written) : page' = FirstBytes(m)
    <3>1. E!NoBytes = FirstBytes(0) /\ 0 \in 0 .. E!SizeAt(written)
      BY FirstNone, WroteBytes DEF EepromInv, Assumed
    <3> QED
      BY <2>1, <3>1, <1>c
  <2> QED
    BY <2>3, <2>4, <1>0, <1>g DEF WrotePart
<1>9. PolledPart'
  <2> SUFFICES ASSUME caller = "polled" PROVE PolledPart'
    BY <1>b DEF PolledPart, E!callVars, E!callerVars
  <2>1. page = E!NoBytes /\ HeldTo(Chunked)
    BY <1>a DEF EepromInv, PolledPart
  <2>2. HeldTo(Chunked)'
    BY <2>1, <1>0, <1>b, <1>f, SameHeld DEF E!callVars, E!callerVars
  <2> QED
    BY <2>1, <2>2, <1>c, <1>g DEF PolledPart
<1>10. IdlePart'
  BY <1>0, OpFacts
     DEF Assumed, E!BoundAssumption, EepromInv, IdlePart, E!Fault, E!CutOff, E!Commit,
         E!Forget, E!Written, E!callVars, E!callerVars, E!BusUnchanged, E!Free, E!Raise,
         E!ReadyAfterWrite, E!None
<1>11. ReadPart'
  BY <1>0, OpFacts
     DEF Assumed, EepromInv, ReadPart, E!Fault, E!CutOff, E!Commit, E!Forget, E!Written,
         E!callVars, E!callerVars, E!BusUnchanged, E!Free, E!Raise, E!Success, ToRestart,
         Addressing, Sending, Receiving, Ended, Taken, E!None
<1> QED
  BY <1>1, <1>2, <1>3, <1>4, <1>5, <1>6, <1>7, <1>8, <1>9, <1>10, <1>11 DEF EepromInv

\* A call of eeprom_read or eeprom_write.
LEMMA CallKeeps ==
  ASSUME Assumed, EepromInv, E!Call
  PROVE  EepromInv'
<1>1. Shape'
  BY OpFacts, Answers
     DEF Assumed, EepromInv, Shape, E!Call, E!i2cVars, E!callVars, E!chipVars, E!limitVars,
         E!OutsideUnchanged, E!None, Places
<1>2. StagePart'
  BY OpFacts, NextFacts, AddressBytes, Answers
     DEF Assumed, EepromInv, StagePart, E!Call, E!i2cVars, E!callVars, E!chipVars,
         E!limitVars, E!OutsideUnchanged, ToStart, ToRestart, Addressing, Sending, Receiving,
         Failing, Ended, E!None
<1>3. CallPart'
  BY OpFacts, NextFacts, AddressBytes, Answers DEF Assumed, EepromInv, CallPart, E!Call, E!None
<1>4. IndexPart'
  BY OpFacts, NextFacts, AddressBytes, Answers
     DEF Assumed, EepromInv, IndexPart, E!Call, E!i2cVars, E!callVars, E!chipVars,
         E!limitVars, E!OutsideUnchanged, E!None
<1>5. TypePart'
  BY OpFacts, NextFacts, AddressBytes, Answers
     DEF Assumed, EepromInv, TypePart, E!Call, E!i2cVars, E!callVars, E!chipVars,
         E!limitVars, E!OutsideUnchanged, E!Success, E!TypeRight, E!None
<1>6. AskPart'
  BY OpFacts, NextFacts, AddressBytes, Answers DEF Assumed, EepromInv, AskPart, E!Call, E!None
<1>7. SendPart'
  BY OpFacts, NextFacts, AddressBytes, Answers
     DEF Assumed, EepromInv, SendPart, E!Call, Taken, E!None
<1>8. WrotePart'
  BY OpFacts, NextFacts, AddressBytes, Answers
     DEF Assumed, EepromInv, WrotePart, E!Call, E!Success, Taken, E!None
<1>9. PolledPart'
  BY OpFacts, NextFacts, AddressBytes, Answers
     DEF Assumed, EepromInv, PolledPart, E!Call, E!Success, E!None
<1>10. IdlePart'
  BY OpFacts, NextFacts, AddressBytes, Answers
     DEF Assumed, EepromInv, IdlePart, E!Call, E!i2cVars, E!callVars, E!chipVars,
         E!limitVars, E!OutsideUnchanged, E!ReadyAfterWrite, E!None
<1>11. ReadPart'
  BY OpFacts, NextFacts, AddressBytes, Answers
     DEF Assumed, EepromInv, ReadPart, E!Call, E!Success, Taken, E!None
<1> QED
  BY <1>1, <1>2, <1>3, <1>4, <1>5, <1>6, <1>7, <1>8, <1>9, <1>10, <1>11 DEF EepromInv

\* The detection asks the address that only a small chip answers to.
LEMMA ProbeSmallKeeps ==
  ASSUME Assumed, EepromInv, E!ProbeSmall
  PROVE  EepromInv'
<1>1. Shape'
  BY OpFacts, Answers
     DEF Assumed, EepromInv, Shape, E!ProbeSmall, E!StartRead, E!chipVars, E!limitVars,
         E!OutsideUnchanged, E!None, Places
<1>2. StagePart'
  BY OpFacts, NextFacts, AddressBytes, Answers
     DEF Assumed, EepromInv, StagePart, E!ProbeSmall, E!StartRead, E!chipVars, E!limitVars,
         E!OutsideUnchanged, ToStart, ToRestart, Addressing, Sending, Receiving, Failing,
         Ended, E!None
<1>3. CallPart'
  BY OpFacts, NextFacts, AddressBytes, Answers
     DEF Assumed, EepromInv, CallPart, E!ProbeSmall, E!StartRead, E!None
<1>4. IndexPart'
  BY OpFacts, NextFacts, AddressBytes, Answers
     DEF Assumed, EepromInv, IndexPart, E!ProbeSmall, E!StartRead, E!None
<1>5. TypePart'
  BY OpFacts, NextFacts, AddressBytes, Answers
     DEF Assumed, EepromInv, TypePart, E!ProbeSmall, E!StartRead, E!chipVars, E!limitVars,
         E!OutsideUnchanged, E!Success, Sending, Failing, Ended, E!TypeRight, E!None
<1>6. AskPart'
  BY OpFacts, NextFacts, AddressBytes, Answers
     DEF Assumed, EepromInv, AskPart, E!ProbeSmall, E!StartRead, Addressing, Sending, E!None
<1>7. SendPart'
  BY OpFacts, NextFacts, AddressBytes, Answers
     DEF Assumed, EepromInv, SendPart, E!ProbeSmall, E!StartRead, Taken, E!None
<1>8. WrotePart'
  BY OpFacts, NextFacts, AddressBytes, Answers
     DEF Assumed, EepromInv, WrotePart, E!ProbeSmall, E!StartRead, E!Success, Taken, E!None
<1>9. PolledPart'
  BY OpFacts, NextFacts, AddressBytes, Answers
     DEF Assumed, EepromInv, PolledPart, E!ProbeSmall, E!StartRead, E!Success, E!None
<1>10. IdlePart'
  BY OpFacts, NextFacts, AddressBytes, Answers
     DEF Assumed, EepromInv, IdlePart, E!ProbeSmall, E!StartRead, E!chipVars, E!limitVars,
         E!OutsideUnchanged, E!ReadyAfterWrite, E!None
<1>11. ReadPart'
  BY OpFacts, NextFacts, AddressBytes, Answers
     DEF Assumed, EepromInv, ReadPart, E!ProbeSmall, E!StartRead, E!Success, Taken, E!None
<1> QED
  BY <1>1, <1>2, <1>3, <1>4, <1>5, <1>6, <1>7, <1>8, <1>9, <1>10, <1>11 DEF EepromInv

\* It was a small chip, or the chip's own address is asked.
LEMMA ProbedSmallKeeps ==
  ASSUME Assumed, EepromInv, E!ProbedSmall
  PROVE  EepromInv'
<1>1. Shape'
  BY OpFacts, Answers
     DEF Assumed, EepromInv, Shape, StagePart, CallPart, IndexPart, TypePart, AskPart,
         SendPart, WrotePart, PolledPart, IdlePart, ReadPart, E!ProbedSmall, E!StartRead,
         E!i2cVars, E!callVars, E!chipVars, E!limitVars, E!OutsideUnchanged, E!Success,
         E!Finished, E!TypeRight, E!ReadyAfterWrite, Taken, E!None, Places
<1>2. StagePart'
  BY OpFacts, NextFacts, AddressBytes, Answers
     DEF Assumed, EepromInv, StagePart, E!ProbedSmall, E!StartRead, E!i2cVars, E!callVars,
         E!chipVars, E!limitVars, E!OutsideUnchanged, E!Success, E!Finished, ToStart,
         ToRestart, Addressing, Sending, Receiving, Failing, Ended, E!None
<1>3. CallPart'
  BY OpFacts, NextFacts, AddressBytes, Answers
     DEF Assumed, EepromInv, CallPart, E!ProbedSmall, E!StartRead, E!Success, E!Finished,
         E!None
<1>4. IndexPart'
  <2>1. CASE E!Success
    BY <2>1
       DEF EepromInv, IndexPart, E!ProbedSmall, E!i2cVars, E!callVars, E!chipVars,
           E!limitVars, E!OutsideUnchanged
  <2>2. CASE ~E!Success
    BY <2>2, ReadIndexes DEF E!ProbedSmall
  <2> QED
    BY <2>1, <2>2
<1>5. TypePart'
  BY OpFacts, NextFacts, AddressBytes, Answers
     DEF Assumed, EepromInv, Shape, StagePart, TypePart, E!ProbedSmall, E!StartRead,
         E!i2cVars, E!callVars, E!chipVars, E!limitVars, E!OutsideUnchanged, E!Success,
         E!Finished, ToStart, ToRestart, Addressing, Sending, Receiving, Failing, Ended,
         E!TypeRight, E!None
<1>6. AskPart'
  BY OpFacts, NextFacts, AddressBytes, Answers
     DEF Assumed, EepromInv, AskPart, E!ProbedSmall, E!StartRead, E!Success, E!Finished,
         Addressing, Sending, E!None
<1>7. SendPart'
  BY OpFacts, NextFacts, AddressBytes, Answers
     DEF Assumed, EepromInv, SendPart, E!ProbedSmall, E!StartRead, E!Success, E!Finished,
         Taken, E!None
<1>8. WrotePart'
  BY OpFacts, NextFacts, AddressBytes, Answers
     DEF Assumed, EepromInv, WrotePart, E!ProbedSmall, E!StartRead, E!Success, E!Finished,
         Taken, E!None
<1>9. PolledPart'
  BY OpFacts, NextFacts, AddressBytes, Answers
     DEF Assumed, EepromInv, PolledPart, E!ProbedSmall, E!StartRead, E!Success, E!Finished,
         E!None
<1>10. IdlePart'
  BY OpFacts, NextFacts, AddressBytes, Answers
     DEF Assumed, EepromInv, IdlePart, E!ProbedSmall, E!StartRead, E!i2cVars, E!callVars,
         E!chipVars, E!limitVars, E!OutsideUnchanged, E!Success, E!Finished,
         E!ReadyAfterWrite, E!None
<1>11. ReadPart'
  BY OpFacts, NextFacts, AddressBytes, Answers
     DEF Assumed, EepromInv, ReadPart, E!ProbedSmall, E!StartRead, E!Success, E!Finished,
         Taken, E!None
<1> QED
  BY <1>1, <1>2, <1>3, <1>4, <1>5, <1>6, <1>7, <1>8, <1>9, <1>10, <1>11 DEF EepromInv

\* It was a big chip, or none.
LEMMA ProbedBigKeeps ==
  ASSUME Assumed, EepromInv, E!ProbedBig
  PROVE  EepromInv'
<1>1. Shape'
  BY OpFacts, Answers
     DEF Assumed, EepromInv, Shape, E!ProbedBig, E!Return, E!i2cVars, E!callVars, E!chipVars,
         E!limitVars, E!OutsideUnchanged, E!Success, E!Finished, E!None, Places
<1>2. StagePart'
  BY OpFacts, NextFacts, AddressBytes, Answers
     DEF Assumed, EepromInv, StagePart, E!ProbedBig, E!Return, E!i2cVars, E!callVars,
         E!chipVars, E!limitVars, E!OutsideUnchanged, E!Success, E!Finished, ToStart,
         ToRestart, Addressing, Sending, Receiving, Failing, Ended, E!None
<1>3. CallPart'
  BY OpFacts, NextFacts, AddressBytes, Answers
     DEF Assumed, EepromInv, CallPart, E!ProbedBig, E!Return, E!Success, E!Finished, E!None
<1>4. IndexPart'
  BY OpFacts, NextFacts, AddressBytes, Answers
     DEF Assumed, EepromInv, IndexPart, E!ProbedBig, E!Return, E!i2cVars, E!callVars,
         E!chipVars, E!limitVars, E!OutsideUnchanged, E!Success, E!Finished, E!None
<1>5. TypePart'
  BY OpFacts, NextFacts, AddressBytes, Answers
     DEF Assumed, EepromInv, Shape, StagePart, TypePart, E!ProbedBig, E!Return, E!i2cVars,
         E!callVars, E!chipVars, E!limitVars, E!OutsideUnchanged, E!Success, E!Finished,
         E!TypeRight, E!None
<1>6. AskPart'
  BY OpFacts, NextFacts, AddressBytes, Answers
     DEF Assumed, EepromInv, AskPart, E!ProbedBig, E!Return, E!Success, E!Finished, E!None
<1>7. SendPart'
  BY OpFacts, NextFacts, AddressBytes, Answers
     DEF Assumed, EepromInv, SendPart, E!ProbedBig, E!Return, E!Success, E!Finished, Taken,
         E!None
<1>8. WrotePart'
  BY OpFacts, NextFacts, AddressBytes, Answers
     DEF Assumed, EepromInv, WrotePart, E!ProbedBig, E!Return, E!Success, E!Finished, Taken,
         E!None
<1>9. PolledPart'
  BY OpFacts, NextFacts, AddressBytes, Answers
     DEF Assumed, EepromInv, PolledPart, E!ProbedBig, E!Return, E!Success, E!Finished,
         E!None
<1>10. IdlePart'
  BY OpFacts, NextFacts, AddressBytes, Answers
     DEF Assumed, EepromInv, IdlePart, E!ProbedBig, E!Return, E!i2cVars, E!callVars,
         E!chipVars, E!limitVars, E!OutsideUnchanged, E!Success, E!Finished,
         E!ReadyAfterWrite, E!None
<1>11. ReadPart'
  BY OpFacts, NextFacts, AddressBytes, Answers
     DEF Assumed, EepromInv, ReadPart, E!ProbedBig, E!Return, E!Success, E!Finished, Taken,
         E!None
<1> QED
  BY <1>1, <1>2, <1>3, <1>4, <1>5, <1>6, <1>7, <1>8, <1>9, <1>10, <1>11 DEF EepromInv

\* There is no chip.
LEMMA NoEepromKeeps ==
  ASSUME Assumed, EepromInv, E!NoEeprom
  PROVE  EepromInv'
<1>1. Shape'
  BY OpFacts, Answers
     DEF Assumed, EepromInv, Shape, E!NoEeprom, E!Return, E!i2cVars, E!callVars, E!chipVars,
         E!limitVars, E!OutsideUnchanged, E!None, Places
<1>2. StagePart'
  BY OpFacts, NextFacts, AddressBytes, Answers
     DEF Assumed, EepromInv, StagePart, E!NoEeprom, E!Return, E!i2cVars, E!callVars,
         E!chipVars, E!limitVars, E!OutsideUnchanged, ToStart, ToRestart, Addressing,
         Sending, Receiving, Failing, Ended, E!None
<1>3. CallPart'
  BY OpFacts, NextFacts, AddressBytes, Answers
     DEF Assumed, EepromInv, CallPart, E!NoEeprom, E!Return, E!None
<1>4. IndexPart'
  BY OpFacts, NextFacts, AddressBytes, Answers
     DEF Assumed, EepromInv, IndexPart, E!NoEeprom, E!Return, E!i2cVars, E!callVars,
         E!chipVars, E!limitVars, E!OutsideUnchanged, E!None
<1>5. TypePart'
  BY OpFacts, NextFacts, AddressBytes, Answers
     DEF Assumed, EepromInv, TypePart, E!NoEeprom, E!Return, E!Success, E!TypeRight, E!None
<1>6. AskPart'
  BY OpFacts, NextFacts, AddressBytes, Answers
     DEF Assumed, EepromInv, AskPart, E!NoEeprom, E!Return, E!None
<1>7. SendPart'
  BY OpFacts, NextFacts, AddressBytes, Answers
     DEF Assumed, EepromInv, SendPart, E!NoEeprom, E!Return, Taken, E!None
<1>8. WrotePart'
  BY OpFacts, NextFacts, AddressBytes, Answers
     DEF Assumed, EepromInv, WrotePart, E!NoEeprom, E!Return, E!Success, Taken, E!None
<1>9. PolledPart'
  BY OpFacts, NextFacts, AddressBytes, Answers
     DEF Assumed, EepromInv, PolledPart, E!NoEeprom, E!Return, E!Success, E!None
<1>10. IdlePart'
  BY OpFacts, NextFacts, AddressBytes, Answers
     DEF Assumed, EepromInv, IdlePart, E!NoEeprom, E!Return, E!i2cVars, E!callVars,
         E!chipVars, E!limitVars, E!OutsideUnchanged, E!ReadyAfterWrite, E!None
<1>11. ReadPart'
  BY OpFacts, NextFacts, AddressBytes, Answers
     DEF Assumed, EepromInv, ReadPart, E!NoEeprom, E!Return, E!Success, Taken, E!None
<1> QED
  BY <1>1, <1>2, <1>3, <1>4, <1>5, <1>6, <1>7, <1>8, <1>9, <1>10, <1>11 DEF EepromInv

\* A read starts.
LEMMA ReadKeeps ==
  ASSUME Assumed, EepromInv, E!Read
  PROVE  EepromInv'
<1>s. UNCHANGED <<eepromType, op, written>>
  BY DEF E!Read, E!chipVars, E!limitVars, E!OutsideUnchanged
<1>0. /\ PageStart' = PageStart /\ AddressLen' = AddressLen /\ Chunked' = Chunked
      /\ E!SizeAt(written)' = E!SizeAt(written) /\ PageBytes' = PageBytes
      /\ \A m : FirstBytes(m)' = FirstBytes(m)
      /\ \A o : E!Address(o)' = E!Address(o) /\ E!ReadControl(o)' = E!ReadControl(o)
  BY <1>s, Steady
<1>1. Shape'
  BY OpFacts, Answers
     DEF Assumed, EepromInv, Shape, E!Read, E!StartRead, E!chipVars, E!limitVars,
         E!OutsideUnchanged, E!None, Places
<1>2. StagePart'
  BY OpFacts, NextFacts, AddressBytes, Answers
     DEF Assumed, EepromInv, StagePart, E!Read, E!StartRead, E!chipVars, E!limitVars,
         E!OutsideUnchanged, ToStart, ToRestart, Addressing, Sending, Receiving, Failing,
         Ended, E!None
<1>3. CallPart'
  BY <1>0, <1>s DEF EepromInv, E!Read, E!StartRead, CallPart, Known
<1>4. IndexPart'
  <2>1. Len(op.data) \in Nat
    BY OpFacts DEF EepromInv, Assumed, Shape
  <2> QED
    BY <2>1, ReadIndexes DEF E!Read
<1>5. TypePart'
  BY OpFacts, NextFacts, AddressBytes, Answers
     DEF Assumed, EepromInv, TypePart, E!Read, E!StartRead, E!chipVars, E!limitVars,
         E!OutsideUnchanged, E!Success, E!TypeRight, E!None
<1>6. AskPart'
  BY OpFacts, NextFacts, AddressBytes, Answers
     DEF Assumed, EepromInv, AskPart, E!Read, E!StartRead, E!None
<1>7. SendPart'
  BY OpFacts, NextFacts, AddressBytes, Answers
     DEF Assumed, EepromInv, SendPart, E!Read, E!StartRead, Addressing, Sending, Taken,
         E!None
<1>8. WrotePart'
  BY OpFacts, NextFacts, AddressBytes, Answers
     DEF Assumed, EepromInv, WrotePart, E!Read, E!StartRead, E!Success, Taken, E!None
<1>9. PolledPart'
  BY OpFacts, NextFacts, AddressBytes, Answers
     DEF Assumed, EepromInv, PolledPart, E!Read, E!StartRead, E!Success, E!None
<1>10. IdlePart'
  BY OpFacts, NextFacts, AddressBytes, Answers
     DEF Assumed, EepromInv, IdlePart, E!Read, E!StartRead, E!chipVars, E!limitVars,
         E!OutsideUnchanged, E!ReadyAfterWrite, E!None
<1>11. ReadPart'
  BY OpFacts, NextFacts, AddressBytes, Answers
     DEF Assumed, EepromInv, Shape, StagePart, ReadPart, E!Read, E!StartRead, E!chipVars,
         E!limitVars, E!OutsideUnchanged, E!Success, ToStart, ToRestart, Addressing, Sending,
         Receiving, Failing, Ended, Taken, E!None
<1> QED
  BY <1>1, <1>2, <1>3, <1>4, <1>5, <1>6, <1>7, <1>8, <1>9, <1>10, <1>11 DEF EepromInv

\* A read returns.
LEMMA ReadReturnsKeeps ==
  ASSUME Assumed, EepromInv, E!ReadReturns
  PROVE  EepromInv'
<1>1. Shape'
  BY OpFacts, Answers
     DEF Assumed, EepromInv, Shape, E!ReadReturns, E!Return, E!i2cVars, E!callVars,
         E!chipVars, E!limitVars, E!OutsideUnchanged, E!Success, E!Finished, E!None, Places
<1>2. StagePart'
  BY OpFacts, NextFacts, AddressBytes, Answers
     DEF Assumed, EepromInv, StagePart, E!ReadReturns, E!Return, E!i2cVars, E!callVars,
         E!chipVars, E!limitVars, E!OutsideUnchanged, E!Success, E!Finished, ToStart,
         ToRestart, Addressing, Sending, Receiving, Failing, Ended, E!None
<1>3. CallPart'
  BY OpFacts, NextFacts, AddressBytes, Answers
     DEF Assumed, EepromInv, CallPart, E!ReadReturns, E!Return, E!Success, E!Finished,
         E!None
<1>4. IndexPart'
  BY OpFacts, NextFacts, AddressBytes, Answers
     DEF Assumed, EepromInv, IndexPart, E!ReadReturns, E!Return, E!i2cVars, E!callVars,
         E!chipVars, E!limitVars, E!OutsideUnchanged, E!Success, E!Finished, E!None
<1>5. TypePart'
  BY OpFacts, NextFacts, AddressBytes, Answers
     DEF Assumed, EepromInv, TypePart, E!ReadReturns, E!Return, E!i2cVars, E!callVars,
         E!chipVars, E!limitVars, E!OutsideUnchanged, E!Success, E!Finished, E!TypeRight,
         E!None
<1>6. AskPart'
  BY OpFacts, NextFacts, AddressBytes, Answers
     DEF Assumed, EepromInv, AskPart, E!ReadReturns, E!Return, E!Success, E!Finished, E!None
<1>7. SendPart'
  BY OpFacts, NextFacts, AddressBytes, Answers
     DEF Assumed, EepromInv, SendPart, E!ReadReturns, E!Return, E!Success, E!Finished, Taken,
         E!None
<1>8. WrotePart'
  BY OpFacts, NextFacts, AddressBytes, Answers
     DEF Assumed, EepromInv, WrotePart, E!ReadReturns, E!Return, E!Success, E!Finished,
         Taken, E!None
<1>9. PolledPart'
  BY OpFacts, NextFacts, AddressBytes, Answers
     DEF Assumed, EepromInv, PolledPart, E!ReadReturns, E!Return, E!Success, E!Finished,
         E!None
<1>10. IdlePart'
  BY OpFacts, NextFacts, AddressBytes, Answers
     DEF Assumed, EepromInv, Shape, StagePart, CallPart, IdlePart, E!ReadReturns, E!Return,
         E!i2cVars, E!callVars, E!chipVars, E!limitVars, E!OutsideUnchanged, E!Success,
         E!Finished, E!ReadyAfterWrite, E!None
<1>11. ReadPart'
  BY OpFacts, NextFacts, AddressBytes, Answers
     DEF Assumed, EepromInv, ReadPart, E!ReadReturns, E!Return, E!Success, E!Finished, Taken,
         E!None
<1> QED
  BY <1>1, <1>2, <1>3, <1>4, <1>5, <1>6, <1>7, <1>8, <1>9, <1>10, <1>11 DEF EepromInv

\* The first page of a write starts.
LEMMA WriteKeeps ==
  ASSUME Assumed, EepromInv, E!Write
  PROVE  EepromInv'
<1>s. UNCHANGED <<eepromType, op, written>>
  BY DEF E!Write, E!chipVars, E!limitVars, E!OutsideUnchanged
<1>0. /\ PageStart' = PageStart /\ AddressLen' = AddressLen /\ Chunked' = Chunked
      /\ E!SizeAt(written)' = E!SizeAt(written) /\ PageBytes' = PageBytes
      /\ \A m : FirstBytes(m)' = FirstBytes(m)
      /\ \A o : E!Address(o)' = E!Address(o) /\ E!ReadControl(o)' = E!ReadControl(o)
  BY <1>s, Steady
<1>a. written = 0 /\ E!WritePage(written) /\ page = E!NoBytes
  BY DEF EepromInv, IdlePart, E!Write
<1>b. written < Len(op.data) /\ written \in Nat
  BY <1>a, OpFacts DEF EepromInv, Assumed, Shape
<1>c. E!SizeAt(written) \in Nat /\ PageStart \in Nat
  BY <1>b, NextFacts DEF EepromInv, Assumed, Shape
<1>1. Shape'
  BY OpFacts, Answers
     DEF Assumed, EepromInv, Shape, E!Write, E!StartWrite, E!WritePage, E!chipVars,
         E!limitVars, E!OutsideUnchanged, E!None, Places
<1>2. StagePart'
  BY OpFacts, NextFacts, AddressBytes, Answers
     DEF Assumed, EepromInv, StagePart, E!Write, E!StartWrite, E!WritePage, E!chipVars,
         E!limitVars, E!OutsideUnchanged, ToStart, ToRestart, Addressing, Sending, Receiving,
         Failing, Ended, E!None
<1>3. CallPart'
  BY <1>0, <1>a, <1>b, <1>s, PageStarts DEF E!Write, CallPart, Known
<1>4. IndexPart'
  BY <1>a, <1>s, PageStarts
<1>5. TypePart'
  BY OpFacts, NextFacts, AddressBytes, Answers
     DEF Assumed, EepromInv, TypePart, E!Write, E!StartWrite, E!WritePage, E!chipVars,
         E!limitVars, E!OutsideUnchanged, E!Success, E!TypeRight, E!None
<1>6. AskPart'
  BY OpFacts, NextFacts, AddressBytes, Answers
     DEF Assumed, EepromInv, AskPart, E!Write, E!StartWrite, E!WritePage, E!None
<1>7. SendPart'
  BY OpFacts, NextFacts, AddressBytes, Answers
     DEF Assumed, EepromInv, SendPart, E!Write, E!StartWrite, E!WritePage, Addressing,
         Sending, Taken, E!None
<1>8. WrotePart'
  <2>1. sta' = TRUE /\ page' = page /\ written' = 0 /\ mem' = mem
    BY <1>a, <1>s, PageStarts DEF E!Write, E!chipVars, E!limitVars, E!OutsideUnchanged
  <2>2. HeldTo(written)'
    BY <2>1 DEF HeldTo
  <2>3. page' = FirstBytes(0)' /\ 0 \in 0 .. E!SizeAt(written)'
    BY <2>1, <1>0, <1>a, <1>c, FirstNone
  <2>4. ~Addressing' /\ ~Sending' /\ ~Ended' /\ page' = E!NoBytes
    BY <2>1, <1>a DEF Addressing, Sending, Ended, E!None
  <2> QED
    BY <2>2, <2>3, <2>4 DEF WrotePart
<1>9. PolledPart'
  BY OpFacts, NextFacts, AddressBytes, Answers
     DEF Assumed, EepromInv, PolledPart, E!Write, E!StartWrite, E!WritePage, E!Success,
         E!None
<1>10. IdlePart'
  BY OpFacts, NextFacts, AddressBytes, Answers
     DEF Assumed, EepromInv, IdlePart, E!Write, E!StartWrite, E!WritePage, E!ReadyAfterWrite,
         E!None
<1>11. ReadPart'
  BY OpFacts, NextFacts, AddressBytes, Answers
     DEF Assumed, EepromInv, ReadPart, E!Write, E!StartWrite, E!WritePage, E!Success, Taken,
         E!None
<1> QED
  BY <1>1, <1>2, <1>3, <1>4, <1>5, <1>6, <1>7, <1>8, <1>9, <1>10, <1>11 DEF EepromInv

\* A page went out: the chip is asked until it answers.
LEMMA WroteKeeps ==
  ASSUME Assumed, EepromInv, E!Wrote
  PROVE  EepromInv'
<1>s. UNCHANGED <<eepromType, op, written>>
  BY DEF E!Wrote, E!Return
<1>0. /\ PageStart' = PageStart /\ AddressLen' = AddressLen /\ Chunked' = Chunked
      /\ E!SizeAt(written)' = E!SizeAt(written) /\ PageBytes' = PageBytes
      /\ \A m : FirstBytes(m)' = FirstBytes(m)
      /\ \A o : E!Address(o)' = E!Address(o) /\ E!ReadControl(o)' = E!ReadControl(o)
  BY <1>s, Steady
<1>a. Ended /\ state # "busy" /\ UNCHANGED <<mem, page, ptr, phase, busy, bus, chip>>
  BY DEF EepromInv, StagePart, E!Wrote, E!Finished, E!i2cVars, E!callVars, E!chipVars,
         E!limitVars, E!OutsideUnchanged
<1>b. E!Success => E!Poll /\ UNCHANGED answer
  BY DEF E!Wrote
<1>c. ~E!Success => E!Return(E!Failed) /\ UNCHANGED E!i2cVars
  BY DEF E!Wrote
<1>d. Known /\ op.kind = "write" /\ written < Len(op.data)
  BY DEF EepromInv, CallPart, E!Wrote
<1>f. outBuff[1] = E!Address(PageStart)[1]
  BY WroteBytes DEF EepromInv, Assumed, E!Wrote
<1>1. Shape'
  BY OpFacts, Answers
     DEF Assumed, EepromInv, Shape, StagePart, E!Wrote, E!Poll, E!StartWrite, E!Return,
         E!i2cVars, E!callVars, E!chipVars, E!limitVars, E!OutsideUnchanged, E!Success,
         E!Finished, E!None, Places
<1>2. StagePart'
  BY OpFacts, NextFacts, AddressBytes, Answers
     DEF Assumed, EepromInv, StagePart, E!Wrote, E!Poll, E!StartWrite, E!Return, E!i2cVars,
         E!callVars, E!chipVars, E!limitVars, E!OutsideUnchanged, E!Success, E!Finished,
         ToStart, ToRestart, Addressing, Sending, Receiving, Failing, Ended, E!None
<1>3. CallPart'
  <2>1. CASE E!Success
    BY <2>1, <1>0, <1>b, <1>d, <1>f, <1>s DEF E!Poll, E!StartWrite, CallPart, Known
  <2>2. CASE ~E!Success
    BY <2>2, <1>c DEF E!Return, CallPart
  <2> QED
    BY <2>1, <2>2
<1>4. IndexPart'
  <2>1. CASE E!Success
    BY <2>1, <1>b, WriteIndexes DEF E!Poll
  <2>2. CASE ~E!Success
    BY <2>2, <1>c DEF EepromInv, IndexPart, E!i2cVars, E!callVars
  <2> QED
    BY <2>1, <2>2
<1>5. TypePart'
  BY OpFacts, NextFacts, AddressBytes, Answers
     DEF Assumed, EepromInv, TypePart, E!Wrote, E!Poll, E!StartWrite, E!Return, E!i2cVars,
         E!callVars, E!chipVars, E!limitVars, E!OutsideUnchanged, E!Success, E!Finished,
         E!TypeRight, E!None
<1>6. AskPart'
  BY OpFacts, NextFacts, AddressBytes, Answers
     DEF Assumed, EepromInv, AskPart, E!Wrote, E!Poll, E!StartWrite, E!Return, E!Success,
         E!Finished, Addressing, Sending, E!None
<1>7. SendPart'
  BY OpFacts, NextFacts, AddressBytes, Answers
     DEF Assumed, EepromInv, SendPart, E!Wrote, E!Poll, E!StartWrite, E!Return, E!Success,
         E!Finished, Taken, E!None
<1>8. WrotePart'
  BY OpFacts, NextFacts, AddressBytes, Answers
     DEF Assumed, EepromInv, WrotePart, E!Wrote, E!Poll, E!StartWrite, E!Return, E!Success,
         E!Finished, Taken, E!None
<1>9. PolledPart'
  <2>1. CASE E!Success
    <3>1. sta' = TRUE /\ sto' = sto /\ status' = status /\ status = E!None
      BY <2>1, <1>a, <1>b DEF E!Poll, E!StartWrite, Ended
    <3>2. ToStart' /\ ~Sending' /\ ~Ended'
      BY <3>1, <1>a DEF ToStart, Sending, Ended, E!None
    <3>3. IF sto THEN page = FirstBytes(E!SizeAt(written)) /\ HeldTo(written)
                 ELSE HeldTo(Chunked) /\ page = E!NoBytes
      BY <2>1, <1>a DEF EepromInv, WrotePart, StagePart, E!Wrote, Ended
    <3>4. HeldTo(written)' = HeldTo(written) /\ HeldTo(Chunked)' = HeldTo(Chunked)
      BY <1>0, <1>a, <1>s, SameHeld
    <3> QED
      BY <3>1, <3>2, <3>3, <3>4, <1>0, <1>a DEF PolledPart
  <2>2. CASE ~E!Success
    BY <2>2, <1>c DEF E!Return, PolledPart
  <2> QED
    BY <2>1, <2>2
<1>10. IdlePart'
  <2>1. CASE E!Success
    BY <2>1, <1>b DEF E!Poll, IdlePart, E!ReadyAfterWrite
  <2>2. CASE ~E!Success
    <3>1. caller' = "idle" /\ answer' = E!Failed /\ sto' = sto /\ E!Failed # E!Ok
      BY <2>2, <1>c, Answers DEF E!Return, E!i2cVars, E!callVars
    <3>2. page # E!NoBytes => sto
      BY <1>a DEF EepromInv, StagePart, Ended
    <3>3. page # E!NoBytes => HeldTo(written) /\ \E m \in 1 .. E!SizeAt(written) : page = FirstBytes(m)
      BY PageFacts
    <3>4. HeldTo(written)' = HeldTo(written)
      BY <1>a, <1>s, SameHeld
    <3> QED
      BY <3>1, <3>2, <3>3, <3>4, <1>0, <1>a, <1>d, <1>s DEF IdlePart, E!ReadyAfterWrite
  <2> QED
    BY <2>1, <2>2
<1>11. ReadPart'
  BY OpFacts, NextFacts, AddressBytes, Answers
     DEF Assumed, EepromInv, ReadPart, E!Wrote, E!Poll, E!StartWrite, E!Return, E!Success,
         E!Finished, Taken, E!None
<1> QED
  BY <1>1, <1>2, <1>3, <1>4, <1>5, <1>6, <1>7, <1>8, <1>9, <1>10, <1>11 DEF EepromInv

\* The chip is still writing.
LEMMA PollAgainKeeps ==
  ASSUME Assumed, EepromInv, E!PollAgain
  PROVE  EepromInv'
<1>s. UNCHANGED <<eepromType, op, written>>
  BY DEF E!PollAgain, E!chipVars, E!limitVars, E!OutsideUnchanged
<1>0. /\ PageStart' = PageStart /\ AddressLen' = AddressLen /\ Chunked' = Chunked
      /\ E!SizeAt(written)' = E!SizeAt(written) /\ PageBytes' = PageBytes
      /\ \A m : FirstBytes(m)' = FirstBytes(m)
      /\ \A o : E!Address(o)' = E!Address(o) /\ E!ReadControl(o)' = E!ReadControl(o)
  BY <1>s, Steady
<1>a. Ended /\ state # "busy" /\ UNCHANGED <<mem, page, ptr, phase, busy, bus, chip, answer>>
  BY DEF EepromInv, StagePart, E!PollAgain, E!Finished, E!chipVars, E!limitVars,
         E!OutsideUnchanged
<1>b. E!Poll /\ caller = "polled" /\ outBuff[1] = E!Address(PageStart)[1]
  BY DEF EepromInv, CallPart, E!PollAgain
<1>1. Shape'
  BY OpFacts, Answers
     DEF Assumed, EepromInv, Shape, E!PollAgain, E!Poll, E!StartWrite, E!PollReturns,
         E!chipVars, E!limitVars, E!OutsideUnchanged, E!Success, E!Finished, E!None
<1>2. StagePart'
  BY OpFacts, NextFacts, AddressBytes, Answers
     DEF Assumed, EepromInv, StagePart, E!PollAgain, E!Poll, E!StartWrite, E!PollReturns,
         E!chipVars, E!limitVars, E!OutsideUnchanged, E!Success, E!Finished, ToStart,
         ToRestart, Addressing, Sending, Receiving, Failing, Ended, E!None
<1>3. CallPart'
  BY <1>0, <1>b, <1>s DEF EepromInv, E!Poll, E!StartWrite, CallPart, Known
<1>4. IndexPart'
  BY <1>b, WriteIndexes DEF E!Poll
<1>5. TypePart'
  BY OpFacts, NextFacts, AddressBytes, Answers
     DEF Assumed, EepromInv, TypePart, E!PollAgain, E!Poll, E!StartWrite, E!PollReturns,
         E!chipVars, E!limitVars, E!OutsideUnchanged, E!Success, E!Finished, E!TypeRight,
         E!None
<1>6. AskPart'
  BY OpFacts, NextFacts, AddressBytes, Answers
     DEF Assumed, EepromInv, AskPart, E!PollAgain, E!Poll, E!StartWrite, E!PollReturns,
         E!Success, E!Finished, Addressing, Sending, E!None
<1>7. SendPart'
  BY OpFacts, NextFacts, AddressBytes, Answers
     DEF Assumed, EepromInv, SendPart, E!PollAgain, E!Poll, E!StartWrite, E!PollReturns,
         E!Success, E!Finished, Taken, E!None
<1>8. WrotePart'
  BY OpFacts, NextFacts, AddressBytes, Answers
     DEF Assumed, EepromInv, WrotePart, E!PollAgain, E!Poll, E!StartWrite, E!PollReturns,
         E!Success, E!Finished, Taken, E!None
<1>9. PolledPart'
  <2>1. ~ToStart /\ ~Sending' /\ ~Ended'
    BY <1>a, <1>b DEF E!Poll, E!StartWrite, ToStart, Sending, Ended, E!None
  <2>2. page = E!NoBytes /\ HeldTo(Chunked)
    BY <2>1, <1>b DEF EepromInv, PolledPart
  <2>3. HeldTo(Chunked)'
    BY <2>2, <1>0, <1>a, <1>s, SameHeld
  <2> QED
    BY <2>1, <2>2, <2>3, <1>a DEF PolledPart
<1>10. IdlePart'
  BY OpFacts, NextFacts, AddressBytes, Answers
     DEF Assumed, EepromInv, IdlePart, E!PollAgain, E!Poll, E!StartWrite, E!PollReturns,
         E!Success, E!Finished, E!ReadyAfterWrite, E!None
<1>11. ReadPart'
  BY OpFacts, NextFacts, AddressBytes, Answers
     DEF Assumed, EepromInv, ReadPart, E!PollAgain, E!Poll, E!StartWrite, E!PollReturns,
         E!Success, E!Finished, Taken, E!None
<1> QED
  BY <1>1, <1>2, <1>3, <1>4, <1>5, <1>6, <1>7, <1>8, <1>9, <1>10, <1>11 DEF EepromInv

\* The chip answers: the next page, or the write returns.
LEMMA PolledKeeps ==
  ASSUME Assumed, EepromInv, E!Polled
  PROVE  EepromInv'
<1>a. /\ Ended /\ state # "busy" /\ caller = "polled" /\ E!Success
      /\ UNCHANGED <<eepromType, op, mem, page, ptr, phase, busy, bus, chip>>
  BY DEF EepromInv, StagePart, E!Polled, E!PollReturns, E!Finished, E!i2cVars, E!callVars,
         E!chipVars, E!limitVars, E!OutsideUnchanged
<1>b. /\ written \in Nat /\ E!SizeAt(written) \in Nat /\ written' = Chunked /\ written' \in Nat
      /\ Known /\ op.kind = "write" /\ op \in Ops
  BY <1>a, NextFacts DEF EepromInv, Assumed, Shape, CallPart, E!Polled, Chunked
<1>g. written' \in 0 .. Len(op'.data)
  <2>1. Len(op.data) \in Nat /\ written + E!SizeAt(written) <= Len(op.data)
    BY <1>a, OpFacts, NextFacts DEF EepromInv, Assumed, Shape, CallPart
  <2> QED
    BY <2>1, <1>a, <1>b DEF Chunked
<1>c. page = E!NoBytes /\ HeldTo(Chunked) /\ ~busy
  BY <1>a DEF EepromInv, PolledPart, Ended, ToStart
<1>d. HeldTo(written)'
  BY <1>a, <1>b, <1>c DEF HeldTo
<1>e. CASE written' < Len(op.data)
  <2>1. E!WritePage(written') /\ UNCHANGED answer
    BY <1>e DEF E!Polled
  <2>2. PICK n \in Nat : n = written'
    BY <1>b
  <2>3. /\ outBuff' = E!Address(PageStart)' \o PageBytes' /\ ctrlBuff' = <<>> /\ readLength' = 0
        /\ caller' = "wrote" /\ IndexPart' /\ state' = "busy" /\ sta' = TRUE
        /\ UNCHANGED <<writeIndex, readIndex, sto, aa, dat, status>>
    BY <2>1, <2>2, <1>a, PageStarts
  <2>4. E!SizeAt(n) \in Nat /\ op.off + n \in Nat
    BY <2>2, <1>b, <1>e, SizeFacts DEF Assumed
  <2>5. E!SizeAt(written)' \in Nat /\ PageStart' \in Nat
    BY <2>2, <2>4, <1>a DEF E!SizeAt, E!Chunk, E!PageSize, PageStart
  <2>6. FirstBytes(0)' = E!NoBytes
    <3>1. \A x \in Nat : x .. x + 0 - 1 = {}
      OBVIOUS
    <3>2. PageStart' .. PageStart' + 0 - 1 = {}
      BY <3>1, <2>5
    <3> QED
      BY <3>2 DEF FirstBytes, E!NoBytes
  <2>s. Shape'
    BY <2>1, <2>3, <1>a, <1>b, <1>g DEF EepromInv, Shape, Places
  <2>p. CallPart'
    BY <2>3, <1>a, <1>b, <1>e DEF CallPart, Known
  <2>w. WrotePart'
    BY <2>3, <2>5, <2>6, <1>a, <1>c, <1>d
       DEF WrotePart, ToStart, Addressing, Sending, Ended, E!None
  <2>7. PolledPart' /\ ReadPart' /\ AskPart'
    BY <2>3 DEF PolledPart, ReadPart, AskPart
  <2>8. IdlePart'
    BY <2>3 DEF IdlePart, E!ReadyAfterWrite
  <2>9. TypePart'
    BY <2>3, <1>a, <1>c DEF EepromInv, TypePart, E!TypeRight, E!None
  <2>10. StagePart'
    BY <2>3, <1>a, <1>c
       DEF EepromInv, StagePart, ToStart, ToRestart, Addressing, Sending, Receiving, Failing,
           Ended, E!None
  <2>11. SendPart'
    BY <2>3 DEF SendPart, Addressing, Sending, E!None
  <2> QED
    BY <2>3, <2>s, <2>p, <2>w, <2>7, <2>8, <2>9, <2>10, <2>11 DEF EepromInv
<1>f. CASE ~(written' < Len(op.data))
  <2>1. caller' = "idle" /\ answer' = E!Ok /\ UNCHANGED E!i2cVars
    BY <1>f DEF E!Polled
  <2>2. Shape'
    BY <2>1, <1>a, <1>b, <1>g, Answers DEF EepromInv, Shape, Places, E!i2cVars, E!callVars
  <2>3. CallPart' /\ AskPart' /\ SendPart' /\ WrotePart' /\ PolledPart' /\ ReadPart'
    BY <2>1 DEF CallPart, AskPart, SendPart, WrotePart, PolledPart, ReadPart
  <2>4. IndexPart'
    BY <2>1 DEF EepromInv, IndexPart, E!i2cVars, E!callVars
  <2>5. StagePart'
    BY <2>1, <1>a, <1>c
       DEF EepromInv, StagePart, ToStart, ToRestart, Addressing, Sending, Receiving, Failing,
           Ended, E!None, E!i2cVars, E!callVars
  <2>6. TypePart'
    BY <2>1, <1>a, <1>c DEF EepromInv, TypePart, E!TypeRight, E!i2cVars, E!callVars
  <2>7. IdlePart'
    BY <2>1, <1>a, <1>c DEF IdlePart, E!ReadyAfterWrite
  <2> QED
    BY <2>2, <2>3, <2>4, <2>5, <2>6, <2>7 DEF EepromInv
<1> QED
  BY <1>e, <1>f

\* The board restarts.
LEMMA RestartKeeps ==
  ASSUME Assumed, EepromInv, E!Restart
  PROVE  EepromInv'
<1>1. Shape'
  <2>1. mem' \in [E!Offset -> Nat]
    BY CommitFacts DEF EepromInv, Assumed, Shape, E!Restart
  <2>2. caller' = "idle" /\ answer' # E!Waiting
    BY Answers DEF E!Restart
  <2>3. written' \in 0 .. Len(op'.data)
    BY OpFacts DEF EepromInv, Assumed, Shape, E!Restart
  <2> QED
    BY <2>1, <2>2, <2>3 DEF EepromInv, Assumed, Shape, Places, E!None, E!Restart
<1>2. StagePart'
  BY OpFacts, NextFacts, AddressBytes, Answers
     DEF Assumed, EepromInv, StagePart, E!Restart, E!CutOff, E!Forget, E!Commit, E!Written,
         ToStart, ToRestart, Addressing, Sending, Receiving, Failing, Ended, E!None
<1>3. CallPart'
  BY OpFacts, NextFacts, AddressBytes, Answers
     DEF Assumed, EepromInv, CallPart, E!Restart, E!CutOff, E!Forget, E!Commit, E!Written,
         E!None
<1>4. IndexPart'
  BY OpFacts, NextFacts, AddressBytes, Answers
     DEF Assumed, EepromInv, IndexPart, E!Restart, E!CutOff, E!Forget, E!Commit, E!Written,
         E!None
<1>5. TypePart'
  BY OpFacts, NextFacts, AddressBytes, Answers
     DEF Assumed, EepromInv, TypePart, E!Restart, E!CutOff, E!Forget, E!Commit, E!Written,
         E!Success, E!TypeRight, E!None
<1>6. AskPart'
  BY OpFacts, NextFacts, AddressBytes, Answers
     DEF Assumed, EepromInv, AskPart, E!Restart, E!CutOff, E!Forget, E!Commit, E!Written,
         E!None
<1>7. SendPart'
  BY OpFacts, NextFacts, AddressBytes, Answers
     DEF Assumed, EepromInv, SendPart, E!Restart, E!CutOff, E!Forget, E!Commit, E!Written,
         Taken, E!None
<1>8. WrotePart'
  BY OpFacts, NextFacts, AddressBytes, Answers
     DEF Assumed, EepromInv, WrotePart, E!Restart, E!CutOff, E!Forget, E!Commit, E!Written,
         E!Success, Taken, E!None
<1>9. PolledPart'
  BY OpFacts, NextFacts, AddressBytes, Answers
     DEF Assumed, EepromInv, PolledPart, E!Restart, E!CutOff, E!Forget, E!Commit, E!Written,
         E!Success, E!None
<1>10. IdlePart'
  BY OpFacts, NextFacts, AddressBytes, Answers
     DEF Assumed, EepromInv, IdlePart, E!Restart, E!CutOff, E!Forget, E!Commit, E!Written,
         E!ReadyAfterWrite, E!None
<1>11. ReadPart'
  BY OpFacts, NextFacts, AddressBytes, Answers
     DEF Assumed, EepromInv, ReadPart, E!Restart, E!CutOff, E!Forget, E!Commit, E!Written,
         E!Success, Taken, E!None
<1> QED
  BY <1>1, <1>2, <1>3, <1>4, <1>5, <1>6, <1>7, <1>8, <1>9, <1>10, <1>11 DEF EepromInv


\* The invariant holds at first.
LEMMA EepromStarts ==
  ASSUME Assumed, E!Init
  PROVE  EepromInv
<1>1. Shape
  <2>1. mem \in [E!Offset -> Nat]
    BY DEF E!Init, E!Empty
  <2>2. written \in 0 .. Len(op.data)
    BY OpFacts DEF Assumed, E!Init
  <2> QED
    BY <2>1, <2>2, Answers
       DEF Assumed, E!BoundAssumption, E!SizeAssumption, E!Init, E!I2cInit, Shape, Places,
           E!None
<1>2. StagePart /\ CallPart /\ AskPart /\ SendPart /\ WrotePart /\ PolledPart /\ ReadPart
  BY DEF E!Init, E!I2cInit, StagePart, Ended, CallPart, AskPart, SendPart, WrotePart,
         PolledPart, ReadPart
<1>3. IndexPart
  BY DEF E!Init, E!I2cInit, IndexPart
<1>4. TypePart /\ IdlePart
  BY Answers DEF E!Init, TypePart, E!TypeRight, IdlePart, E!ReadyAfterWrite
<1> QED
  BY <1>1, <1>2, <1>3, <1>4 DEF EepromInv

\* A step of another part leaves it alone.
LEMMA EepromStays ==
  ASSUME EepromInv, UNCHANGED E!vars
  PROVE  EepromInv'
<1>s. UNCHANGED <<caller, eepromType, op, written, outBuff, ctrlBuff, readLength, mem>>
  BY DEF E!vars, E!i2cVars, E!callVars, E!callerVars, E!chipVars, E!limitVars
<1>0. /\ PageStart' = PageStart /\ AddressLen' = AddressLen /\ Chunked' = Chunked
      /\ E!SizeAt(written)' = E!SizeAt(written)
      /\ \A m : FirstBytes(m)' = FirstBytes(m)
  BY <1>s, Steady
<1>m. \A n : HeldTo(n)' = HeldTo(n)
  BY <1>s, SameHeld
<1>t. UNCHANGED <<ToStart, ToRestart, Addressing, Sending, Receiving, Failing, Ended, E!Success, Taken>>
  BY DEF ToStart, ToRestart, Addressing, Sending, Receiving, Failing, Ended, E!Success,
         Taken, E!vars, E!i2cVars, E!callVars, E!chipVars
<1>l. \A k, x : Located(k, x)' = Located(k, x)
  BY <1>0 DEF Located, E!vars, E!chipVars
<1>w. \A i : E!WantsMore(i)' = E!WantsMore(i)
  BY <1>s DEF E!WantsMore
<1>1. Shape' /\ StagePart' /\ IndexPart' /\ TypePart' /\ AskPart'
  BY <1>t
     DEF EepromInv, Shape, StagePart, IndexPart, TypePart, E!TypeRight, AskPart, E!vars,
         E!i2cVars, E!callVars, E!callerVars, E!chipVars, E!limitVars
<1>2. CallPart'
  BY <1>s, SameCall DEF EepromInv
<1>3. SendPart' /\ WrotePart'
  BY <1>0, <1>m, <1>t, <1>l
     DEF EepromInv, SendPart, WrotePart, E!vars, E!i2cVars, E!callVars, E!callerVars,
         E!chipVars
<1>4. PolledPart' /\ IdlePart'
  BY <1>0, <1>m, <1>t
     DEF EepromInv, PolledPart, IdlePart, E!ReadyAfterWrite, E!vars, E!i2cVars, E!callerVars,
         E!chipVars
<1>5. ReadPart'
  BY <1>0, <1>w, <1>t
     DEF EepromInv, ReadPart, E!vars, E!i2cVars, E!callVars, E!callerVars, E!chipVars
<1> QED
  BY <1>1, <1>2, <1>3, <1>4, <1>5 DEF EepromInv

\* Every step of the driver, the handler, the bus and the chip keeps it.
LEMMA EepromKeeps ==
  ASSUME Assumed, EepromInv, E!Next
  PROVE  EepromInv'
<1>1. CASE E!Call
  BY <1>1, CallKeeps
<1>2. CASE E!Driver
  BY <1>2, ProbeSmallKeeps, ProbedSmallKeeps, ProbedBigKeeps, NoEepromKeeps, ReadKeeps,
     ReadReturnsKeeps, WriteKeeps, WroteKeeps, PollAgainKeeps, PolledKeeps
     DEF E!Driver
<1>3. CASE E!Handler
  BY <1>3, BusErrorKeeps, StartedKeeps, RestartedKeeps, ArbitrationLostKeeps,
     AddressAckedKeeps, NackedKeeps, DataAckedKeeps, AddressRAckedKeeps, DataReceivedKeeps,
     LastReceivedKeeps
     DEF E!Handler, E!I2c_0_Handler
<1>4. CASE E!Events
  BY <1>4, StopKeeps, StartKeeps, SendAddressKeeps, SendByteKeeps, ReceiveByteKeeps DEF E!Events
<1>5. CASE E!WriteCycleEnds \/ E!Fault \/ E!Restart
  BY <1>5, WriteCycleEndsKeeps, FaultKeeps, RestartKeeps
<1> QED
  BY <1>1, <1>2, <1>3, <1>4, <1>5 DEF E!Next

\* And it is what the run checks, and more.
LEMMA EepromMeans ==
  ASSUME Assumed, EepromInv
  PROVE  E!EepromInStep
<1>1. DOMAIN page \subseteq E!Offset
  <2>1. CASE page = E!NoBytes
    BY <2>1 DEF E!NoBytes
  <2>2. CASE page # E!NoBytes
    <3>1. written < Len(op.data) /\ E!SizeAt(written) \in Nat
      BY <2>2, PageFacts, NextFacts DEF Assumed, EepromInv, Shape
    <3>2. PICK m \in 0 .. E!SizeAt(written) : page = FirstBytes(m)
      BY <2>2, <3>1, PageFacts
    <3> QED
      BY <3>1, <3>2, PageIs DEF Assumed, EepromInv
  <2> QED
    BY <2>1, <2>2
<1>2. E!TypeOK
  BY <1>1 DEF EepromInv, Shape, IndexPart, E!TypeOK
<1>3. E!TypeRight /\ E!ReadyAfterWrite
  BY DEF EepromInv, TypePart, IdlePart
<1>4. E!QuietBetween
  BY DEF EepromInv, StagePart, Ended, E!QuietBetween
<1> QED
  BY <1>2, <1>3, <1>4 DEF E!EepromInStep

-----------------------------------------------------------------------------
(* The refinement.                                                         *)

\* The store answers as the driver does.
LEMMA SameAnswers ==
  /\ E!Store!Waiting = E!Waiting /\ E!Store!Ok = E!Ok /\ E!Store!Failed = E!Failed
  /\ \A r, d : E!Store!Answer(r, d) = E!Answer(r, d)
BY DEF E!Store!Waiting, E!Store!Ok, E!Store!Failed, E!Store!Answer, E!Waiting, E!Ok,
       E!Failed, E!Answer

\* What the chip commits is the next bytes of the write.
LEMMA CommitStores ==
  ASSUME Assumed, EepromInv, page # E!NoBytes, mem' = E!Written
  PROVE  E!Store!StoreSome
<1>1. Shape /\ E!SizeAssumption /\ E!OpAssumption /\ op.kind = "write" /\ written < Len(op.data)
      /\ HeldTo(written)
  BY PageFacts DEF Assumed, EepromInv
<1>2. PICK m \in 1 .. E!SizeAt(written) : page = FirstBytes(m)
  BY PageFacts
<1>3. E!SizeAt(written) \in Nat /\ m \in 0 .. E!SizeAt(written) /\ m > 0
  BY <1>1, <1>2, NextFacts DEF Shape
<1>4. PICK w \in Nat : w = written
  BY DEF EepromInv, Shape
<1>5. PICK l \in Nat : l = Len(op.data)
  BY <1>1, OpFacts DEF Shape
<1>6. PICK o \in Nat : o = op.off
  BY <1>1, OpFacts DEF Shape
<1>7. /\ m \in Nat /\ w + m <= l /\ PageStart = o + w /\ DOMAIN page = o + w .. o + w + m - 1
      /\ \A a \in o + w .. o + w + m - 1 : page[a] = op.data[a - o + 1]
  BY <1>1, <1>2, <1>3, <1>4, <1>5, <1>6, PageIs
<1>8. PICK j \in 1 .. l : j = w + 1
  BY <1>1, <1>4, <1>5
<1>9. PICK k \in 1 .. l : k = w + m
  BY <1>3, <1>5, <1>7
<1>10. j <= k /\ o + j - 1 = o + w /\ o + k - 1 = o + w + m - 1 /\ 1 .. j - 1 = 1 .. w
  BY <1>3, <1>7, <1>8, <1>9
<1>11. \A i \in 1 .. j - 1 : E!Store!Holds(i)
  BY <1>1, <1>4, <1>10 DEF E!Store!Holds, HeldTo
<1>12. mem' = [a \in E!Offset |-> IF a \in o + j - 1 .. o + k - 1 THEN op.data[a - o + 1] ELSE mem[a]]
  BY <1>7, <1>10 DEF E!Written
<1>13. E!Store!StoreFrom(j, k)
  BY <1>6, <1>11, <1>12 DEF E!Store!StoreFrom
<1> QED
  BY <1>1, <1>5, <1>8, <1>9, <1>10, <1>13 DEF E!Store!StoreSome

\* While a call runs, a step that stores nothing is none of the store.
LEMMA QuietStep ==
  ASSUME UNCHANGED <<mem, op, answer>>, caller # "idle", caller' # "idle"
  PROVE  UNCHANGED E!Store!vars
BY DEF E!Store!vars, E!Lingers

\* A call that fails: what it sent is stored with the STOP that is pending.
LEMMA FailStep ==
  ASSUME UNCHANGED <<mem, op>>, caller # "idle", answer = E!Waiting, E!Return(E!Failed)
  PROVE  [E!Store!Next]_(E!Store!vars)
<1>1. ~E!Lingers /\ answer' = E!Failed
  BY DEF E!Lingers, E!Return
<1>2. CASE E!Lingers'
  BY <1>1, <1>2 DEF E!Store!vars
<1>3. CASE ~E!Lingers'
  BY <1>1, <1>3, SameAnswers DEF E!Store!Next, E!Store!Fail, E!Store!Maybe
<1> QED
  BY <1>2, <1>3

\* A step that commits the page stores, or fails having stored.
LEMMA CommitStep ==
  ASSUME Assumed, EepromInv, mem' = E!Written, UNCHANGED op, page' = E!NoBytes,
         \/ caller # "idle" /\ UNCHANGED <<caller, answer>>
         \/ caller = "idle" /\ UNCHANGED <<caller, answer>>
         \/ caller # "idle" /\ caller' = "idle" /\ answer' = E!Failed
  PROVE  [E!Store!Next]_(E!Store!vars)
<1>1. ~E!Lingers' /\ (answer = E!Waiting <=> caller # "idle")
  BY DEF E!Lingers, EepromInv, Shape
<1>2. CASE page = E!NoBytes
  <2>1. mem' = mem /\ ~E!Lingers
    BY <1>2, CommitFacts DEF E!Lingers
  <2>2. UNCHANGED answer => UNCHANGED E!Store!vars
    BY <1>1, <2>1 DEF E!Store!vars
  <2>3. caller # "idle" /\ answer' = E!Failed => E!Store!Fail
    BY <1>1, <2>1, SameAnswers DEF E!Store!Fail, E!Store!Maybe
  <2> QED
    BY <2>2, <2>3 DEF E!Store!Next
<1>3. CASE page # E!NoBytes
  <2>1. E!Store!StoreSome
    BY <1>3, CommitStores
  <2>2. caller = "idle" => E!Lingers /\ answer = E!Failed
    BY <1>3, PageFacts DEF E!Lingers
  <2>3. caller # "idle" => ~E!Lingers /\ answer = E!Waiting
    BY <1>1 DEF E!Lingers
  <2>4. CASE UNCHANGED answer /\ caller # "idle"
    BY <1>1, <2>1, <2>3, <2>4, SameAnswers DEF E!Store!Next, E!Store!Store
  <2>5. CASE answer' = E!Failed
    BY <1>1, <2>1, <2>2, <2>3, <2>5, SameAnswers DEF E!Store!Next, E!Store!Fail, E!Store!Maybe
  <2> QED
    BY <2>2, <2>4, <2>5
<1> QED
  BY <1>2, <1>3

\* The store starts empty.
LEMMA StoreStarts ==
  ASSUME E!Init
  PROVE  E!Store!Init
BY SameAnswers DEF E!Init, E!Store!Init, E!Lingers

\* The steps of the driver: a call returns what the store says, or goes on.
LEMMA DriverStores ==
  ASSUME Assumed, EepromInv, E!Driver
  PROVE  [E!Store!Next]_(E!Store!vars)
<1>1. UNCHANGED <<mem, page, op>> /\ caller # "idle" /\ answer = E!Waiting
  BY DEF EepromInv, Shape, E!Driver, E!ProbeSmall, E!ProbedSmall, E!ProbedBig, E!NoEeprom,
         E!Read, E!ReadReturns, E!Write, E!Wrote, E!PollAgain, E!Polled, E!Return,
         E!PollReturns, E!OutsideUnchanged, E!chipVars
<1>2. CASE E!ProbeSmall \/ E!ProbedSmall \/ E!Read \/ E!Write \/ E!PollAgain
  BY <1>1, <1>2, QuietStep
     DEF E!ProbeSmall, E!ProbedSmall, E!Read, E!Write, E!PollAgain, E!WritePage, E!Poll
<1>3. CASE E!ProbedBig
  <2>1. CASE E!Success
    BY <1>1, <1>3, <2>1, QuietStep DEF E!ProbedBig
  <2>2. CASE ~E!Success
    BY <1>1, <1>3, <2>2, FailStep DEF E!ProbedBig
  <2> QED
    BY <2>1, <2>2
<1>4. CASE E!NoEeprom
  BY <1>1, <1>4, FailStep DEF E!NoEeprom
<1>5. CASE E!Wrote
  <2>1. CASE E!Success
    BY <1>1, <1>5, <2>1, QuietStep DEF E!Wrote, E!Poll
  <2>2. CASE ~E!Success
    BY <1>1, <1>5, <2>2, FailStep DEF E!Wrote
  <2> QED
    BY <2>1, <2>2
<1>6. CASE E!ReadReturns
  <2>1. CASE E!Success
    <3>1. /\ page = E!NoBytes /\ op.kind = "read" /\ readLength = Len(op.data)
          /\ \A i \in 1 .. readLength : inBuff[i].v = mem[op.off + i - 1]
      BY <1>6, <2>1
         DEF EepromInv, IdlePart, CallPart, ReadPart, StagePart, E!ReadReturns, E!Finished
    <3>2. answer' = E!Answer("ok", [i \in 1 .. Len(op.data) |-> mem[op.off + i - 1]])
      BY <1>6, <2>1, <3>1 DEF E!ReadReturns, E!Return
    <3>3. ~E!Lingers /\ ~E!Lingers'
      BY <1>1, <3>1 DEF E!Lingers
    <3> QED
      BY <1>1, <3>1, <3>2, <3>3, SameAnswers DEF E!Store!Next, E!Store!Done
  <2>2. CASE ~E!Success
    BY <1>1, <1>6, <2>2, FailStep DEF E!ReadReturns
  <2> QED
    BY <2>1, <2>2
<1>7. CASE E!Polled
  <2>1. CASE written' < Len(op.data)
    BY <1>1, <1>7, <2>1, QuietStep DEF E!Polled, E!WritePage
  <2>2. CASE ~(written' < Len(op.data))
    <3>1. page = E!NoBytes /\ HeldTo(Chunked) /\ op.kind = "write" /\ written' = Chunked
      BY <1>7
         DEF EepromInv, PolledPart, CallPart, StagePart, E!Polled, E!PollReturns, E!Finished,
             Ended, ToStart, Chunked
    <3>2. Chunked = Len(op.data)
      <4>1. written < Len(op.data) /\ written \in Nat /\ Len(op.data) \in Nat
        BY <1>7, OpFacts DEF Assumed, EepromInv, Shape, CallPart, E!Polled
      <4>2. Chunked \in Nat /\ Chunked <= Len(op.data)
        BY <4>1, NextFacts DEF Assumed, EepromInv, Shape, Chunked
      <4> QED
        BY <2>2, <3>1, <4>1, <4>2
    <3>3. ~E!Lingers /\ ~E!Lingers' /\ answer' = E!Ok
      BY <1>1, <1>7, <2>2, <3>1 DEF E!Lingers, E!Polled
    <3>4. \A i \in 1 .. Len(op.data) : E!Store!Holds(i)
      BY <3>1, <3>2 DEF E!Store!Holds, HeldTo
    <3> QED
      BY <1>1, <3>1, <3>3, <3>4, SameAnswers DEF E!Store!Next, E!Store!Done
  <2> QED
    BY <2>1, <2>2
<1> QED
  BY <1>2, <1>3, <1>4, <1>5, <1>6, <1>7 DEF E!Driver

\* Every step is one of the store or none.
LEMMA NextStores ==
  ASSUME Assumed, EepromInv, E!Next
  PROVE  [E!Store!Next]_(E!Store!vars)
<1>1. CASE E!Call
  <2>1. op' \in Ops /\ answer' = E!Waiting /\ answer # E!Waiting /\ ~E!Lingers /\ ~E!Lingers' /\ mem' = mem
    BY <1>1 DEF EepromInv, Shape, E!Call, E!Lingers, E!OutsideUnchanged, E!chipVars
  <2> QED
    BY <2>1, SameAnswers DEF E!Store!Next, E!Store!Call
<1>2. CASE E!Driver
  BY <1>2, DriverStores
<1>3. CASE E!Handler \/ E!Start \/ E!SendAddress \/ E!SendByte \/ E!ReceiveByte
  <2>1. status # E!None \/ ~(sto \/ bus = "idle") \/ sta
    BY <1>3
       DEF E!Handler, E!I2c_0_Handler, E!BusError, E!Started, E!Restarted, E!ArbitrationLost,
           E!AddressAcked, E!Nacked, E!DataAcked, E!AddressRAcked, E!DataReceived,
           E!LastReceived, E!Pending, E!None, E!Start, E!SendAddress, E!SendByte,
           E!ReceiveByte, E!Shifts
  <2>2. caller # "idle"
    BY <2>1 DEF EepromInv, StagePart, Ended
  <2>3. UNCHANGED <<mem, op, answer, caller>>
    BY <1>3
       DEF E!Handler, E!Start, E!SendAddress, E!SendByte, E!ReceiveByte, E!OutsideUnchanged,
           E!chipVars, E!callerVars
  <2> QED
    BY <2>2, <2>3, QuietStep
<1>4. CASE E!WriteCycleEnds
  BY <1>4 DEF E!WriteCycleEnds, E!Store!vars, E!Lingers, E!i2cVars, E!callerVars
<1>5. CASE E!Stop
  BY <1>5, CommitStep DEF E!Stop, E!Commit, E!Forget, E!callerVars
<1>6. CASE E!Fault
  <2>1. caller # "idle" /\ UNCHANGED <<caller, answer, op>>
    BY <1>6 DEF EepromInv, StagePart, Ended, E!Fault, E!Free, E!callerVars
  <2>2. CASE UNCHANGED mem
    BY <2>1, <2>2, QuietStep
  <2>3. CASE ~UNCHANGED mem
    BY <1>6, <2>1, <2>3, CommitStep DEF E!Fault, E!CutOff, E!Commit, E!Forget
  <2> QED
    BY <2>2, <2>3
<1>7. CASE E!Restart
  <2>1. /\ UNCHANGED op /\ caller' = "idle" /\ page' = E!NoBytes /\ sto' = FALSE /\ ~E!Lingers'
        /\ answer' = (IF answer = E!Waiting THEN E!Failed ELSE answer) /\ mem' \in {mem, E!Written}
    BY <1>7 DEF Assumed, E!Restart, E!Forget, E!Lingers
  <2>2. CASE mem' = E!Written
    BY <2>1, <2>2, CommitStep DEF EepromInv, Shape
  <2>3. CASE mem' = mem
    <3>1. CASE caller # "idle" \/ page # E!NoBytes
      <4>1. answer' = E!Failed /\ (IF E!Lingers THEN E!Waiting ELSE answer) = E!Waiting
        BY <2>1, <3>1, PageFacts DEF EepromInv, Shape, E!Lingers
      <4> QED
        BY <2>1, <2>3, <4>1, SameAnswers DEF E!Store!Next, E!Store!Fail, E!Store!Maybe
    <3>2. CASE caller = "idle" /\ page = E!NoBytes
      BY <2>1, <2>3, <3>2 DEF EepromInv, Shape, E!Store!vars, E!Lingers
    <3> QED
      BY <3>1, <3>2
  <2> QED
    BY <2>1, <2>2, <2>3
<1> QED
  BY <1>1, <1>2, <1>3, <1>4, <1>5, <1>6, <1>7 DEF E!Next, E!Events

\* A step of both parts is one of the EEPROM's or leaves it alone.
LEMMA EepromStep ==
  ASSUME Assumed, EepromInv, [BothNext]_allVars
  PROVE  EepromInv'
<1>1. CASE E!Next
  BY <1>1, EepromKeeps
<1>2. CASE UNCHANGED store
  <2>1. UNCHANGED E!vars
    BY <1>2 DEF store, E!vars, E!i2cVars, E!callVars, E!callerVars, E!chipVars, E!limitVars
  <2> QED
    BY <2>1, EepromStays
<1> QED
  BY <1>1, <1>2 DEF BothNext, allVars

\* And for the store it is a step of its own or none.
LEMMA StoreStep ==
  ASSUME Assumed, EepromInv, [BothNext]_allVars
  PROVE  [E!Store!Next]_(E!Store!vars)
<1>1. CASE E!Next
  BY <1>1, NextStores
<1>2. CASE UNCHANGED store
  <2>1. UNCHANGED <<mem, op, answer, caller, sto, page>>
    BY <1>2 DEF store
  <2> QED
    BY <2>1 DEF E!Store!vars, E!Lingers
<1> QED
  BY <1>1, <1>2 DEF BothNext, allVars

\* Driver, handler, chip and bus agree: indexes stay in their buffers, the kind
\* of chip the driver believes in is the one that is there, the engine rests
\* between calls, and after a write that succeeded the chip answers.  For any
\* calls inside the chip, any pages, faults and restarts (i2c.c, eeprom.c), with
\* the detection undisturbed.
THEOREM EepromInStepAlways ==
  ASSUME ~RoughProbe
  PROVE  BothSpec => []EepromInStep
<1>1. Assumed
  BY EepromAssumptions DEF Assumed
<1>2. BothInit => EepromInv
  BY <1>1, EepromStarts DEF BothInit
<1>3. EepromInv /\ [BothNext]_allVars => EepromInv'
  BY <1>1, EepromStep
<1>4. EepromInv => EepromInStep
  BY <1>1, EepromMeans DEF EepromInStep
<1> QED
  BY <1>2, <1>3, <1>4, PTL DEF BothSpec

\* The EEPROM behind its driver is a store: a write that succeeds has stored its
\* bytes, one that fails a first part of them, and a read that succeeds returns
\* what is stored, whatever faults and restarts cut the exchanges off.
THEOREM ImplementsStoreAlways ==
  ASSUME ~RoughProbe
  PROVE  BothSpec => ImplementsStore
<1>1. Assumed
  BY EepromAssumptions DEF Assumed
<1>2. BothInit => EepromInv /\ E!Store!Init
  BY <1>1, EepromStarts, StoreStarts DEF BothInit
<1>3. EepromInv /\ [BothNext]_allVars => EepromInv'
  BY <1>1, EepromStep
<1>4. EepromInv /\ [BothNext]_allVars => [E!Store!Next]_(E!Store!vars)
  BY <1>1, StoreStep
<1> QED
  BY <1>2, <1>3, <1>4, PTL DEF BothSpec, ImplementsStore, E!ImplementsStore, E!Store!Spec
=============================================================================
