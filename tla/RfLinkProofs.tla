---------------------------- MODULE RfLinkProofs ----------------------------
(***************************************************************************)
(* Safety of the radio link for every queue size, message size, timeout    *)
(* and amount of faults: the shape of the state (TypeInvariant) and, on    *)
(* top of it, three invariants of the protocol.  Each invariant has one    *)
(* step per action of the board, of the chip or of the air.                *)
(***************************************************************************)
EXTENDS RfLink, SequenceTheorems, TLAPS

Actions(n) ==
  \/ SendMessage(n) \/ NoLine(n) \/ ExecJob(n) \/ NoJob(n) \/ RadioStuff(n)
  \/ NoRx(n) \/ RfConfig(n) \/ HandleOther(n) \/ HandleRq(n) \/ HandleFire(n)
  \/ ClearCheckRx(n) \/ Deliver(n)
  \/ Arrive(n) \/ Lose(n) \/ Stray(n) \/ Corrupt(n)

\* Every step that is not Wake is an action of one board or of its air.
LEMMA NextIsAction == Next <=> Wake \/ \E n \in Node : Actions(n)
  BY DEF Next, Actions, Loop, Environment

-----------------------------------------------------------------------------
(* The operators the actions are built from.                               *)

\* There are exactly two boards.
LEMMA PeerIsOther ==
  ASSUME NEW n \in Node
  PROVE  Peer(n) \in Node /\ Peer(n) # n /\ Node = {n, Peer(n)}
  BY NodeAssumption DEF Peer

\* Ages saturate within their range.
LEMMA OlderInRange ==
  ASSUME NEW cap \in Nat, NEW age \in 0 .. cap
  PROVE  Older(age, cap) \in 0 .. cap
  BY DEF Older

\* The limits of the ages are naturals.
LEMMA CapsAreNat == RxAgeCap \in Nat /\ TxAgeCap \in Nat
  <1>1. WaitRx * (MaxRqAsk + 1) \in Nat
    BY TimeAssumption
  <1> QED BY <1>1, TimeAssumption DEF RxAgeCap, TxAgeCap

\* Ageing and forgetting a record keep its shape.
LEMMA RecordsKeepShape ==
  /\ \A t \in TxRec : Aged(t, TxAgeCap) \in TxRec /\ Forget(t) \in TxRec
  /\ \A r \in RxRec : Aged(r, RxAgeCap) \in RxRec /\ Forget(r) \in RxRec
                       /\ Release(r) \in RxRec
  <1>1. ASSUME NEW t \in TxRec
        PROVE  Aged(t, TxAgeCap) \in TxRec /\ Forget(t) \in TxRec
    <2>1. Older(t.age, TxAgeCap) \in 0 .. TxAgeCap
      BY OlderInRange, CapsAreNat DEF TxRec
    <2>2. 0 \in 0 .. TxAgeCap
      BY CapsAreNat
    <2> QED BY <2>1, <2>2 DEF Aged, Forget, TxRec, Addr
  <1>2. ASSUME NEW r \in RxRec
        PROVE  Aged(r, RxAgeCap) \in RxRec /\ Forget(r) \in RxRec
               /\ Release(r) \in RxRec
    <2>1. Older(r.age, RxAgeCap) \in 0 .. RxAgeCap
      BY OlderInRange, CapsAreNat DEF RxRec
    <2>2. 0 \in 0 .. RxAgeCap
      BY CapsAreNat
    <2>3. Aged(r, RxAgeCap) \in RxRec /\ Forget(r) \in RxRec
      BY <2>1, <2>2 DEF Aged, Forget, RxRec, Addr
    <2>4. [Forget(r) EXCEPT !.pack = {}, !.asked = 0] \in RxRec
      <3>1. 0 \in 0 .. MaxRqAsk
        BY TimeAssumption
      <3> QED BY <2>3, <3>1 DEF RxRec
    <2> QED BY <2>3, <2>4 DEF Release
  <1> QED BY <1>1, <1>2

\* Jobs and packets whose number names the slice they carry.
AlignedJob == {j \in Job : j.info.type = "FIRE" => j.data = j.id}
AlignedPkt == {p \in Pkt : p.type = "FIRE" => p.load.id = p.id}

\* send_message and the answer to a resend request pair each slice with its
\* number.
LEMMA SliceJobsShape ==
  ASSUME NEW t \in TxRec, NEW lo \in Nat
  PROVE  SliceJobs(t, lo) \in Seq(AlignedJob)
  <1> DEFINE k == t.nb + 1 - lo
             f(i) == [info |-> DataInfo(t), data |-> lo + i - 1, id |-> lo + i - 1]
  <1>1. t.nb \in Nat /\ k \in Int
    BY SizeAssumption DEF TxRec, Nb
  <1>2. DataInfo(t) \in Info
    BY DEF DataInfo, Info, TxRec
  <1>3. \A i \in 1 .. k : f(i) \in AlignedJob
    <2> SUFFICES ASSUME NEW i \in 1 .. k PROVE f(i) \in AlignedJob
      OBVIOUS
    <2>1. lo + i - 1 \in Nat
      BY <1>1
    <2> QED BY <1>2, <2>1 DEF Job, AlignedJob
  <1>4. SliceJobs(t, lo) = [i \in 1 .. k |-> f(i)]
    BY DEF SliceJobs
  <1>5. PICK m \in Nat : 1 .. k = 1 .. m
    <2>1. CASE k >= 0
      BY <2>1, <1>1
    <2>2. CASE k < 0
      <3>1. 1 .. k = 1 .. 0
        BY <2>2, <1>1
      <3> QED BY <3>1
    <2> QED BY <1>1, <2>1, <2>2
  <1> HIDE DEF k
  <1>6. SliceJobs(t, lo) \in [1 .. m -> AlignedJob]
    BY <1>3, <1>4, <1>5
  <1> QED BY <1>6, SeqDef, Zenon

\* A resend request and what execJob may read past a full queue are jobs.
LEMMA OtherJobsShape ==
  /\ \A a \in Addr : RqJob(a) \in AlignedJob
  /\ WildJob \in AlignedJob
  BY SizeAssumption DEF RqJob, WildJob, AlignedJob, Job, Info, Nb, Addr

\* The queue keeps its elements' kind and its size: addJob drops what does
\* not fit, execJob's shift adds a job only in the place of one it removed.
LEMMA ClipShape ==
  ASSUME NEW S, NEW q \in Seq(S)
  PROVE  Clip(q) \in Seq(S) /\ Len(Clip(q)) <= QueueSize
  <1>1. CASE Len(q) <= QueueSize
    BY <1>1 DEF Clip
  <1>2. CASE Len(q) > QueueSize
    <2>1. QueueSize \in 0 .. Len(q)
      BY <1>2, SizeAssumption, LenProperties
    <2>2. SubSeq(q, 1, QueueSize) \in Seq(S) /\ Len(SubSeq(q, 1, QueueSize)) = QueueSize
      BY <2>1, SubSeqProperties, SizeAssumption
    <2> QED BY <1>2, <2>2, SizeAssumption, LenProperties DEF Clip
  <1> QED BY <1>1, <1>2, SizeAssumption, LenProperties

LEMMA ShiftedShape ==
  ASSUME NEW S, WildJob \in S, NEW q \in Seq(S), q # <<>>, Len(q) <= QueueSize,
         NEW s \in Shifted(q)
  PROVE  s \in Seq(S) /\ Len(s) <= QueueSize
  <1>1. Tail(q) \in Seq(S) /\ Len(Tail(q)) = Len(q) - 1 /\ Len(q) \in Nat
    BY HeadTailProperties, LenProperties
  <1>2. CASE s = Tail(q)
    BY <1>1, <1>2, SizeAssumption
  <1>3. CASE Len(q) = QueueSize /\ s = Append(Tail(q), WildJob)
    <2>1. s \in Seq(S) /\ Len(s) = Len(Tail(q)) + 1
      BY <1>1, <1>3, AppendProperties
    <2> QED BY <1>1, <1>3, <2>1, SizeAssumption
  <1> QED BY <1>2, <1>3 DEF Shifted

\* send_on_rf numbers the slice it copies.
LEMMA PacketShape ==
  ASSUME NEW job \in AlignedJob, NEW buff \in Nat, NEW bits \in Nat
  PROVE  Packet(job, buff, bits) \in AlignedPkt
  <1>1. job \in Job /\ (job.info.type = "FIRE" => job.data = job.id)
    BY DEF AlignedJob
  <1>2. job.info \in Info /\ job.data \in Nat /\ job.id \in Nat
    BY <1>1 DEF Job
  <1>3. /\ job.info.type \in {"FIRE", "RQ", "WILD"} /\ job.info.count \in Nat
        /\ job.info.addr \in Addr /\ job.info.nb \in Nb /\ job.info.last \in 0 .. 3
    BY <1>2 DEF Info
  <1>4. Packet(job, buff, bits) \in Pkt
    BY <1>2, <1>3 DEF Packet, Pkt, Slice
  <1> QED BY <1>1, <1>4 DEF Packet, AlignedPkt

LEMMA StrayShape == StrayPacket \in AlignedPkt
  BY SizeAssumption DEF StrayPacket, AlignedPkt, Pkt, Nb, Addr, Slice, Blank

\* The timeouts keep the shape of the reception record.
LEMMA RxAfterTimeoutShape ==
  ASSUME NEW n \in Node, rx[n] \in RxRec
  PROVE  RxAfterTimeout(n) \in RxRec
  <1>1. Release(rx[n]) \in RxRec /\ MaxRqAsk \in Nat
    BY RecordsKeepShape, TimeAssumption
  <1>2. CASE GivesUp(n)
    <2>1. ~Asks(n)
      BY <1>1, <1>2 DEF GivesUp, Asks, RxRec
    <2> QED BY <1>1, <1>2, <2>1 DEF RxAfterTimeout
  <1>3. CASE Asks(n) /\ ~GivesUp(n)
    BY <1>1, <1>3 DEF RxAfterTimeout, RxRec, Asks
  <1>4. CASE ~Asks(n) /\ ~GivesUp(n)
    BY <1>4 DEF RxAfterTimeout
  <1> QED BY <1>2, <1>3, <1>4

\* A data packet claims a free record, is counted in it, and frees it when
\* the message is complete.
LEMMA RecordedShape ==
  ASSUME NEW n \in Node, rx[n] \in RxRec, NEW p \in Pkt
  PROVE  Recorded(n, p) \in RxRec /\ Freed(Recorded(n, p)) \in RxRec
  <1>1. Peer(n) \in Addr /\ p.count \in Nat /\ p.nb \in Nb /\ p.id \in Nat
    BY PeerIsOther DEF Addr, Pkt
  <1>2. Claimed(n, p) \in RxRec
    BY <1>1 DEF Claimed, RxRec
  <1>3. \A r \in RxRec : [r EXCEPT !.pack = @ \cup {p.id}, !.age = 0] \in RxRec
    <2>1. 0 \in 0 .. RxAgeCap
      BY CapsAreNat
    <2> QED BY <1>1, <2>1 DEF RxRec
  <1>4. Recorded(n, p) \in RxRec
    BY <1>2, <1>3 DEF Recorded
  <1>5. \A r \in RxRec : Freed(r) \in RxRec
    BY RecordsKeepShape DEF Freed
  <1> QED BY <1>4, <1>5

-----------------------------------------------------------------------------
(* The inductive invariant.  SlotsAligned alone is not inductive: the slot  *)
(* a packet fills and the slice it carries come from the packet, which got  *)
(* them from a job.  The jobs in the queue and the packets in the air and   *)
(* in the FIFOs have to pair them as well.                                  *)

LoopPart ==
  /\ pc \in [Node -> {"sleep", "uart", "job", "radio", "rx", "clear", "done"}]
  /\ faults \in 0 .. MaxFaults

TxPart ==
  /\ sent \in [Node -> Seq(Sizes)]
  /\ jobs \in [Node -> Seq(AlignedJob)]
  /\ \A n \in Node : Len(jobs[n]) <= QueueSize
  /\ sendAge \in [Node -> 0 .. SendTimeout]
  /\ tx \in [Node -> TxRec]
  /\ txBuff \in [Node -> Nat]

RxPart == RxOK /\ SlotsAligned

ChipPart ==
  /\ checkRx \in [Node -> BOOLEAN]
  /\ chip \in [Node -> {"idle", "rx", "overflow"}]
  /\ deaf \in [Node -> 0 .. DeafLoops]
  /\ fifo \in [Node -> Seq(AlignedPkt)]

AirPart == air \in [Node -> Seq(AlignedPkt)]

IInv == LoopPart /\ TxPart /\ RxPart /\ ChipPart /\ AirPart

\* The invariant gives the two properties it is made for.
LEMMA IInvImplies == IInv => TypeOK /\ SlotsAligned
  <1>1. Seq(AlignedJob) \subseteq Seq(Job)
    BY SeqMonotonic DEF AlignedJob
  <1>2. Seq(AlignedPkt) \subseteq Seq(Pkt)
    BY SeqMonotonic DEF AlignedPkt
  <1>3. IInv => TxOK
    BY <1>1 DEF IInv, TxPart, TxOK
  <1>4. IInv => ChipOK /\ air \in [Node -> Seq(Pkt)]
    BY <1>2 DEF IInv, ChipPart, AirPart, ChipOK
  <1> QED BY <1>3, <1>4 DEF IInv, LoopPart, RxPart, TypeOK

\* A part whose variables do not change stays true.
LEMMA PartsUnchanged ==
  /\ TxPart /\ UNCHANGED txVars => TxPart'
  /\ RxPart /\ UNCHANGED rxVars => RxPart'
  /\ ChipPart /\ UNCHANGED chipVars => ChipPart'
  /\ AirPart /\ UNCHANGED air => AirPart'
  <1>1. TxPart /\ UNCHANGED txVars => TxPart'
    BY DEF TxPart, txVars
  <1>2. RxPart /\ UNCHANGED rxVars => RxPart'
    BY DEF RxPart, RxOK, SlotsAligned, rxVars
  <1>3. ChipPart /\ UNCHANGED chipVars => ChipPart'
    BY DEF ChipPart, chipVars
  <1>4. AirPart /\ UNCHANGED air => AirPart'
    BY DEF AirPart
  <1> QED BY <1>1, <1>2, <1>3, <1>4

\* Initially nothing is queued, buffered or in the air.
LEMMA InitEstablishes == Init => IInv
  <1> SUFFICES ASSUME Init PROVE IInv
    OBVIOUS
  <1>1. LoopPart
    BY AirAssumption DEF Init, LoopPart
  <1>2. TxPart
    <2>1. [count |-> 0, addr |-> None, nb |-> 0, last |-> 0, age |-> 0] \in TxRec
      BY CapsAreNat, SizeAssumption DEF TxRec, Nb, Addr
    <2>2. << >> \in Seq(Sizes) /\ << >> \in Seq(AlignedJob) /\ Len(<< >>) = 0
      BY EmptySeq
    <2> QED BY <2>1, <2>2, TimeAssumption, SizeAssumption DEF Init, TxPart
  <1>3. RxPart
    <2>1. [count |-> 0, addr |-> None, nb |-> 0, pack |-> {}, asked |-> 0,
           age |-> 0] \in RxRec
      BY CapsAreNat, SizeAssumption, TimeAssumption DEF RxRec, Nb, Addr
    <2>2. BlankBuff \in [Nb -> Slice] /\ \A i \in Nb : BlankBuff[i] = Blank
      BY DEF BlankBuff, Nb, Slice, Blank
    <2>3. << >> \in Seq(Slice) /\ DOMAIN << >> = {} /\ 0 \in Nb
      BY EmptySeq, SizeAssumption DEF Nb
    <2>4. RxOK
      BY <2>1, <2>2, <2>3 DEF Init, RxOK
    <2>5. SlotsAligned
      BY <2>2, <2>3 DEF Init, SlotsAligned, InPlace, Nb
    <2> QED BY <2>4, <2>5 DEF RxPart
  <1>4. ChipPart /\ AirPart
    <2>1. << >> \in Seq(AlignedPkt)
      BY EmptySeq
    <2> QED BY <2>1, TimeAssumption DEF Init, ChipPart, AirPart
  <1> QED BY <1>1, <1>2, <1>3, <1>4 DEF IInv

-----------------------------------------------------------------------------
(* One lemma per action that does more than move on.                       *)

LEMMA WakeStep == IInv /\ Wake => IInv'
  <1> SUFFICES ASSUME IInv, Wake PROVE IInv'
    OBVIOUS
  <1> USE DEF IInv, Wake
  <1>1. LoopPart'
    BY DEF LoopPart
  <1>2. TxPart'
    <2>1. \A n \in Node : Older(sendAge[n], SendTimeout) \in 0 .. SendTimeout
      BY OlderInRange, TimeAssumption DEF TxPart
    <2>2. \A n \in Node : Aged(tx[n], TxAgeCap) \in TxRec
      BY RecordsKeepShape DEF TxPart
    <2> QED BY <2>1, <2>2 DEF TxPart
  <1>3. RxPart'
    <2>1. \A n \in Node : Aged(rx[n], RxAgeCap) \in RxRec
      BY RecordsKeepShape DEF RxPart, RxOK
    <2>2. RxOK'
      BY <2>1 DEF RxPart, RxOK
    <2>3. SlotsAligned'
      BY DEF RxPart, SlotsAligned
    <2> QED BY <2>2, <2>3 DEF RxPart
  <1>4. ChipPart' /\ AirPart'
    BY PartsUnchanged
  <1> QED BY <1>1, <1>2, <1>3, <1>4

\* Actions that only move the loop on.
LEMMA MoveStep ==
  ASSUME IInv, NEW n \in Node, NoLine(n) \/ NoJob(n) \/ NoRx(n)
  PROVE  IInv'
  <1>1. LoopPart'
    BY DEF IInv, LoopPart, NoLine, NoJob, NoRx, Goto
  <1>2. UNCHANGED <<txVars, rxVars, chipVars, air>>
    BY DEF NoLine, NoJob, NoRx
  <1> QED BY <1>1, <1>2, PartsUnchanged DEF IInv

LEMMA SendMessageStep ==
  ASSUME IInv, NEW n \in Node, SendMessage(n)
  PROVE  IInv'
  <1>1. LoopPart'
    BY DEF IInv, LoopPart, SendMessage, Goto
  <1>2. PICK s \in Sizes :
          LET k == Len(sent[n]) + 1
              t == [count |-> k, addr |-> Peer(n), nb |-> s.nb,
                    last |-> s.last, age |-> 0]
          IN  /\ sent' = [sent EXCEPT ![n] = Append(@, s)]
              /\ txBuff' = [txBuff EXCEPT ![n] = k]
              /\ tx' = [tx EXCEPT ![n] = t]
              /\ jobs' = [jobs EXCEPT ![n] = Clip(@ \o SliceJobs(t, 0))]
    BY DEF SendMessage
  <1> DEFINE k == Len(sent[n]) + 1
             t == [count |-> k, addr |-> Peer(n), nb |-> s.nb,
                   last |-> s.last, age |-> 0]
  <1>3. sent[n] \in Seq(Sizes) /\ k \in Nat
    BY LenProperties DEF IInv, TxPart
  <1>4. t \in TxRec
    <2>1. s.nb \in Nb /\ s.last \in 0 .. 3
      BY SizeAssumption DEF Nb
    <2>2. Peer(n) \in Addr /\ 0 \in 0 .. TxAgeCap
      BY PeerIsOther, CapsAreNat DEF Addr
    <2> QED BY <1>3, <2>1, <2>2 DEF TxRec
  <1> DEFINE q == jobs[n] \o SliceJobs(t, 0)
  <1>5. q \in Seq(AlignedJob)
    BY <1>4, SliceJobsShape, ConcatProperties DEF IInv, TxPart
  <1>6. Clip(q) \in Seq(AlignedJob) /\ Len(Clip(q)) <= QueueSize
    BY <1>5, ClipShape
  <1>7. Append(sent[n], s) \in Seq(Sizes)
    BY <1>3, AppendProperties
  <1>8. /\ sent' = [sent EXCEPT ![n] = Append(sent[n], s)]
        /\ txBuff' = [txBuff EXCEPT ![n] = k]
        /\ tx' = [tx EXCEPT ![n] = t]
        /\ jobs' = [jobs EXCEPT ![n] = Clip(q)]
        /\ sendAge' = sendAge
    BY <1>2 DEF SendMessage
  <1> HIDE DEF k, t, q
  <1>9. TxPart'
    BY <1>3, <1>4, <1>6, <1>7, <1>8 DEF IInv, TxPart
  <1>10. RxPart' /\ ChipPart' /\ AirPart'
    BY PartsUnchanged DEF IInv, SendMessage
  <1> QED BY <1>1, <1>9, <1>10 DEF IInv

LEMMA ExecJobStep ==
  ASSUME IInv, NEW n \in Node, ExecJob(n)
  PROVE  IInv'
  <1>1. LoopPart'
    BY DEF IInv, LoopPart, ExecJob, Goto
  <1>2. jobs[n] \in Seq(AlignedJob) /\ jobs[n] # <<>> /\ Len(jobs[n]) <= QueueSize
    BY DEF IInv, TxPart, ExecJob, JobReady
  <1>3. Head(jobs[n]) \in AlignedJob
    BY <1>2, HeadTailProperties
  <1>4. TxPart'
    <2>1. PICK q \in Shifted(jobs[n]) : jobs' = [jobs EXCEPT ![n] = q]
      BY DEF ExecJob
    <2>2. q \in Seq(AlignedJob) /\ Len(q) <= QueueSize
      BY <1>2, OtherJobsShape, ShiftedShape
    <2>3. sendAge' = [sendAge EXCEPT ![n] = 0] /\ UNCHANGED <<sent, tx, txBuff>>
      BY DEF ExecJob
    <2> QED BY <2>1, <2>2, <2>3, TimeAssumption DEF IInv, TxPart
  <1>5. ChipPart'
    <2>1. << >> \in Seq(AlignedPkt)
      BY EmptySeq
    <2> QED BY <2>1 DEF IInv, ChipPart, ExecJob
  <1>6. AirPart'
    <2>1. PICK bits \in Garbage(Head(jobs[n])) :
            air' = [air EXCEPT ![n] =
                      <<Packet(Head(jobs[n]), txBuff[n], bits)>>]
      BY DEF ExecJob
    <2>2. bits \in Nat
      BY AirAssumption DEF Garbage
    <2>3. txBuff[n] \in Nat
      BY DEF IInv, TxPart
    <2> DEFINE p == Packet(Head(jobs[n]), txBuff[n], bits)
    <2>4. p \in AlignedPkt
      BY <1>3, <2>2, <2>3, PacketShape
    <2> HIDE DEF p
    <2>5. <<p>> \in Seq(AlignedPkt)
      BY <2>4
    <2> QED BY <2>1, <2>5 DEF p, IInv, AirPart
  <1>7. RxPart'
    BY PartsUnchanged DEF IInv, ExecJob
  <1> QED BY <1>1, <1>4, <1>5, <1>6, <1>7 DEF IInv

LEMMA RadioStuffStep ==
  ASSUME IInv, NEW n \in Node, RadioStuff(n)
  PROVE  IInv'
  <1>1. LoopPart'
    BY DEF IInv, LoopPart, RadioStuff, Goto
  <1>2. TxPart'
    <2>1. rx[n].addr \in Addr /\ jobs[n] \in Seq(AlignedJob)
      BY DEF IInv, RxPart, RxOK, RxRec, TxPart
    <2> DEFINE q == Append(jobs[n], RqJob(rx[n].addr))
    <2>2. q \in Seq(AlignedJob)
      BY <2>1, OtherJobsShape, AppendProperties
    <2>3. Clip(q) \in Seq(AlignedJob) /\ Len(Clip(q)) <= QueueSize
      BY <2>2, ClipShape
    <2>4. jobs' = [jobs EXCEPT ![n] = IF Asks(n) THEN Clip(q) ELSE jobs[n]]
      BY DEF RadioStuff
    <2> HIDE DEF q
    <2>5. \A t \in TxRec : Forget(t) \in TxRec
      BY RecordsKeepShape
    <2>6. tx' = [tx EXCEPT ![n] = IF TxExpired(n) THEN Forget(tx[n]) ELSE tx[n]]
      BY DEF RadioStuff
    <2>7. UNCHANGED <<sent, sendAge, txBuff>>
      BY DEF RadioStuff
    <2> QED BY <2>3, <2>4, <2>5, <2>6, <2>7 DEF IInv, TxPart
  <1>3. RxPart'
    <2>1. RxAfterTimeout(n) \in RxRec
      BY RxAfterTimeoutShape DEF IInv, RxPart, RxOK
    <2>2. RxOK'
      BY <2>1 DEF IInv, RxPart, RxOK, RadioStuff
    <2>3. SlotsAligned'
      BY DEF IInv, RxPart, SlotsAligned, RadioStuff
    <2> QED BY <2>2, <2>3 DEF RxPart
  <1>4. ChipPart'
    <2>1. << >> \in Seq(AlignedPkt)
      BY EmptySeq
    <2>2. deaf[n] \in 0 .. DeafLoops /\ DeafLoops \in Nat
      BY TimeAssumption DEF IInv, ChipPart
    <2>3. deaf' \in [Node -> 0 .. DeafLoops]
      BY <2>2 DEF IInv, ChipPart, RadioStuff, WatchChip
    <2>4. /\ chip' \in [Node -> {"idle", "rx", "overflow"}]
          /\ fifo' \in [Node -> Seq(AlignedPkt)]
      BY <2>1 DEF IInv, ChipPart, RadioStuff, WatchChip
    <2>5. checkRx' \in [Node -> BOOLEAN]
      BY DEF IInv, ChipPart, RadioStuff
    <2> QED BY <2>3, <2>4, <2>5 DEF ChipPart
  <1>5. AirPart'
    BY PartsUnchanged DEF IInv, RadioStuff
  <1> QED BY <1>1, <1>2, <1>3, <1>4, <1>5 DEF IInv

LEMMA RfConfigStep ==
  ASSUME IInv, NEW n \in Node, RfConfig(n)
  PROVE  IInv'
  <1>1. LoopPart'
    BY DEF IInv, LoopPart, RfConfig, Goto
  <1>2. TxPart'
    <2>1. << >> \in Seq(AlignedJob) /\ Len(<< >>) <= QueueSize
      BY EmptySeq, SizeAssumption
    <2> QED BY <2>1 DEF IInv, TxPart, RfConfig
  <1>3. RxPart'
    <2>1. Forget(rx[n]) \in RxRec
      BY RecordsKeepShape DEF IInv, RxPart, RxOK
    <2>2. RxOK'
      BY <2>1 DEF IInv, RxPart, RxOK, RfConfig
    <2>3. SlotsAligned'
      BY DEF IInv, RxPart, SlotsAligned, RfConfig
    <2> QED BY <2>2, <2>3 DEF RxPart
  <1>4. ChipPart' /\ AirPart'
    BY DEF IInv, ChipPart, AirPart, RfConfig
  <1> QED BY <1>1, <1>2, <1>3, <1>4 DEF IInv

\* What the three handlers of a received packet share: the packet is well
\* formed and the rest of the FIFO stays so.
LEMMA TakePacketStep ==
  ASSUME IInv, NEW n \in Node, TakePacket(n)
  PROVE  /\ LoopPart' /\ ChipPart' /\ AirPart'
         /\ Head(fifo[n]) \in AlignedPkt /\ Head(fifo[n]) \in Pkt
         /\ UNCHANGED <<sent, sendAge, tx, txBuff, out>>
  <1>1. LoopPart'
    BY DEF IInv, LoopPart, TakePacket, Goto
  <1>2. fifo[n] \in Seq(AlignedPkt) /\ fifo[n] # <<>>
    BY DEF IInv, ChipPart, TakePacket
  <1>3. Head(fifo[n]) \in AlignedPkt /\ Tail(fifo[n]) \in Seq(AlignedPkt)
        /\ << >> \in Seq(AlignedPkt)
    BY <1>2, HeadTailProperties, EmptySeq
  <1>4. ChipPart'
    BY <1>3 DEF IInv, ChipPart, TakePacket
  <1>5. AirPart'
    BY DEF IInv, AirPart, TakePacket
  <1>6. Head(fifo[n]) \in Pkt
    BY <1>3 DEF AlignedPkt
  <1> QED BY <1>1, <1>3, <1>4, <1>5, <1>6 DEF TakePacket

LEMMA HandleOtherStep ==
  ASSUME IInv, NEW n \in Node, HandleOther(n)
  PROVE  IInv'
  <1>1. LoopPart' /\ ChipPart' /\ AirPart' /\ UNCHANGED <<txVars, rxVars>>
    BY TakePacketStep DEF HandleOther, txVars, rxVars
  <1> QED BY <1>1, PartsUnchanged DEF IInv

LEMMA HandleRqStep ==
  ASSUME IInv, NEW n \in Node, HandleRq(n)
  PROVE  IInv'
  <1> DEFINE p == Head(fifo[n])
             q == jobs[n] \o SliceJobs(tx[n], p.bits)
  <1>1. /\ LoopPart' /\ ChipPart' /\ AirPart' /\ p \in Pkt
        /\ UNCHANGED <<sent, sendAge, tx, txBuff, out>>
    BY TakePacketStep DEF HandleRq
  <1>2. p.bits \in Nat
    BY <1>1 DEF Pkt
  <1>3. jobs[n] \in Seq(AlignedJob) /\ tx[n] \in TxRec
    BY DEF IInv, TxPart
  <1>4. q \in Seq(AlignedJob)
    BY <1>2, <1>3, SliceJobsShape, ConcatProperties
  <1>5. Clip(q) \in Seq(AlignedJob) /\ Len(Clip(q)) <= QueueSize
    BY <1>4, ClipShape
  <1>6. jobs' = [jobs EXCEPT ![n] = Clip(q)]
    BY DEF HandleRq
  <1>7. UNCHANGED rxVars
    BY <1>1 DEF HandleRq, rxVars
  <1> HIDE DEF p, q
  <1>8. TxPart'
    BY <1>1, <1>5, <1>6 DEF IInv, TxPart
  <1> QED BY <1>1, <1>7, <1>8, PartsUnchanged DEF IInv

\* The slot a data packet fills is the one its slice belongs in.
LEMMA HandleFireStep ==
  ASSUME IInv, NEW n \in Node, HandleFire(n)
  PROVE  IInv'
  <1> DEFINE p == Head(fifo[n])
             r == Recorded(n, p)
  <1>1. /\ LoopPart' /\ ChipPart' /\ AirPart' /\ p \in Pkt /\ p \in AlignedPkt
        /\ UNCHANGED <<sent, sendAge, tx, txBuff, out>>
    BY TakePacketStep DEF HandleFire
  <1>2. UNCHANGED txVars
    BY <1>1 DEF HandleFire, txVars
  <1>3. p.load \in Slice /\ p.load.id = p.id /\ p.nb \in Nb
    BY <1>1 DEF HandleFire, Pkt, AlignedPkt
  <1>4. rx[n] \in RxRec
    BY DEF IInv, RxPart, RxOK
  <1>5. Freed(r) \in RxRec
    BY <1>1, <1>4, RecordedShape
  <1>6. /\ rxBuff' = [rxBuff EXCEPT ![n][p.id] = p.load]
        /\ rx' = [rx EXCEPT ![n] = Freed(r)]
        /\ hdrNb' = [hdrNb EXCEPT ![n] = IF Complete(r) THEN p.nb ELSE hdrNb[n]]
        /\ rxDone' = [rxDone EXCEPT ![n] = Complete(r)]
    BY DEF HandleFire
  <1> HIDE DEF p, r
  <1>7. RxOK'
    <2>1. rxBuff' \in [Node -> [Nb -> Slice]]
      BY <1>3, <1>6 DEF IInv, RxPart, RxOK
    <2>2. Complete(r) \in BOOLEAN
      BY DEF Complete
    <2>3. rxDone' \in [Node -> BOOLEAN]
      BY <1>6, <2>2 DEF IInv, RxPart, RxOK
    <2>4. hdrNb' \in [Node -> Nb] /\ rx' \in [Node -> RxRec]
      BY <1>3, <1>5, <1>6 DEF IInv, RxPart, RxOK
    <2> QED BY <1>1, <2>1, <2>3, <2>4 DEF IInv, RxPart, RxOK
  <1>8. SlotsAligned'
    <2>1. \A m \in Node : \A i \in 0 .. MaxNb : InPlace(rxBuff'[m][i], i)
      <3> SUFFICES ASSUME NEW m \in Node, NEW i \in 0 .. MaxNb
                   PROVE  InPlace(rxBuff'[m][i], i)
        OBVIOUS
      <3>1. InPlace(rxBuff[m][i], i) /\ rxBuff \in [Node -> [0 .. MaxNb -> Slice]]
        BY DEF IInv, RxPart, RxOK, SlotsAligned, Nb
      <3>2. rxBuff'[m][i] = rxBuff[m][i] \/ (i = p.id /\ rxBuff'[m][i] = p.load)
        BY <1>6, <3>1
      <3> QED BY <1>3, <3>1, <3>2 DEF InPlace
    <2> QED BY <1>1, <2>1 DEF IInv, RxPart, SlotsAligned
  <1> QED BY <1>1, <1>2, <1>7, <1>8, PartsUnchanged DEF IInv, RxPart

LEMMA ClearCheckRxStep ==
  ASSUME IInv, NEW n \in Node, ClearCheckRx(n)
  PROVE  IInv'
  <1>1. LoopPart'
    BY DEF IInv, LoopPart, ClearCheckRx, Goto
  <1>2. ChipPart'
    BY DEF IInv, ChipPart, ClearCheckRx
  <1>3. TxPart' /\ RxPart' /\ AirPart'
    BY PartsUnchanged DEF IInv, ClearCheckRx
  <1> QED BY <1>1, <1>2, <1>3 DEF IInv

LEMMA DeliverStep ==
  ASSUME IInv, NEW n \in Node, Deliver(n)
  PROVE  IInv'
  <1>1. LoopPart'
    BY DEF IInv, LoopPart, Deliver, Goto
  <1> DEFINE k == hdrNb[n] + 1
             o == [i \in 1 .. k |-> rxBuff[n][i - 1]]
  <1>2. k \in Nat /\ \A i \in 1 .. k : i - 1 \in 0 .. MaxNb
    BY SizeAssumption DEF IInv, RxPart, RxOK, Nb
  <1>3. o \in Seq(Slice) /\ DOMAIN o = 1 .. k
    <2>1. o \in [1 .. k -> Slice]
      BY <1>2 DEF IInv, RxPart, RxOK, Nb
    <2> HIDE DEF o, k
    <2> QED BY <1>2, <2>1, SeqDef
  <1>4. \A i \in 1 .. k : InPlace(o[i], i - 1)
    BY <1>2 DEF IInv, RxPart, SlotsAligned
  <1>5. BlankBuff \in [Nb -> Slice] /\ \A i \in 0 .. MaxNb : BlankBuff[i] = Blank
    BY DEF BlankBuff, Nb, Slice, Blank
  <1>6. /\ out' = [out EXCEPT ![n] = o]
        /\ rxBuff' = [rxBuff EXCEPT ![n] = BlankBuff]
        /\ rxDone' = [rxDone EXCEPT ![n] = FALSE]
        /\ UNCHANGED <<rx, hdrNb>>
    BY DEF Deliver
  <1> HIDE DEF o, k
  <1>7. RxOK'
    BY <1>3, <1>5, <1>6 DEF IInv, RxPart, RxOK
  <1>8. SlotsAligned'
    <2>1. \A m \in Node : \A i \in 0 .. MaxNb : InPlace(rxBuff'[m][i], i)
      BY <1>5, <1>6 DEF IInv, RxPart, RxOK, SlotsAligned, InPlace
    <2>2. \A m \in Node : \A i \in DOMAIN out'[m] : InPlace(out'[m][i], i - 1)
      BY <1>3, <1>4, <1>6 DEF IInv, RxPart, RxOK, SlotsAligned
    <2> QED BY <2>1, <2>2 DEF SlotsAligned
  <1>9. TxPart' /\ ChipPart' /\ AirPart'
    BY PartsUnchanged DEF IInv, Deliver
  <1> QED BY <1>1, <1>7, <1>8, <1>9 DEF IInv, RxPart

\* The chip stores a packet or leaves the FIFO as it is.
LEMMA ReceiveStep ==
  ASSUME ChipPart, NEW n \in Node, NEW p \in AlignedPkt, Receive(n, p),
         UNCHANGED deaf
  PROVE  ChipPart'
  <1>1. Append(fifo[n], p) \in Seq(AlignedPkt)
    BY AppendProperties DEF ChipPart
  <1>2. fifo' \in [Node -> Seq(AlignedPkt)]
    BY <1>1 DEF ChipPart, Receive
  <1>3. chip' \in [Node -> {"idle", "rx", "overflow"}]
    BY DEF ChipPart, Receive
  <1>4. Room(fifo[n], p) \in BOOLEAN
    BY DEF Room
  <1>5. checkRx' \in [Node -> BOOLEAN]
    BY <1>4 DEF ChipPart, Receive, GdoRises
  <1> QED BY <1>2, <1>3, <1>5 DEF ChipPart

LEMMA AirStep ==
  ASSUME IInv, NEW n \in Node, Arrive(n) \/ Lose(n) \/ Stray(n) \/ Corrupt(n)
  PROVE  IInv'
  <1>1. << >> \in Seq(AlignedPkt) /\ Peer(n) \in Node
    BY EmptySeq, PeerIsOther
  <1>2. LoopPart'
    BY AirAssumption
    DEF IInv, LoopPart, Arrive, Lose, Stray, Corrupt, Fault
  <1>3. TxPart' /\ RxPart'
    BY PartsUnchanged DEF IInv, Arrive, Lose, Stray, Corrupt
  <1>4. AirPart'
    BY <1>1 DEF IInv, AirPart, Arrive, Lose, Stray, Corrupt
  <1>5. ChipPart'
    <2>1. CASE Arrive(n)
      <3>1. air[Peer(n)] \in Seq(AlignedPkt) /\ air[Peer(n)] # <<>>
        BY <1>1, <2>1 DEF IInv, AirPart, Arrive
      <3>2. Head(air[Peer(n)]) \in AlignedPkt
        BY <3>1, HeadTailProperties
      <3> QED BY <2>1, <3>2, ReceiveStep DEF IInv, Arrive
    <2>2. CASE Lose(n)
      BY <2>2, PartsUnchanged DEF IInv, Lose
    <2>3. CASE Stray(n)
      BY <2>3, StrayShape, ReceiveStep DEF IInv, Stray
    <2>4. CASE Corrupt(n)
      BY <1>1, <2>4 DEF IInv, ChipPart, Corrupt
    <2> QED BY <2>1, <2>2, <2>3, <2>4
  <1> QED BY <1>2, <1>3, <1>4, <1>5 DEF IInv

\* Every step keeps the invariant.
LEMMA NextPreserves == IInv /\ [Next]_vars => IInv'
  <1> SUFFICES ASSUME IInv, [Next]_vars PROVE IInv'
    OBVIOUS
  <1>1. CASE Wake
    BY <1>1, WakeStep
  <1>2. ASSUME NEW n \in Node, Actions(n) PROVE IInv'
    BY <1>2, SendMessageStep, MoveStep, ExecJobStep, RadioStuffStep,
       RfConfigStep, HandleOtherStep, HandleRqStep, HandleFireStep,
       ClearCheckRxStep, DeliverStep, AirStep
    DEF Actions
  <1>3. CASE UNCHANGED vars
    <2>1. LoopPart'
      BY <1>3 DEF IInv, LoopPart, vars
    <2> QED BY <1>3, <2>1, PartsUnchanged DEF IInv, vars
  <1> QED BY <1>1, <1>2, <1>3, NextIsAction

\* The inductive invariant holds in every reachable state.
THEOREM Invariant == Spec => []IInv
  BY InitEstablishes, NextPreserves, PTL DEF Spec

\* The state keeps its shape whatever is typed, lost, corrupted or mixed in:
\* the queue never outgrows jobs[] and no packet count the buffers, ages and
\* resend requests stay within their limits.
THEOREM TypeInvariant == Spec => []TypeOK
  BY Invariant, IInvImplies, PTL

\* No slot of the reassembly buffer and no place of a printed message ever
\* holds a slice that belongs in another one.
THEOREM SlotsStayAligned == Spec => []SlotsAligned
  BY Invariant, IInvImplies, PTL

-----------------------------------------------------------------------------
(* Three more properties: two invariants, inductive once the shape of the  *)
(* state is known, and what no step may do.                                *)

\* Releasing a record leaves it without a peer.
LEMMA ReleasedHasNoPeer ==
  \A r \in RxRec : Release(r).addr = None /\ Forget(r).addr = None
  BY DEF Release, Forget, RxRec

\* Time and timeouts neither add a packet to a reception nor give a free
\* record a peer.
LEMMA ReceptionKept ==
  /\ \A r \in RxRec : /\ Aged(r, RxAgeCap).addr = r.addr
                      /\ Complete(Aged(r, RxAgeCap)) = Complete(r)
  /\ \A n \in Node : rx[n] \in RxRec =>
       \/ RxAfterTimeout(n).addr = None
       \/ /\ RxAfterTimeout(n).addr = rx[n].addr
          /\ Complete(RxAfterTimeout(n)) = Complete(rx[n])
  <1>1. \A r \in RxRec : /\ Aged(r, RxAgeCap).addr = r.addr
                         /\ Complete(Aged(r, RxAgeCap)) = Complete(r)
    BY DEF Aged, RxRec, Complete
  <1>2. ASSUME NEW n \in Node, rx[n] \in RxRec
        PROVE  \/ RxAfterTimeout(n).addr = None
               \/ /\ RxAfterTimeout(n).addr = rx[n].addr
                  /\ Complete(RxAfterTimeout(n)) = Complete(rx[n])
    <2>1. Release(rx[n]).addr = None
      BY <1>2, ReleasedHasNoPeer
    <2>2. LET r == [rx[n] EXCEPT !.asked = @ + 1]
          IN  r.addr = rx[n].addr /\ Complete(r) = Complete(rx[n])
      BY <1>2 DEF RxRec, Complete
    <2>3. \/ RxAfterTimeout(n) = Release(rx[n])
          \/ RxAfterTimeout(n) = [rx[n] EXCEPT !.asked = @ + 1]
          \/ RxAfterTimeout(n) = rx[n]
      BY DEF RxAfterTimeout
    <2> QED BY <2>1, <2>2, <2>3
  <1> QED BY <1>1, <1>2

\* messageDone frees the record in the handler of the packet that completes
\* the message, so no timeout can ask for a message that is complete.
THEOREM NeverAsksForComplete == Spec => []InProgressIncomplete
  <1>1. Init => InProgressIncomplete
    BY DEF Init, InProgressIncomplete
  <1>2. TypeOK /\ InProgressIncomplete /\ [Next]_vars => InProgressIncomplete'
    <2> SUFFICES ASSUME TypeOK, InProgressIncomplete, [Next]_vars,
                        NEW m \in Node, rx'[m].addr # None
                 PROVE  ~Complete(rx'[m])
      BY DEF InProgressIncomplete
    <2>1. rx \in [Node -> RxRec] /\ rx[m] \in RxRec
      BY DEF TypeOK, RxOK
    <2>2. rx[m].addr # None => ~Complete(rx[m])
      BY DEF InProgressIncomplete
    <2>3. CASE UNCHANGED rx
      BY <2>2, <2>3
    <2>4. CASE Wake
      <3>1. rx'[m] = Aged(rx[m], RxAgeCap)
        BY <2>4 DEF Wake
      <3> QED BY <2>1, <2>2, <3>1, ReceptionKept
    <2>5. ASSUME NEW n \in Node, RadioStuff(n) PROVE ~Complete(rx'[m])
      <3>1. rx'[m] = rx[m] \/ rx'[m] = RxAfterTimeout(m)
        BY <2>1, <2>5 DEF RadioStuff
      <3> QED BY <2>1, <2>2, <3>1, ReceptionKept
    <2>6. ASSUME NEW n \in Node, RfConfig(n) PROVE ~Complete(rx'[m])
      <3>1. rx'[m] = rx[m] \/ rx'[m] = Forget(rx[m])
        BY <2>1, <2>6 DEF RfConfig
      <3> QED BY <2>1, <2>2, <3>1, ReleasedHasNoPeer
    <2>7. ASSUME NEW n \in Node, HandleFire(n) PROVE ~Complete(rx'[m])
      <3> DEFINE r == Recorded(n, Head(fifo[n]))
      <3>1. CASE m # n
        BY <2>1, <2>2, <2>7, <3>1 DEF HandleFire
      <3>2. CASE m = n
        <4>1. fifo[n] \in Seq(Pkt) /\ fifo[n] # <<>>
          BY <2>7 DEF HandleFire, TakePacket, TypeOK, ChipOK
        <4>2. Head(fifo[n]) \in Pkt
          BY <4>1, HeadTailProperties
        <4>3. r \in RxRec
          BY <2>1, <3>2, <4>2, RecordedShape
        <4>4. rx'[m] = Freed(r)
          BY <2>1, <2>7, <3>2 DEF HandleFire
        <4> HIDE DEF r
        <4>5. Freed(r).addr = None \/ (Freed(r) = r /\ ~Complete(r))
          BY <4>3, ReleasedHasNoPeer DEF Freed
        <4> QED BY <4>4, <4>5
      <3> QED BY <3>1, <3>2
    <2>8. ASSUME NEW n \in Node, Actions(n)
          PROVE  UNCHANGED rx \/ RadioStuff(n) \/ RfConfig(n) \/ HandleFire(n)
      BY <2>8 DEF Actions, SendMessage, NoLine, ExecJob, NoJob, NoRx,
         HandleOther, HandleRq, ClearCheckRx, Deliver, Arrive, Lose, Stray,
         Corrupt, rxVars
    <2> QED BY <2>3, <2>4, <2>5, <2>6, <2>7, <2>8, NextIsAction DEF vars, rxVars
  <1> QED BY <1>1, <1>2, TypeInvariant, PTL DEF Spec

\* The loop never gives the chip a packet while it still transmits one.
THEOREM OneAtATime == Spec => []OneTransmission
  <1>1. Init => OneTransmission
    BY DEF Init, OneTransmission
  <1>2. TypeOK /\ OneTransmission /\ [Next]_vars => OneTransmission'
    <2> SUFFICES ASSUME TypeOK, OneTransmission, [Next]_vars
                 PROVE  OneTransmission'
      OBVIOUS
    <2> USE DEF OneTransmission, At
    <2>1. pc \in [Node -> {"sleep", "uart", "job", "radio", "rx", "clear", "done"}]
          /\ air \in [Node -> Seq(Pkt)]
      BY DEF TypeOK
    <2>2. CASE Wake
      BY <2>1, <2>2 DEF Wake
    <2>3. CASE UNCHANGED vars
      BY <2>3 DEF vars
    <2>4. ASSUME NEW n \in Node, Actions(n) PROVE OneTransmission'
      <3>1. CASE \/ SendMessage(n) \/ NoLine(n) \/ NoJob(n) \/ NoRx(n)
                 \/ RfConfig(n) \/ ClearCheckRx(n) \/ Deliver(n)
        BY <2>1, <3>1 DEF SendMessage, NoLine, NoJob, NoRx, RfConfig,
           ClearCheckRx, Deliver, Goto
      <3>2. CASE HandleOther(n) \/ HandleRq(n) \/ HandleFire(n)
        BY <2>1, <3>2 DEF HandleOther, HandleRq, HandleFire, TakePacket, Goto
      <3>3. CASE ExecJob(n)
        BY <2>1, <3>3 DEF ExecJob, Goto
      <3>4. CASE RadioStuff(n)
        BY <2>1, <3>4 DEF RadioStuff, TxOver, Goto
      <3>5. CASE Arrive(n) \/ Lose(n) \/ Stray(n) \/ Corrupt(n)
        BY <2>1, <3>5, PeerIsOther DEF Arrive, Lose, Stray, Corrupt
      <3> QED BY <2>4, <3>1, <3>2, <3>3, <3>4, <3>5 DEF Actions
    <2> QED BY <2>2, <2>3, <2>4, NextIsAction
  <1> QED BY <1>1, <1>2, TypeInvariant, PTL DEF Spec

\* The receiver of rf.c and its chip stay in step: a board never asks for a
\* message it has complete, and never writes the FIFO of a chip that sends.
THEOREM ReceiverAndChip == Spec => []ReceiverAndChipAgree
  BY NeverAsksForComplete, OneAtATime, PTL DEF ReceiverAndChipAgree

\* radio_stuff drops a reception only after every resend request it may make
\* and the full wait after the last one; nothing but a restart of the radio
\* drops one earlier.
THEOREM AbandonsLate == Spec => AbandonedLate
  <1>1. TypeOK /\ [Next]_vars => \A n \in Node : DropsOnlyLate(n)
    <2> SUFFICES ASSUME TypeOK, [Next]_vars, NEW m \in Node,
                        rx[m].addr # None, rx'[m].addr = None, ~rxDone'[m]
                 PROVE  \/ RfConfig(m)
                        \/ /\ rx[m].age > WaitRx * (MaxRqAsk + 1)
                           /\ rx[m].asked = MaxRqAsk
      BY DEF DropsOnlyLate
    <2> DEFINE Late == \/ RfConfig(m)
                       \/ /\ rx[m].age > WaitRx * (MaxRqAsk + 1)
                          /\ rx[m].asked = MaxRqAsk
    <2>1. rx \in [Node -> RxRec] /\ rx[m] \in RxRec
      BY DEF TypeOK, RxOK
    <2>2. ~ UNCHANGED rx
      OBVIOUS
    <2>3. ~ Wake
      <3> SUFFICES ASSUME Wake PROVE FALSE
        OBVIOUS
      <3>1. rx'[m] = Aged(rx[m], RxAgeCap)
        BY DEF Wake
      <3> QED BY <2>1, <3>1, ReceptionKept
    <2>4. ASSUME NEW n \in Node, RadioStuff(n) PROVE Late
      <3>1. rx'[m] = rx[m] \/ (m = n /\ rx'[m] = RxAfterTimeout(m))
        BY <2>1, <2>4 DEF RadioStuff
      <3>2. GivesUp(m)
        <4> SUFFICES ASSUME ~GivesUp(m) PROVE FALSE
          OBVIOUS
        <4>1. RxAfterTimeout(m) \in {rx[m], [rx[m] EXCEPT !.asked = @ + 1]}
          BY DEF RxAfterTimeout
        <4>2. [rx[m] EXCEPT !.asked = @ + 1].addr = rx[m].addr
          BY <2>1 DEF RxRec
        <4> QED BY <3>1, <4>1, <4>2
      <3>3. rx[m].asked = MaxRqAsk
        BY <2>1, <3>2, TimeAssumption DEF GivesUp, RxRec
      <3> QED BY <3>2, <3>3 DEF GivesUp, RxTimeout
    <2>5. ASSUME NEW n \in Node, RfConfig(n) PROVE Late
      <3>1. m = n
        BY <2>1, <2>5 DEF RfConfig
      <3> QED BY <2>5, <3>1
    <2>6. ASSUME NEW n \in Node, HandleFire(n) PROVE FALSE
      <3> DEFINE r == Recorded(n, Head(fifo[n]))
      <3>1. m = n /\ rx'[m] = Freed(r)
        BY <2>1, <2>6 DEF HandleFire
      <3>2. rxDone'[m] = Complete(r)
        <4>1. rxDone \in [Node -> BOOLEAN]
          BY DEF TypeOK, RxOK
        <4> QED BY <2>6, <3>1, <4>1 DEF HandleFire
      <3>3. r.addr = rx[m].addr
        BY <2>1, <3>1 DEF Recorded, Claimed, RxRec
      <3> QED BY <3>1, <3>2, <3>3 DEF Freed
    <2>7. ASSUME NEW n \in Node, Actions(n)
          PROVE  UNCHANGED rx \/ RadioStuff(n) \/ RfConfig(n) \/ HandleFire(n)
      BY <2>7 DEF Actions, SendMessage, NoLine, ExecJob, NoJob, NoRx,
         HandleOther, HandleRq, ClearCheckRx, Deliver, Arrive, Lose, Stray,
         Corrupt, rxVars
    <2> QED BY <2>2, <2>3, <2>4, <2>5, <2>6, <2>7, NextIsAction DEF vars, rxVars
  <1> QED BY <1>1, TypeInvariant, PTL DEF Spec, AbandonedLate
=============================================================================
