------------------------------- MODULE RfLink -------------------------------
(***************************************************************************)
(* Two boards running apps/rf_sub1G/rf_data, joined by a half duplex radio *)
(* that loses, corrupts and mixes packets.  A board is its main loop (one  *)
(* step per phase of loop(), in the order of main.c), the job queue and    *)
(* the reception record of rf.c, its CC1101 with the receive FIFO, and the *)
(* interrupt that raises check_rx.                                         *)
(*                                                                         *)
(* Time is counted in loops: chenillard(250) makes every iteration last    *)
(* 250 ms, so Wake advances every age by one and all boards run one        *)
(* iteration between two Wakes, in any interleaving.  Ages stop at the     *)
(* first value past the last limit the code compares them with.            *)
(*                                                                         *)
(* A message is the index of the send_message call that sent it (the       *)
(* global "count" of rf.c without the numbers the resend requests consume, *)
(* which no receiver looks at) and its size; byte strings are slices       *)
(* [msg, id], the id-th 48-byte slice of message msg.                      *)
(***************************************************************************)
EXTENDS Integers, Sequences, FiniteSets

CONSTANTS
  Node,         \* the two boards
  None,         \* address 0: "no peer" in messageInfo.addr
  MaxNb,        \* the largest nbpacket: rxBuff and txBuff hold slots 0..MaxNb
  Sizes,        \* message sizes [nb, last]: nbpacket and nbPayloadLast
  MaxSends,     \* bound: [Node -> Nat], lines typed on each board
  QueueSize,    \* QUEUE_SIZE
  SendTimeout,  \* SEND_TIMEOUT, in loops
  WaitRx,       \* WAIT_RX_TIME, in loops
  MaxRqAsk,     \* MAX_RQ_ASK
  DeafLoops,    \* the 10 of radio_stuff's "loop > 10"
  FifoUnits,    \* size of the CC1101 receive FIFO in 16-byte units
  BitLens,      \* bit lengths of the garbage read as the rxpack of a request
  Faults,       \* the kinds of fault the air produces
  MaxFaults,    \* bound: the number of faults in a behaviour
  Paced         \* TRUE: lines are typed only while the job queue is empty

ASSUME NodeAssumption ==
  /\ None \notin Node
  /\ \A n \in Node : \E p \in Node \ {n} : Node = {n, p}
ASSUME SizeAssumption ==
  /\ QueueSize \in Nat \ {0}
  /\ MaxSends \in [Node -> Nat]
  /\ MaxNb \in Nat
  /\ Sizes \subseteq [nb : 0 .. MaxNb, last : 1 .. 3]
ASSUME TimeAssumption ==
  /\ SendTimeout \in Nat
  /\ WaitRx \in Nat \ {0}
  /\ MaxRqAsk \in Nat
  /\ DeafLoops \in Nat
ASSUME AirAssumption ==
  /\ FifoUnits \in Nat
  /\ BitLens \subseteq Nat /\ BitLens # {}
  /\ Faults \subseteq {"lose", "corrupt", "stray"}
  /\ MaxFaults \in Nat
  /\ Paced \in BOOLEAN

VARIABLES
  pc,       \* the phase of loop() each board is in
  sent,     \* the sizes of the messages each board has sent, in order
  jobs,     \* jobs[] and infos[] up to the first NULL data
  sendAge,  \* loops since last_send_tick
  tx,       \* txMsgInfo, with the age of its tick
  txBuff,   \* the message whose slices txBuff holds, 0 before the first
  rx,       \* rxMsgInfo, with the age of its tick
  rxBuff,   \* the slice in each slot of rxBuff
  hdrNb,    \* msgHeader.nbpacket
  rxDone,   \* rx_done
  out,      \* the slots of the last message handed to fireTreatData
  checkRx,  \* check_rx
  chip,     \* state of the CC1101 outside its transmissions
  deaf,     \* the static counter "loop" of radio_stuff
  fifo,     \* the packets in the CC1101 receive FIFO
  air,      \* the packet a board is transmitting, as a sequence
  faults    \* faults the air may still produce

txVars   == <<sent, jobs, sendAge, tx, txBuff>>
rxVars   == <<rx, rxBuff, hdrNb, rxDone, out>>
chipVars == <<checkRx, chip, deaf, fifo>>
vars == <<pc, txVars, rxVars, chipVars, air, faults>>

Peer(n) == CHOOSE p \in Node : p # n

RxAgeCap == WaitRx * (MaxRqAsk + 1) + 1
TxAgeCap == WaitRx * 2 + 1
Older(age, cap) == IF age < cap THEN age + 1 ELSE cap
\* The tick of a record with no peer is never read: its age stays 0.
Aged(r, cap) == IF r.addr = None THEN r ELSE [r EXCEPT !.age = Older(@, cap)]
Forget(r)    == [r EXCEPT !.addr = None, !.age = 0]
\* A reception record that waits for a new message.
Release(r)   == [Forget(r) EXCEPT !.pack = {}, !.asked = 0]

Blank == [msg |-> 0, id |-> 0]          \* the '0' characters of memset
BlankBuff == [i \in 0 .. MaxNb |-> Blank]

-----------------------------------------------------------------------------
(* Jobs and packets.                                                       *)

\* infos[] entry of the data packets of the message in tx.
DataInfo(t) == [type |-> "FIRE", count |-> t.count, addr |-> t.addr,
                nb |-> t.nb, last |-> t.last]

\* addJob(txBuff + i * 48, i) for i from lo to nbpacket.
SliceJobs(t, lo) ==
  [i \in 1 .. (t.nb + 1 - lo) |->
     [info |-> DataInfo(t), data |-> lo + i - 1, id |-> lo + i - 1]]

\* addRqJob: the job of a resend request, whose data is a dead stack frame.
RqJob(a) ==
  [info |-> [type |-> "RQ", count |-> 0, addr |-> a, nb |-> 0, last |-> 1],
   data |-> 0, id |-> 0]

\* What execJob's shift copies from beyond a full queue when the word there
\* is not NULL.  Its header is garbage; the receivers refuse its address.
WildJob ==
  [info |-> [type |-> "WILD", count |-> 0, addr |-> None, nb |-> 0, last |-> 1],
   data |-> 0, id |-> 0]

\* What the receiver will read in the rxpack field of a job's packet.
Garbage(job) == IF job.info.type = "RQ" THEN BitLens ELSE {0}

\* Mutant: the test of i against QUEUE_SIZE is missing.
ClipNever(q) == q
\* addJob drops what does not fit, without a word.
Clip(q) == IF Len(q) <= QueueSize THEN q ELSE SubSeq(q, 1, QueueSize)

\* Mutants: idpacket is not moved with data; the last job is not cleared.
ShiftedNoId(q) ==
  {[i \in 1 .. Len(q) - 1 |-> [q[i + 1] EXCEPT !.id = q[i].id]]}
ShiftedNoEnd(q) == {Append(Tail(q), q[Len(q)])}
\* The queues execJob's shift can leave behind.
Shifted(q) ==
  {Tail(q)} \cup (IF Len(q) = QueueSize THEN {Append(Tail(q), WildJob)} ELSE {})

\* send_on_rf: the packet made of the first job.  The slice is read from
\* txBuff now, not when the job was queued.
Packet(job, buff, bits) ==
  [type |-> job.info.type, dest |-> job.info.addr, count |-> job.info.count,
   nb |-> job.info.nb, id |-> job.id,
   blocks |-> IF job.id < job.info.nb THEN 3 ELSE job.info.last,
   load |-> [msg |-> buff, id |-> job.data], bits |-> bits]

\* Another network's packet that passes the chip's address filter.
StrayPacket ==
  [type |-> "STRAY", dest |-> None, count |-> 0, nb |-> 0, id |-> 0,
   blocks |-> 1, load |-> Blank, bits |-> 0]

\* Bytes in the FIFO, in 16-byte units: header, count, CRC and the two
\* status bytes make one more; two packets fill 64 bytes.
Units(p) == p.blocks + 1
Room(f, p) ==
  /\ Len(f) <= 1
  /\ (IF f = <<>> THEN 0 ELSE Units(f[1])) + Units(p) <= FifoUnits

\* checkPacket: dest must be this board (dest 0 is broadcast for the chip
\* only), src the linked board and netid the network.
CheckPacket(n, p) == p.dest = n /\ p.type # "STRAY"

-----------------------------------------------------------------------------
Init ==
  /\ pc = [n \in Node |-> "sleep"]
  /\ sent = [n \in Node |-> <<>>]
  /\ jobs = [n \in Node |-> <<>>]
  /\ sendAge = [n \in Node |-> 0]
  /\ tx = [n \in Node |->
             [count |-> 0, addr |-> None, nb |-> 0, last |-> 0, age |-> 0]]
  /\ txBuff = [n \in Node |-> 0]
  /\ rx = [n \in Node |-> [count |-> 0, addr |-> None, nb |-> 0, pack |-> {},
                           asked |-> 0, age |-> 0]]
  /\ rxBuff = [n \in Node |-> BlankBuff]
  /\ hdrNb = [n \in Node |-> 0]
  /\ rxDone = [n \in Node |-> FALSE]
  /\ out = [n \in Node |-> <<>>]
  /\ checkRx = [n \in Node |-> FALSE]
  /\ chip = [n \in Node |-> "idle"]
  /\ deaf = [n \in Node |-> 0]
  /\ fifo = [n \in Node |-> <<>>]
  /\ air = [n \in Node |-> <<>>]
  /\ faults = MaxFaults

At(n, from) == pc[n] = from
Goto(n, to) == pc' = [pc EXCEPT ![n] = to]

\* The end of chenillard(250): one loop's time has passed on every board.
Wake ==
  /\ \A n \in Node : At(n, "sleep")
  /\ pc' = [n \in Node |-> "uart"]
  /\ sendAge' = [n \in Node |-> Older(sendAge[n], SendTimeout)]
  /\ tx' = [n \in Node |-> Aged(tx[n], TxAgeCap)]
  /\ rx' = [n \in Node |-> Aged(rx[n], RxAgeCap)]
  /\ UNCHANGED <<sent, jobs, txBuff, rxBuff, hdrNb, rxDone, out, chipVars,
                 air, faults>>

\* uart_done is set: send_message cuts the line into packets and queues them.
SendMessage(n) ==
  /\ At(n, "uart")
  /\ Len(sent[n]) < MaxSends[n]
  /\ Paced => jobs[n] = <<>>
  /\ \E s \in Sizes :
       LET k == Len(sent[n]) + 1
           t == [count |-> k, addr |-> Peer(n), nb |-> s.nb, last |-> s.last,
                 age |-> 0]
       IN  /\ sent' = [sent EXCEPT ![n] = Append(@, s)]
           /\ txBuff' = [txBuff EXCEPT ![n] = k]
           /\ tx' = [tx EXCEPT ![n] = t]
           /\ jobs' = [jobs EXCEPT ![n] = Clip(@ \o SliceJobs(t, 0))]
  /\ Goto(n, "job")
  /\ UNCHANGED <<sendAge, rxVars, chipVars, air, faults>>

NoLine(n) ==
  /\ At(n, "uart")
  /\ Goto(n, "job")
  /\ UNCHANGED <<txVars, rxVars, chipVars, air, faults>>

\* Mutant: SEND_TIMEOUT is not waited for.
JobReadyAtOnce(n) == jobs[n] # <<>>
JobReady(n) == jobs[n] # <<>> /\ sendAge[n] >= SendTimeout

\* execJob: send the first job and shift the queue.  A transmission ends with
\* the chip in RX; entering TX from an overflow flushes the receive FIFO.
ExecJob(n) ==
  /\ At(n, "job")
  /\ JobReady(n)
  /\ \E bits \in Garbage(Head(jobs[n])) :
       air' = [air EXCEPT ![n] = <<Packet(Head(jobs[n]), txBuff[n], bits)>>]
  /\ \E q \in Shifted(jobs[n]) : jobs' = [jobs EXCEPT ![n] = q]
  /\ sendAge' = [sendAge EXCEPT ![n] = 0]
  /\ fifo' = [fifo EXCEPT ![n] = IF chip[n] = "overflow" THEN <<>> ELSE @]
  /\ chip' = [chip EXCEPT ![n] = "rx"]
  /\ Goto(n, "radio")
  /\ UNCHANGED <<sent, tx, txBuff, rxVars, checkRx, deaf, faults>>

NoJob(n) ==
  /\ At(n, "job")
  /\ ~JobReady(n)
  /\ Goto(n, "radio")
  /\ UNCHANGED <<txVars, rxVars, chipVars, air, faults>>

-----------------------------------------------------------------------------
(* radio_stuff: the reception timeout, the expiry of the sent message and  *)
(* the watch over the chip, once the transmission is over.                 *)

\* Mutant: every request waits as long as the first.
RxTimeoutFlat(n) == rx[n].addr # None /\ rx[n].age > WaitRx
RxTimeout(n) == /\ rx[n].addr # None
                /\ rx[n].age > WaitRx * (rx[n].asked + 1)
GivesUp(n)   == RxTimeout(n) /\ rx[n].asked >= MaxRqAsk
Asks(n)      == RxTimeout(n) /\ rx[n].asked < MaxRqAsk

RxAfterTimeout(n) ==
  CASE GivesUp(n) -> Release(rx[n])
    [] Asks(n)    -> [rx[n] EXCEPT !.asked = @ + 1]
    [] OTHER      -> rx[n]

TxExpired(n) == tx[n].addr # None /\ tx[n].age > WaitRx * 2

\* Ten loops outside RX go by before the eleventh flushes what is in the
\* FIFO and puts the chip back in RX.
WatchChip(n) ==
  LET reset == chip[n] # "rx" /\ deaf[n] >= DeafLoops
  IN  /\ deaf' = [deaf EXCEPT ![n] = CASE reset          -> 0
                                       [] chip[n] = "rx" -> @
                                       [] OTHER          -> @ + 1]
      /\ chip' = [chip EXCEPT ![n] = IF reset THEN "rx" ELSE @]
      /\ fifo' = [fifo EXCEPT ![n] = IF reset THEN <<>> ELSE @]

\* The do-while on CC1101_STATE_TX.  Mutant: the status is not waited for.
TxOverNoWait(n) == n \in Node
TxOver(n) == air[n] = <<>>

RadioStuff(n) ==
  /\ At(n, "radio")
  /\ TxOver(n)
  /\ rx' = [rx EXCEPT ![n] = RxAfterTimeout(n)]
  /\ jobs' = [jobs EXCEPT ![n] =
                IF Asks(n) THEN Clip(Append(@, RqJob(rx[n].addr))) ELSE @]
  /\ tx' = [tx EXCEPT ![n] = IF TxExpired(n) THEN Forget(@) ELSE @]
  /\ WatchChip(n)
  /\ Goto(n, "rx")
  /\ UNCHANGED <<sent, sendAge, txBuff, rxBuff, hdrNb, rxDone, out, checkRx,
                 air, faults>>

-----------------------------------------------------------------------------
(* handle_rf_rx_data and the rest of loop().                               *)

NoRx(n) ==
  /\ At(n, "rx")
  /\ ~checkRx[n]
  /\ Goto(n, "sleep")
  /\ UNCHANGED <<txVars, rxVars, chipVars, air, faults>>

\* Nothing in the FIFO: rf_config restarts the radio, forgets the peer (but
\* neither rxpack nor asked) and empties the queue.
RfConfig(n) ==
  /\ At(n, "rx")
  /\ checkRx[n]
  /\ fifo[n] = <<>>
  /\ rx' = [rx EXCEPT ![n] = Forget(@)]
  /\ jobs' = [jobs EXCEPT ![n] = <<>>]
  /\ chip' = [chip EXCEPT ![n] = "idle"]
  /\ checkRx' = [checkRx EXCEPT ![n] = FALSE]
  /\ Goto(n, "clear")
  /\ UNCHANGED <<sent, sendAge, tx, txBuff, rxBuff, hdrNb, rxDone, out, deaf,
                 fifo, air, faults>>

\* cc1101_receive_packet takes one packet; an overflow flushes the others.
TakePacket(n) ==
  /\ At(n, "rx")
  /\ checkRx[n]
  /\ fifo[n] # <<>>
  /\ fifo' = [fifo EXCEPT ![n] = IF chip[n] = "overflow" THEN <<>> ELSE Tail(@)]
  /\ chip' = [chip EXCEPT ![n] = "rx"]
  /\ Goto(n, "clear")
  /\ UNCHANGED <<sent, sendAge, tx, txBuff, out, checkRx, deaf, air, faults>>

HandleOther(n) ==
  /\ TakePacket(n)
  /\ ~(CheckPacket(n, Head(fifo[n])) /\ Head(fifo[n]).type \in {"RQ", "FIRE"})
  /\ UNCHANGED <<jobs, rx, rxBuff, hdrNb, rxDone>>

\* RQ_DATA: the test resends the slices whose number is at least the bit
\* length of the rxpack field, of whatever message txBuff now holds.
HandleRq(n) ==
  LET p == Head(fifo[n]) IN
  /\ TakePacket(n)
  /\ CheckPacket(n, p) /\ p.type = "RQ"
  /\ jobs' = [jobs EXCEPT ![n] = Clip(@ \o SliceJobs(tx[n], p.bits))]
  /\ UNCHANGED <<rx, rxBuff, hdrNb, rxDone>>

\* rxMsgInfo once a data packet is recorded: a free record is taken by the
\* packet, a record of the packet's message counts it.
Claimed(n, p) ==
  IF rx[n].addr = None
  THEN [rx[n] EXCEPT !.count = p.count, !.addr = Peer(n), !.nb = p.nb]
  ELSE rx[n]
\* Mutant: the message number is not compared.
RecordedAnyCount(n, p) == [Claimed(n, p) EXCEPT !.pack = @ \cup {p.id}, !.age = 0]
Recorded(n, p) ==
  LET r == Claimed(n, p)
  IN  IF r.addr = Peer(n) /\ r.count = p.count
      THEN [r EXCEPT !.pack = @ \cup {p.id}, !.age = 0]
      ELSE r
Complete(r) == 0 .. r.nb \subseteq r.pack

\* The record after the packet.
Freed(r) == IF Complete(r) THEN Release(r) ELSE r

HandleFire(n) ==
  LET p == Head(fifo[n])
      r == Recorded(n, p)
  IN  /\ TakePacket(n)
      /\ CheckPacket(n, p) /\ p.type = "FIRE"
      /\ rxBuff' = [rxBuff EXCEPT ![n][p.id] = p.load]
      /\ rx' = [rx EXCEPT ![n] = Freed(r)]
      /\ hdrNb' = [hdrNb EXCEPT ![n] = IF Complete(r) THEN p.nb ELSE @]
      /\ rxDone' = [rxDone EXCEPT ![n] = Complete(r)]
      /\ UNCHANGED jobs

\* main clears check_rx after the handler, whatever arrived meanwhile.
ClearCheckRx(n) ==
  /\ At(n, "clear")
  /\ checkRx' = [checkRx EXCEPT ![n] = FALSE]
  /\ Goto(n, IF rxDone[n] THEN "done" ELSE "sleep")
  /\ UNCHANGED <<txVars, rxVars, chip, deaf, fifo, air, faults>>

Deliver(n) ==
  /\ At(n, "done")
  /\ out' = [out EXCEPT ![n] = [i \in 1 .. hdrNb[n] + 1 |-> rxBuff[n][i - 1]]]
  /\ rxBuff' = [rxBuff EXCEPT ![n] = BlankBuff]
  /\ rxDone' = [rxDone EXCEPT ![n] = FALSE]
  /\ Goto(n, "sleep")
  /\ UNCHANGED <<txVars, rx, hdrNb, chipVars, air, faults>>

-----------------------------------------------------------------------------
(* The air.  A packet reaches a chip in RX that it is addressed to (or any, *)
(* with address 0) and raises check_rx, unless the FIFO overflows.         *)

\* The rising edge of GDO0 on a good CRC, rf_rx_calback.
GdoRises(n, p) == Room(fifo[n], p)

Receive(n, p) ==
  LET fits == Room(fifo[n], p)
  IN  IF chip[n] = "rx" /\ p.dest \in {n, None}
      THEN /\ fifo' = [fifo EXCEPT ![n] = IF fits THEN Append(@, p) ELSE @]
           /\ chip' = [chip EXCEPT ![n] = IF fits THEN @ ELSE "overflow"]
           /\ checkRx' = [checkRx EXCEPT ![n] = GdoRises(n, p) \/ @]
      ELSE UNCHANGED <<fifo, chip, checkRx>>

Arrive(n) ==
  /\ air[Peer(n)] # <<>>
  /\ Receive(n, Head(air[Peer(n)]))
  /\ air' = [air EXCEPT ![Peer(n)] = <<>>]
  /\ UNCHANGED <<pc, txVars, rxVars, deaf, faults>>

Fault(kind) ==
  /\ kind \in Faults
  /\ faults > 0
  /\ faults' = faults - 1

Lose(n) ==
  /\ Fault("lose")
  /\ air[n] # <<>>
  /\ air' = [air EXCEPT ![n] = <<>>]
  /\ UNCHANGED <<pc, txVars, rxVars, chipVars>>

\* A packet of another network, which the chip accepts.
Stray(n) ==
  /\ Fault("stray")
  /\ chip[n] = "rx"
  /\ Receive(n, StrayPacket)
  /\ UNCHANGED <<pc, txVars, rxVars, deaf, air>>

\* A packet with a bad CRC: the chip flushes its FIFO (CRC autoflush).
Corrupt(n) ==
  /\ Fault("corrupt")
  /\ chip[n] = "rx"
  /\ fifo' = [fifo EXCEPT ![n] = <<>>]
  /\ UNCHANGED <<pc, txVars, rxVars, checkRx, chip, deaf, air>>

-----------------------------------------------------------------------------
\* The main loop of a board; NoLine is the loop without a line to send.
Loop(n) ==
  \/ NoLine(n) \/ ExecJob(n) \/ NoJob(n) \/ RadioStuff(n) \/ NoRx(n)
  \/ RfConfig(n) \/ HandleOther(n) \/ HandleRq(n) \/ HandleFire(n)
  \/ ClearCheckRx(n) \/ Deliver(n)

Environment(n) == SendMessage(n) \/ Lose(n) \/ Stray(n) \/ Corrupt(n)

Next == Wake \/ \E n \in Node : Loop(n) \/ Arrive(n) \/ Environment(n)

Spec == Init /\ [][Next]_vars

\* The loop runs for ever, the clock ticks and a transmission ends.
Fairness ==
  /\ WF_vars(Wake)
  /\ \A n \in Node : WF_vars(Loop(n)) /\ WF_vars(Arrive(n))

FairSpec == Spec /\ Fairness

-----------------------------------------------------------------------------
(* Properties.                                                             *)

Addr  == Node \cup {None}
Nb    == 0 .. MaxNb
Slice == [msg : Nat, id : Nat]
Info  == [type : {"FIRE", "RQ", "WILD"}, count : Nat, addr : Addr, nb : Nb,
          last : 0 .. 3]
Job   == [info : Info, data : Nat, id : Nat]
Pkt   == [type : {"FIRE", "RQ", "WILD", "STRAY"}, dest : Addr, count : Nat,
          nb : Nb, id : Nat, blocks : 0 .. 3, load : Slice, bits : Nat]
TxRec == [count : Nat, addr : Addr, nb : Nb, last : 0 .. 3,
          age : 0 .. TxAgeCap]
RxRec == [count : Nat, addr : Addr, nb : Nb, pack : SUBSET Nat,
          asked : 0 .. MaxRqAsk, age : 0 .. RxAgeCap]

TxOK ==
  /\ sent \in [Node -> Seq(Sizes)]
  /\ jobs \in [Node -> Seq(Job)]
  /\ \A n \in Node : Len(jobs[n]) <= QueueSize
  /\ sendAge \in [Node -> 0 .. SendTimeout]
  /\ tx \in [Node -> TxRec]
  /\ txBuff \in [Node -> Nat]
RxOK ==
  /\ rx \in [Node -> RxRec]
  /\ rxBuff \in [Node -> [Nb -> Slice]]
  /\ hdrNb \in [Node -> Nb]
  /\ rxDone \in [Node -> BOOLEAN]
  /\ out \in [Node -> Seq(Slice)]
ChipOK ==
  /\ checkRx \in [Node -> BOOLEAN]
  /\ chip \in [Node -> {"idle", "rx", "overflow"}]
  /\ deaf \in [Node -> 0 .. DeafLoops]
  /\ fifo \in [Node -> Seq(Pkt)]

\* The shape of the state: the job queue never outgrows jobs[], a packet
\* count never outgrows the buffers, the age of a record and the resend
\* requests of a reception stay within their limits.
TypeOK ==
  /\ pc \in [Node -> {"sleep", "uart", "job", "radio", "rx", "clear", "done"}]
  /\ TxOK /\ RxOK /\ ChipOK
  /\ air \in [Node -> Seq(Pkt)]
  /\ faults \in 0 .. MaxFaults

\* Data and packet number travel together: whatever is lost, dropped, shifted
\* or sent twice, slot i of the reassembly buffer and place i of a printed
\* message never hold another slice than the i-th (execJob moves data and
\* idpacket separately, addJob pairs them, handle_rf_rx_data trusts them).
InPlace(slice, i) == slice = Blank \/ slice.id = i
SlotsAligned ==
  \A n \in Node :
    /\ \A i \in 0 .. MaxNb : InPlace(rxBuff[n][i], i)
    /\ \A i \in DOMAIN out[n] : InPlace(out[n][i], i - 1)

\* A reception in progress always misses a packet: the packet that completes
\* a message frees the record in the same handler, so that radio_stuff never
\* asks again for a message that is complete.
InProgressIncomplete ==
  \A n \in Node : rx[n].addr # None => ~Complete(rx[n])

\* The do-while of radio_stuff keeps the loop from handing the chip a packet
\* while it transmits another: in every other phase the air is free.
OneTransmission == \A n \in Node : air[n] # <<>> => At(n, "radio")

\* Between them they keep a board from asking for what it has and from writing
\* the FIFO of a chip that sends.
ReceiverAndChipAgree == InProgressIncomplete /\ OneTransmission

\* The k-th message of board n, as its peer should print it.
Whole(n, k) == [i \in 1 .. sent[n][k].nb + 1 |-> [msg |-> k, id |-> i - 1]]

\* The link implements the transfer it promises: whole lines, in order.
Transfer == INSTANCE RfTransfer
ImplementsTransfer == Transfer!Spec

\* Unless the radio restarts, a reception is abandoned and its packets
\* forgotten only when nothing of the message came for
\* WaitRx * (MaxRqAsk + 1) loops and all MaxRqAsk resend requests were made.
DropsOnlyLate(n) ==
  (rx[n].addr # None /\ rx'[n].addr = None /\ ~rxDone'[n]) =>
    \/ RfConfig(n)
    \/ /\ rx[n].age > WaitRx * (MaxRqAsk + 1)
       /\ rx[n].asked = MaxRqAsk
AbandonedLate == [][\A n \in Node : DropsOnlyLate(n)]_vars

\* Every packet the chip holds is read in the end (check_rx).
PacketsHandled == \A n \in Node : fifo[n] # <<>> ~> fifo[n] = <<>>

\* The job queue drains: resends never feed on themselves.
QueueDrains == \A n \in Node : jobs[n] # <<>> ~> jobs[n] = <<>>

\* A reception ends, complete or abandoned, and frees the record that blocks
\* every other message.
ReceptionEnds == \A n \in Node : rx[n].addr # None ~> rx[n].addr = None

\* Nothing of the loop waits forever: the packets in the chip, the queue, and
\* the reception that blocks all others come to their end together or not.
NothingHangs == PacketsHandled /\ QueueDrains /\ ReceptionEnds

\* Message k is queued, alone, for a board that listens and receives nothing.
Queued(n, k) ==
  /\ At(n, "job")
  /\ tx[n].count = k /\ tx[n].addr # None /\ tx[n].age = 0
  /\ jobs[n] = SliceJobs(tx[n], 0)
  /\ chip[Peer(n)] = "rx" /\ fifo[Peer(n)] = <<>> /\ rx[Peer(n)].addr = None

\* A message sent to a board that is listening is printed by it, unless the
\* air fails.
CleanDelivery ==
  \A n \in Node : \A k \in 1 .. MaxSends[n] :
    Queued(n, k) ~> \/ k <= Len(sent[n]) /\ out[Peer(n)] = Whole(n, k)
                    \/ faults < MaxFaults

\* A message that one lost packet left incomplete is asked for and printed.
LostPacketRecovered ==
  \A n \in Node : rx[n].addr # None ~> out[n] # <<>>
=============================================================================
