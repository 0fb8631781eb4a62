------------------------------- MODULE Bridge -------------------------------
(***************************************************************************)
(* The programs on the host: the bridge between UDP clients and a slave    *)
(* (host/udpbridge) and the logger of temperatures                         *)
(* (host/rf_sub1G/temp_logger).  A step takes a packet of the slave whole; *)
(* the bytes of packets are module Dtplug's.  Words carry the number of    *)
(* the packet that brought them.                                           *)
(***************************************************************************)
EXTENDS Naturals, Sequences, FiniteSets, SequencesExt

CONSTANTS
  Period,    \* between periodic rounds
  Sleep,     \* what a request for a temperature sleeps, waiting for the slave
  MaxTime,   \* the end of a behaviour
  MaxLink,   \* the packets that wait on the serial line
  MaxPackets, \* the packets of a behaviour
  Kinds,     \* the values the slave has: T(emperature), A(dc), S(moke), D(istances)
  FromSlave  \* what it may send: [type, error, quick, words], and broken ones

Words == 1 .. 2  \* a quick packet has one, as smoke; the bridge reads two, of D six

VARIABLES
  prog, \* the program that runs, and where in its loop it is
  time, \* now, next_periodic_round, the last round, and the rounds done and missed
  link, \* packets on the way from the slave, requests on the way from clients
  rx,   \* rx_packet.data, and the packets taken
  kept, \* per kind its values and their timestamp, and the packet they are of
  out   \* what the round of the loop sent to the slave, to a client and to the log

-----------------------------------------------------------------------------
(* The world: time, the slave and the clients.                             *)

Tick == /\ time.now < MaxTime
        /\ time' = [time EXCEPT !.now = @ + 1]
        /\ UNCHANGED <<prog, link, rx, kept, out>>

SlaveSends ==
  /\ Len(link.serial) < MaxLink /\ rx.count + Len(link.serial) < MaxPackets
  /\ \E p \in FromSlave : link' = [link EXCEPT !.serial = Append(@, p)]
  /\ UNCHANGED <<prog, time, rx, kept, out>>

ClientAsks ==
  /\ prog.name = "bridge" /\ link.udp = <<>> /\ time.now < MaxTime
  /\ \E what \in {"G", "U"}, k \in Kinds : link' = [link EXCEPT !.udp = <<[what |-> what, kind |-> k]>>]
  /\ UNCHANGED <<prog, time, rx, kept, out>>

-----------------------------------------------------------------------------
(* The bridge.                                                             *)

Nothing == [requests |-> <<>>, replies |-> {}, lines |-> {}]

At(name, pc) == prog.name = name /\ prog.pc = pc
Ready == (IF link.udp # <<>> THEN {"udp"} ELSE {}) \union (IF link.serial # <<>> THEN {"serial"} ELSE {})

\* select returns with what is ready then, or when the round is due.
Select ==
  /\ At("bridge", "select")
  /\ Ready # {} \/ time.now >= time.round
  /\ prog' = IF Ready # {} THEN [prog EXCEPT !.pc = "udp", !.ready = Ready] ELSE [prog EXCEPT !.pc = "round"]
  /\ out' = Nothing
  /\ UNCHANGED <<time, link, rx, kept>>

\* The first round from the date on that is still to come.
NextRound(round) == round + Period * (1 + (time.now - round) \div Period)

\* Nothing but the next date is set yet; those that went by count as missed.
PeriodicRound ==
  /\ At("bridge", "round")
  /\ prog' = [prog EXCEPT !.pc = "select"]
  /\ time' = [time EXCEPT !.round = NextRound(time.round), !.last = time.now, !.rounds = @ + 1,
                          !.misses = @ + (NextRound(time.round) - time.round) \div Period - 1]
  /\ UNCHANGED <<link, rx, kept, out>>

\* A client's request.  The two for a temperature are Sleep apart.
Asked(k) == IF k = "T" THEN <<"convert", "T">> ELSE <<k>>
handle_udp_request ==
  /\ At("bridge", "udp")
  /\ prog' = [prog EXCEPT !.pc = "serial"]
  /\ IF "udp" \notin prog.ready THEN UNCHANGED <<time, link, out>>
     ELSE LET r == Head(link.udp) IN
          /\ link' = [link EXCEPT !.udp = <<>>]
          /\ IF r.what = "G"
             THEN /\ out' = [out EXCEPT !.replies = {kept[r.kind]}]
                  /\ UNCHANGED time
             ELSE /\ out' = [out EXCEPT !.requests = Asked(r.kind)]
                  /\ time' = [time EXCEPT !.now = IF r.kind = "T" THEN @ + Sleep ELSE @]
  /\ UNCHANGED <<rx, kept>>

\* What a packet leaves in the memory of the last one: a quick one its two
\* bytes, any other all it has, also when its end shows it to be broken.
Stored(data, p, n) == [w \in Words |-> IF w <= p.words THEN n ELSE data[w]]

\* Mutant: the values are those of the packet before.
SetBefore(p, data, n) == [values |-> rx.data, stamp |-> time.now, of |-> n, words |-> p.words]
\* The values are those of the packet, as many as the kind has.
Set(p, data, n) == [values |-> data, stamp |-> time.now, of |-> n, words |-> p.words]

handle_module_data(p, data, n) ==
  /\ kept' = IF p.type = "data" /\ ~ p.error THEN [kept EXCEPT ![p.kind] = Set(p, data, n)] ELSE kept
  /\ out' = IF p.error THEN [out EXCEPT !.requests = <<"errors">>] ELSE out

\* A packet from the line.  The program reads all there is; the packets that
\* arrive meanwhile wait for the next select, which changes nothing here.
TakePacket(p, n) ==
  /\ link' = [link EXCEPT !.serial = Tail(@)]
  /\ rx' = [data |-> Stored(rx.data, p, n), count |-> n]

Decode ==
  /\ At("bridge", "serial")
  /\ UNCHANGED time
  /\ IF "serial" \notin prog.ready \/ link.serial = <<>>
     THEN prog' = [prog EXCEPT !.pc = "select"] /\ UNCHANGED <<link, rx, kept, out>>
     ELSE LET p == Head(link.serial)
              n == rx.count + 1
          IN  /\ TakePacket(p, n)
              /\ UNCHANGED prog
              /\ IF p.broken THEN UNCHANGED <<kept, out>>
                 ELSE handle_module_data(p, Stored(rx.data, p, n), n)

-----------------------------------------------------------------------------
(* The logger.                                                             *)

\* The date of the lines is taken here, before the requests and their waits.
LoggerRound ==
  /\ At("logger", "loop") /\ time.now < MaxTime
  /\ prog' = [prog EXCEPT !.pc = "read", !.date = time.now]
  /\ IF time.now >= time.round
     THEN /\ out' = [Nothing EXCEPT !.requests = <<"convert", "T">>]
          /\ time' = [time EXCEPT !.now = @ + Sleep, !.round = @ + Period, !.rounds = @ + 1]
     ELSE out' = Nothing /\ UNCHANGED time
  /\ UNCHANGED <<link, rx, kept>>

\* The values of a packet: of a quick one, one; otherwise as many as it has.
Values(p) == IF p.quick THEN 1 ELSE p.words

\* Reading does not wait; only the answers to the request for temperatures count.
LoggerRead ==
  /\ At("logger", "read")
  /\ prog' = [prog EXCEPT !.pc = "loop"]
  /\ UNCHANGED <<time, kept>>
  /\ IF link.serial = <<>> THEN UNCHANGED <<link, rx, out>>
     ELSE LET p == Head(link.serial)
              n == rx.count + 1
              data == Stored(rx.data, p, n)
          IN  /\ TakePacket(p, n)
              /\ out' =
                   IF p.broken \/ p.type # "data" \/ p.kind # "T" THEN out
                   ELSE IF p.error THEN [out EXCEPT !.requests = <<"errors">>]
                   ELSE [out EXCEPT !.lines = {[date |-> prog.date, written |-> time.now, of |-> n,
                                                values |-> SubSeq(data, 1, Values(p))]}]

-----------------------------------------------------------------------------
Init ==
  /\ prog \in {[name |-> n, pc |-> pc, ready |-> {}, date |-> 0] :
                 <<n, pc>> \in {<<"bridge", "select">>, <<"logger", "loop">>}}
  /\ time = [now |-> 0, round |-> Period, last |-> 0, rounds |-> 0, misses |-> 0]
  /\ link = [serial |-> <<>>, udp |-> <<>>]
  /\ rx = [data |-> [w \in Words |-> 0], count |-> 0]
  /\ kept = [k \in Kinds |-> [values |-> [w \in Words |-> 0], stamp |-> 0, of |-> 0, words |-> 0]]
  /\ out = Nothing

World == Tick \/ SlaveSends \/ ClientAsks
Next == World \/ Select \/ PeriodicRound \/ handle_udp_request \/ Decode \/ LoggerRound \/ LoggerRead

-----------------------------------------------------------------------------
(* Properties.                                                             *)

\* The words a packet brought are told to clients with the date of the same
\* packet, whatever broken, quick or other packets came around it; what it
\* did not bring may be older.  The quick packets with one word of a kind that
\* has two are told with a second word of an earlier packet
\* (udpbridge handlers.c:84, 120, 129).
ValuesDated ==
  \A told \in out.replies :
    /\ \A w \in Words : w <= told.words => told.values[w] = told.of
    /\ \A other \in Range(kept) : other.of > told.of => other.stamp >= told.stamp
    /\ \A k, l \in Kinds : k # l /\ kept[k].of = kept[l].of => kept[k].of = 0

\* Rounds stay on the grid of the start, none is done early, each that went by
\* is counted, done or missed, and after one the bridge's next is the first
\* that is still to come (main.c:193 of udpbridge).
RoundsKept ==
  /\ time.round = Period * (1 + time.rounds + time.misses)
  /\ time.rounds + time.misses <= time.now \div Period
  /\ prog.name = "bridge" => time.last < time.round /\ time.round - Period <= time.last

\* A line of the log has the values of one packet, and its date is before
\* they were read, by no more than the wait between two requests and the time
\* the program was kept from running (temp_logger main.c:115, 174).
LinesDated ==
  \A l \in out.lines : l.date <= l.written /\ \A i \in DOMAIN l.values : l.values[i] = l.of

BridgeSound == ValuesDated /\ RoundsKept /\ LinesDated
=============================================================================
