------------------------------- MODULE Dtplug -------------------------------
(***************************************************************************)
(* The DTPlug protocol on a serial line: a host program of host/, the      *)
(* slave library lib/protocols/dtplug/slave.c on a module, and the UART    *)
(* driver in between.  On the module two activities interleave: the UART   *)
(* interrupt, which decodes one received byte or sends the next one, and   *)
(* the main loop, which handles the packet the interrupt handed over.  The *)
(* interrupt runs to its end between any two steps of the main loop.       *)
(*                                                                         *)
(* A packet is the index of the frame (host to slave) or reply (slave to   *)
(* host) it is, and a byte is a cell [f, i], the i-th cell of packet f:    *)
(* HeadLen header cells, the first of which is '#', then data cells.       *)
(* Checksums are ideal: they accept exactly the cells of one packet.  A    *)
(* field that the code sends without having written it holds any value of  *)
(* Garbage.  Handling of board specific types is up to the application:    *)
(* it answers with data or an error, perhaps with an error after the data, *)
(* then releases.                                                          *)
(***************************************************************************)
EXTENDS Integers, Sequences, FiniteSets

CONSTANTS
  Requests,   \* what host programs send: [type, reply, data, size, hash]
  HeadLen,    \* header cells
  DataLen,    \* PACKET_DATA_SIZE, in cells
  OutSize,    \* SERIAL_OUT_BUFF_SIZE, in cells
  MaxErrors,  \* DTPP_MAX_ERROR_STORED
  TimeSize,   \* the size PKT_TYPE_SET_TIME wants, in cells
  NumSize,    \* the size of a counter in a reply, in cells
  AppSize,    \* the size of the data the application replies with, in cells
  Garbage,    \* [claims, sum]: what an unwritten data field may announce
  MaxFrames,  \* bound: frames the host sends
  MaxLosses   \* bound: bytes the line loses

ASSUME LineAssumption ==
  /\ HeadLen \in Nat /\ HeadLen >= 2
  /\ DataLen \in Nat \ {0} /\ OutSize \in Nat \ {0}
  /\ TimeSize \in 1 .. DataLen /\ NumSize \in 1 .. DataLen /\ AppSize \in 0 .. DataLen
  /\ MaxErrors \in Nat /\ MaxFrames \in Nat /\ MaxLosses \in Nat
ASSUME DataAssumption ==
  /\ Garbage \subseteq [claims : Nat, sum : BOOLEAN] /\ Garbage # {}
  /\ Requests \subseteq [type : {"PING", "NUM", "ERRORS", "TIME", "USER", "RESET", "APP"},
                         reply : BOOLEAN, data : {"null", "quick", "long"},
                         size : 0 .. DataLen, hash : BOOLEAN]

VARIABLES
  frames,   \* the frames the host has sent
  down,     \* the cells on their way to the slave
  bufs,     \* the two packets of the handle
  asks,     \* PACKET_NEEDS_REPLY in the sequence number of each of them
  rxPacket, \* rx_packet
  rxPtr,    \* rx_ptr
  fullSize, \* full_size
  packetOk, \* packet_ok, 0 for NULL
  doneOld,  \* done_with_old_packet
  numErrors,\* num_errors_stored
  pc,       \* where the main loop is
  cur,      \* the packet it handles
  call,     \* the arguments of dtplug_protocol_send_reply
  tmp,      \* num_errors_stored as the main loop last read it
  todo,     \* what of the reply is not in the output buffer yet
  out,      \* what of the output buffer is not sent yet
  replies,  \* the replies the slave has built
  hostRx,   \* the cells of the packet the host is receiving
  got,      \* the replies the host has decoded
  losses,   \* bytes the line may still lose
  hit,      \* the frames that lost a byte
  decoded,  \* the frames the slave's decoder found whole and right
  released  \* the last frame the slave released

rxVars   == <<bufs, rxPacket, rxPtr, fullSize, decoded>>
mainVars == <<pc, cur, call, tmp, todo>>
hostVars == <<frames, hostRx, got>>
lineVars == <<losses, hit>>
vars == <<rxVars, mainVars, hostVars, lineVars, down, asks, packetOk, doneOld,
          numErrors, out, replies, released>>

PacketLen == HeadLen + DataLen
Blank == [f |-> 0, i |-> 0]
Cells(f, size) == [i \in 1 .. HeadLen + size |-> [f |-> f, i |-> i]]
NoCall == [error |-> "none", size |-> 0, next |-> "idle", stored |-> "build"]

\* The cells of a packet that announces p.claims data cells, after its header.
Announced(p) == IF p.quick THEN 0 ELSE p.claims
\* Is this cell the character '#'?
IsStart(p, c) == c.i = 1 \/ (c.i > HeadLen /\ p.hash)
HeaderRight(b) == \A i \in 1 .. HeadLen : b[i] = [f |-> b[1].f, i |-> i]
DataRight(p, b, n) ==
  \/ p.quick
  \/ /\ p.sum /\ p.claims = p.size
     /\ \A i \in 1 .. n : b[i] = [f |-> b[1].f, i |-> i]

-----------------------------------------------------------------------------
Boot ==
  /\ bufs = [b \in 1 .. 2 |-> [i \in 1 .. PacketLen |-> Blank]]
  /\ asks = [b \in 1 .. 2 |-> FALSE]
  /\ rxPacket = 1 /\ rxPtr = 0 /\ fullSize = 0
  /\ packetOk = 0 /\ doneOld = TRUE
  /\ numErrors = 0
  /\ pc = "idle" /\ cur = 1 /\ call = NoCall /\ tmp = 0
  /\ todo = <<>> /\ out = <<>>

Init ==
  /\ Boot
  /\ frames = <<>> /\ down = <<>> /\ replies = <<>>
  /\ hostRx = <<>> /\ got = {}
  /\ losses = MaxLosses /\ hit = {}
  /\ decoded = {} /\ released = 0

-----------------------------------------------------------------------------
(* The host.                                                               *)

\* host_send_packet: with data NULL the size and checksum fields are what
\* the stack holds.
Frames(r) ==
  LET f(claims, sum) ==
        [type |-> r.type, reply |-> r.reply, quick |-> r.data = "quick",
         size |-> IF r.data = "long" THEN r.size ELSE 0,
         claims |-> claims, sum |-> sum, hash |-> r.hash]
  IN  IF r.data = "null" THEN {f(g.claims, g.sum) : g \in Garbage}
      ELSE {f(r.size, TRUE)}
HostSend(r) ==
  \E f \in Frames(r) :
    /\ frames' = Append(frames, f)
    /\ down' = down \o Cells(Len(frames) + 1, f.size)

Request ==
  /\ Len(frames) < MaxFrames
  /\ down = <<>>
  /\ \E r \in Requests : HostSend(r)
  /\ UNCHANGED <<rxVars, mainVars, hostRx, got, lineVars, asks, packetOk,
                 doneOld, numErrors, out, replies, released>>

GetErrors ==
  [type |-> "ERRORS", reply |-> TRUE, data |-> "null", size |-> 0, hash |-> FALSE]

\* The host's decoder: a header that announces more than a packet holds, a
\* wrong header and wrong data end the packet; an error reply has no data.
HostAnnounced(p) == IF p.error # "none" THEN 0 ELSE Announced(p)
HostDecode(c) ==
  LET b == Append(hostRx, c)
      p == replies[b[1].f]
      full == HeadLen + HostAnnounced(p)
      complete == Len(b) = full /\ (p.error # "none" \/ DataRight(p, b, full))
  IN  IF hostRx = <<>> /\ ~IsStart(replies[c.f], c)
      THEN UNCHANGED <<hostVars, down>>
      ELSE /\ hostRx' = IF \/ Len(b) < HeadLen
                           \/ HeaderRight(b) /\ full <= PacketLen /\ Len(b) < full
                        THEN b ELSE <<>>
           /\ IF Len(b) >= HeadLen /\ HeaderRight(b) /\ complete
              THEN /\ got' = got \cup {b[1].f}
                   /\ IF p.error # "none" /\ Len(frames) < MaxFrames
                      THEN HostSend(GetErrors)
                      ELSE UNCHANGED <<frames, down>>
              ELSE UNCHANGED <<frames, down, got>>

-----------------------------------------------------------------------------
(* The slave's UART interrupt.                                             *)

\* dtplug_protocol_add_error_to_list, in the interrupt.
AddError == numErrors' = IF numErrors < MaxErrors * 2 THEN numErrors + 2 ELSE numErrors

NextPacket == rxPtr' = 0 /\ fullSize' = 0
\* A wrong header.  Mutant: it is kept, as the start of a packet.
WrongHeaderKept == rxPtr' = HeadLen /\ fullSize' = PacketLen
WrongHeader == NextPacket

\* Mutant: the receiving buffer is not switched.
SwitchedNot(b) == b
Switched(b) == 3 - b

\* A packet that announces more data than a packet holds ends when it is
\* full.
Overrun == rxPtr = PacketLen

\* The packet is whole: it becomes packet_ok unless main still uses another.
TakePacket(f) ==
  /\ decoded' = decoded \cup {f}
  /\ IF doneOld
     THEN /\ packetOk' = rxPacket
          /\ asks' = [asks EXCEPT ![rxPacket] = frames[f].reply]
          /\ doneOld' = FALSE
          /\ rxPacket' = Switched(rxPacket)
          /\ UNCHANGED numErrors
     ELSE AddError /\ UNCHANGED <<packetOk, asks, doneOld, rxPacket>>

Handed == <<packetOk, asks, doneOld, rxPacket, decoded>>

\* The header is in: sum tells whether it is right, then how long the packet is.
FullSize(b) ==
  IF rxPtr + 1 = HeadLen THEN HeadLen + Announced(frames[b[1].f]) ELSE fullSize

\* dtplug_protocol_decode stores the byte c and looks at what the packet is.
Store(c) ==
  LET b == [bufs[rxPacket] EXCEPT ![rxPtr + 1] = c]
      n == rxPtr + 1
  IN  /\ bufs' = [bufs EXCEPT ![rxPacket] = b]
      /\ \/ /\ n = HeadLen /\ ~HeaderRight(b)
            /\ WrongHeader
            /\ UNCHANGED <<Handed, numErrors>>
         \/ /\ ~(n = HeadLen /\ ~HeaderRight(b))
            /\ n # FullSize(b)
            /\ rxPtr' = n /\ fullSize' = FullSize(b)
            /\ UNCHANGED <<Handed, numErrors>>
         \/ /\ ~(n = HeadLen /\ ~HeaderRight(b))
            /\ n = FullSize(b)
            /\ NextPacket
            /\ IF DataRight(frames[b[1].f], b, n)
               THEN TakePacket(b[1].f)
               ELSE AddError /\ UNCHANGED Handed

\* The receive interrupt.
RxByte ==
  /\ down # <<>>
  /\ down' = Tail(down)
  /\ LET c == Head(down)
     IN  \/ /\ rxPtr = 0 /\ ~IsStart(frames[c.f], c)
            /\ UNCHANGED <<rxVars, packetOk, asks, doneOld, numErrors>>
         \/ /\ Overrun
            /\ NextPacket
            /\ UNCHANGED <<bufs, Handed, numErrors>>
         \/ /\ ~Overrun
            /\ rxPtr # 0 \/ IsStart(frames[c.f], c)
            /\ Store(c)
  /\ UNCHANGED <<mainVars, hostVars, lineVars, out, replies, released>>

\* The transmit interrupt sends the next byte of out_buff; the host reads it.
TxByte ==
  /\ out # <<>>
  /\ out' = Tail(out)
  /\ HostDecode(Head(out))
  /\ UNCHANGED <<rxVars, mainVars, lineVars, asks, packetOk, doneOld,
                 numErrors, replies, released>>

\* The line loses a byte.
LoseDown ==
  /\ losses > 0 /\ down # <<>>
  /\ losses' = losses - 1
  /\ hit' = hit \cup {Head(down).f}
  /\ down' = Tail(down)
  /\ UNCHANGED <<rxVars, mainVars, hostVars, asks, packetOk, doneOld,
                 numErrors, out, replies, released>>

-----------------------------------------------------------------------------
(* The slave's main loop.                                                  *)

MainUnchanged == <<rxVars, hostVars, lineVars, down>>
Goto(at) == pc' = at
Frame == bufs[cur][1].f

Reply(error, size, next) ==
  /\ call' = [error |-> error, size |-> size, next |-> next, stored |-> "build"]
  /\ Goto("reply")
  /\ UNCHANGED <<tmp, todo>>

\* The packet is one that dtplug_protocol_get_next_packet_ok can see.
Sees(types) ==
  /\ pc = "idle" /\ packetOk # 0
  /\ frames[bufs[packetOk][1].f].type \in types
  /\ cur' = packetOk
  /\ UNCHANGED <<MainUnchanged, packetOk, doneOld, numErrors, out, replies, released>>

\* PKT_TYPE_PING, PKT_TYPE_GET_NUM_PACKETS and _ERRORS, PKT_TYPE_GET_ERRORS:
\* always answered.
HandleCounter ==
  /\ Sees({"PING", "NUM", "ERRORS"})
  /\ asks' = [asks EXCEPT ![packetOk] = TRUE]
  /\ Reply("none", IF frames[bufs[packetOk][1].f].type = "NUM" THEN NumSize ELSE 0, "free")

\* PKT_TYPE_SET_TIME and PKT_TYPE_SET_USER_INFO: a packet of the wrong form,
\* or a flash that fails, is answered or stored as an error, and the handler
\* breaks out without releasing the packet.
TimeRight(p) == p.type = "TIME" /\ ~p.quick /\ p.claims = TimeSize
HandleSetting ==
  /\ Sees({"TIME", "USER"})
  /\ UNCHANGED asks
  /\ LET p == frames[bufs[packetOk][1].f]
     IN  \/ ~TimeRight(p) /\ Reply("error", 0, "idle")
         \/ TimeRight(p) /\ asks[packetOk] /\ Reply("none", TimeSize, "free")
         \/ TimeRight(p) /\ ~asks[packetOk] /\ Goto("free") /\ UNCHANGED <<call, tmp, todo>>

\* A type the library does not know goes to the application, which answers
\* with data or an error, perhaps again with an error, and releases.
HandleApp ==
  /\ Sees({"APP"})
  /\ UNCHANGED asks
  /\ \/ \E next \in {"free", "again"} : Reply("none", AppSize, next)
     \/ Reply("error", 0, "free")

\* PKT_TYPE_RESET, or user information that was written: the board restarts;
\* what arrives while it boots is lost.
HandleReset ==
  /\ pc = "idle" /\ packetOk # 0
  /\ LET p == frames[bufs[packetOk][1].f]
     IN  p.type = "RESET" \/ (p.type = "USER" /\ ~p.quick /\ p.claims >= 2)
  /\ bufs' = [b \in 1 .. 2 |-> [i \in 1 .. PacketLen |-> Blank]]
  /\ asks' = [b \in 1 .. 2 |-> FALSE]
  /\ rxPacket' = 1 /\ rxPtr' = 0 /\ fullSize' = 0
  /\ packetOk' = 0 /\ doneOld' = TRUE
  /\ numErrors' = 0
  /\ pc' = "idle" /\ cur' = 1 /\ call' = NoCall /\ tmp' = 0
  /\ todo' = <<>> /\ out' = <<>>
  /\ released' = bufs[packetOk][1].f
  /\ \E k \in 0 .. Len(down) : down' = SubSeq(down, k + 1, Len(down))
  /\ UNCHANGED <<hostVars, lineVars, replies, decoded>>

\* The steps of dtplug_protocol_send_reply that touch nothing of the handle.
ReplyUnchanged == <<MainUnchanged, cur, packetOk, doneOld, released>>

\* The end of send_reply, back in the handler.
Return ==
  /\ tmp' = 0
  /\ IF call.next = "again"
     THEN Goto("reply") /\ call' = [NoCall EXCEPT !.error = "error", !.next = "free"]
     ELSE Goto(call.next) /\ call' = NoCall

\* Mutant: PACKET_NEEDS_REPLY is not removed.
AnsweredNot == asks
Answered == [asks EXCEPT ![cur] = FALSE]

StoredNext(asked) == IF asked THEN "many" ELSE "return"

\* No answer asked for: an error is stored.  Else the answer depends on the
\* errors stored so far, a new one included.
SendReply ==
  /\ pc = "reply"
  /\ \/ /\ ~asks[cur] /\ call.error = "none"
        /\ Return /\ UNCHANGED asks
     \/ /\ ~asks[cur] /\ call.error # "none"
        /\ Goto("store") /\ call' = [call EXCEPT !.stored = StoredNext(FALSE)]
        /\ UNCHANGED <<asks, tmp>>
     \/ /\ asks[cur] /\ asks' = Answered
        /\ LET some == numErrors # 0
           IN  /\ Goto(IF ~some THEN "build"
                       ELSE IF call.error # "none" THEN "store" ELSE "many")
               /\ call' = [call EXCEPT !.stored = StoredNext(TRUE)]
        /\ UNCHANGED tmp
  /\ UNCHANGED <<ReplyUnchanged, todo, numErrors, out, replies>>

StoreUnchanged == <<ReplyUnchanged, asks, todo, out, replies>>

\* dtplug_protocol_add_error_to_list in the main loop: its test of the room
\* and its two increments each read and write num_errors_stored.
StoreError ==
  /\ pc = "store"
  /\ tmp' = numErrors
  /\ Goto(IF numErrors < MaxErrors * 2 THEN "code" ELSE call.stored)
  /\ UNCHANGED <<StoreUnchanged, call, numErrors>>
StoreCode ==
  /\ pc = "code"
  /\ numErrors' = tmp + 1
  /\ Goto("read")
  /\ UNCHANGED <<StoreUnchanged, call, tmp>>
ReadAgain ==
  /\ pc = "read"
  /\ tmp' = numErrors
  /\ Goto("seq")
  /\ UNCHANGED <<StoreUnchanged, call, numErrors>>
StoreSeq ==
  /\ pc = "seq"
  /\ numErrors' = tmp + 1
  /\ Goto(call.stored)
  /\ UNCHANGED <<StoreUnchanged, call, tmp>>
StoredReturn ==
  /\ pc = "return"
  /\ Return
  /\ UNCHANGED <<StoreUnchanged, numErrors>>

\* Errors are stored: they are the answer to PKT_TYPE_GET_ERRORS, and the
\* list is empty again; any other answer says that there are many.
ManyErrors ==
  /\ pc = "many"
  /\ IF frames[Frame].type = "ERRORS"
     THEN call' = [call EXCEPT !.size = numErrors] /\ Goto("clear")
     ELSE call' = [call EXCEPT !.error = "many", !.size = 0] /\ Goto("build")
  /\ UNCHANGED <<StoreUnchanged, tmp, numErrors>>
ClearErrors ==
  /\ pc = "clear"
  /\ numErrors' = 0
  /\ Goto("build")
  /\ UNCHANGED <<StoreUnchanged, call, tmp>>

\* The packets a call can build: one or two bytes are quick data, and without
\* data the size and checksum fields are what the stack holds.
Built ==
  LET r(quick, size, claims, sum, hash) ==
        [to |-> Frame, error |-> call.error, quick |-> quick, size |-> size,
         claims |-> claims, sum |-> sum, hash |-> hash]
  IN  IF call.error # "none" THEN {r(FALSE, 0, 0, TRUE, FALSE)}
      ELSE IF call.size = 0 THEN {r(FALSE, 0, g.claims, g.sum, FALSE) : g \in Garbage}
      ELSE IF call.size \in {1, 2} THEN {r(TRUE, 0, 0, TRUE, FALSE)}
      ELSE {r(FALSE, call.size, call.size, TRUE, h) : h \in BOOLEAN}
BuildReply ==
  /\ pc = "build"
  /\ \E r \in Built :
       /\ replies' = Append(replies, r)
       /\ todo' = Cells(Len(replies) + 1, r.size)
  /\ Goto("write")
  /\ UNCHANGED <<ReplyUnchanged, asks, call, tmp, numErrors, out>>

\* Mutant: the output buffer is filled while it is being sent.
UartFreeAlways == TRUE
UartFree == out = <<>>
\* serial_write waits until the last byte is sent, then copies what fits.
SerialWrite ==
  LET n == IF Len(todo) < OutSize THEN Len(todo) ELSE OutSize
  IN  /\ pc = "write"
      /\ UartFree
      /\ out' = SubSeq(todo, 1, n)
      /\ todo' = SubSeq(todo, n + 1, Len(todo))
      /\ IF todo' = <<>> THEN Return ELSE UNCHANGED <<pc, call, tmp>>
      /\ UNCHANGED <<ReplyUnchanged, asks, numErrors, replies>>

\* dtplug_protocol_release_old_packet: its two assignments, in their order.
\* Mutants: packet_ok is not cleared; the decoder is let on before it is.
ClearsDone(i) == IF i = 1 THEN UNCHANGED <<packetOk, doneOld>>
                 ELSE doneOld' = TRUE /\ UNCHANGED packetOk
ClearsSwapped(i) == IF i = 2 THEN packetOk' = 0 /\ UNCHANGED doneOld
                    ELSE doneOld' = TRUE /\ UNCHANGED packetOk
Clears(i) == IF i = 1 THEN packetOk' = 0 /\ UNCHANGED doneOld
             ELSE doneOld' = TRUE /\ UNCHANGED packetOk

FreeUnchanged == <<MainUnchanged, asks, numErrors, cur, call, tmp, todo, out, replies>>
Forget ==
  /\ pc = "free"
  /\ Clears(1)
  /\ Goto("freed")
  /\ UNCHANGED <<FreeUnchanged, released>>
Ready ==
  /\ pc = "freed"
  /\ Clears(2)
  /\ released' = Frame
  /\ Goto("idle")
  /\ UNCHANGED FreeUnchanged

-----------------------------------------------------------------------------
Interrupt == RxByte \/ TxByte
Main ==
  \/ HandleCounter \/ HandleSetting \/ HandleApp \/ HandleReset
  \/ SendReply \/ StoreError \/ StoreCode \/ ReadAgain \/ StoreSeq \/ StoredReturn
  \/ ManyErrors \/ ClearErrors \/ BuildReply \/ SerialWrite \/ Forget \/ Ready

Next == Request \/ Interrupt \/ LoseDown \/ Main

Spec == Init /\ [][Next]_vars

\* Bytes arrive and leave, and the main loop runs.
FairSpec == Spec /\ WF_vars(RxByte) /\ WF_vars(TxByte) /\ WF_vars(Main)

-----------------------------------------------------------------------------
(* Properties.                                                             *)

\* The shape of the state: pointers stay in the packet, and what the two lines carry are cells of packets.
TypeOK ==
  /\ rxPacket \in 1 .. 2 /\ cur \in 1 .. 2 /\ packetOk \in 0 .. 2
  /\ rxPtr \in 0 .. PacketLen
  /\ numErrors \in Nat /\ tmp \in Nat
  /\ \A b \in 1 .. 2 : \A i \in 1 .. PacketLen : bufs[b][i].f <= Len(frames)
  /\ \A i \in 1 .. Len(down) : down[i].f \in 1 .. Len(frames)
  /\ \A k \in 1 .. Len(replies) : replies[k].size <= DataLen
  /\ Len(out) <= OutSize
  /\ \A i \in 1 .. Len(out) : out[i].f \in 1 .. Len(replies)
  /\ got \subseteq 1 .. Len(replies)

\* The packet the main loop was given stays a whole packet of the host until
\* it is released, whatever the interrupt receives meanwhile (rx_packet is
\* switched, and a packet that arrives too early is refused).
PacketStable ==
  packetOk # 0 =>
    LET b == bufs[packetOk]
        p == frames[b[1].f]
    IN  /\ b[1].f \in 1 .. Len(frames)
        /\ HeaderRight(b)
        /\ DataRight(p, b, HeadLen + Announced(p))

\* The main loop starts on each packet at most once, in the order the host
\* sent them (packet_ok and done_with_old_packet, set and cleared on two sides).
HandledInOrder ==
  [][pc = "idle" /\ pc' # "idle" => bufs[packetOk][1].f > released]_vars

\* No packet is answered twice, though its handler may call send_reply again
\* and an unreleased packet is handled again (PACKET_NEEDS_REPLY).
AnsweredOnce ==
  \A j, k \in 1 .. Len(replies) : replies[j].to = replies[k].to => j = k

\* A packet handed to the main loop is released, so that the next one can be
\* received (release_old_packet against the decoder in the interrupt).
PacketsReleased == ~doneOld ~> doneOld

\* error_storage has room for MaxErrors errors of two bytes: the test of
\* add_error_to_list keeps the interrupt and the main loop inside it.
ErrorsBounded == numErrors <= MaxErrors * 2

Honest(p) == p.quick \/ (p.claims = p.size /\ p.sum)

\* A lost byte costs the packet it belongs to and at most the next one: every
\* other frame that left the line was found whole.  This is for frames whose
\* fields are written, without '#' in their data, and a board that stays up.
Arrived(f) == down = <<>> \/ f < Head(down).f
LossIsLocal ==
  (\A f \in 1 .. Len(frames) :
     Honest(frames[f]) /\ ~frames[f].hash /\ frames[f].type \notin {"RESET", "USER"}) =>
  \A f \in 1 .. Len(frames) :
    Arrived(f) => f \in decoded \/ f \in hit \/ f - 1 \in hit

\* A packet that asks for a reply has been answered when it is released,
\* though an error list in the way turns the answer into another one.
AnsweredWhenReleased ==
  released > 0 /\ frames[released].reply =>
    \E k \in 1 .. Len(replies) : replies[k].to = released

\* Every question gets one answer: none twice, and the one asked for before
\* the packet is released.
AnsweredOnceEach == AnsweredOnce /\ AnsweredWhenReleased

\* When the last byte of a reply has left, the host has decoded it and every
\* one before it, unless the board restarts or a reply went out with fields
\* nobody wrote (serial_write cuts a reply in pieces, and its next call waits
\* for the last byte).
Spoiled ==
  \/ \E k \in 1 .. Len(replies) : ~Honest(replies[k])
  \/ \E f \in 1 .. Len(frames) : frames[f].type \in {"RESET", "USER"}
RepliesHeard ==
  out = <<>> /\ todo = <<>> /\ ~Spoiled => got = 1 .. Len(replies)
=============================================================================
