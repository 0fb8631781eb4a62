------------------------------- MODULE Cc1101 -------------------------------
(***************************************************************************)
(* The driver of the CC1101 radio (extdrv/cc1101.c): every call is a list  *)
(* of exchanges over SPI, and the chip goes on receiving, sending and      *)
(* changing its state between two of them.                                 *)
(*                                                                         *)
(* Byte i of packet p is <<p, i>>: 0 is the length, then the data, then    *)
(* the two status bytes the chip adds to a packet it receives.             *)
(***************************************************************************)
EXTENDS Integers, Sequences

CONSTANTS
  CC1101_FIFO_SIZE,  \* bytes each FIFO of the chip holds
  PacketLengths,     \* the length bytes of the packets on the air and to send
  MaxPackets,        \* bound: packets that come in
  MaxCalls           \* bound: calls

Cc1101Assumption ==
  /\ CC1101_FIFO_SIZE \in 1 .. 255
  /\ PacketLengths \subseteq 1 .. (CC1101_FIFO_SIZE - 1)
  /\ MaxPackets \in Nat /\ MaxCalls \in Nat

VARIABLES
  radio,   \* the chip: its state, the FIFOs and the packets on their way
  packets, \* the length and the CRC verdict of every packet so far
  spi,     \* the call of the driver under way, or the last one
  past     \* calls so far, whether one was made at a time rf.c would not, and the
           \* packet a call left in the FIFO because it met a receive overflow

vars == <<radio, packets, spi, past>>

None == <<0, 0>>

PowerOn == [st |-> "idle", to |-> "idle", rx |-> <<>>, tx |-> <<>>, in |-> None,
            out |-> None, torn |-> FALSE]
NoCall == [pc |-> "idle", name |-> "none", todo |-> <<>>, size |-> 0, ret |-> 0,
           status |-> 0, over |-> FALSE, buffer |-> <<>>, appended |-> <<>>]

Init ==
  /\ radio = PowerOn
  /\ packets = <<>>
  /\ spi = NoCall
  /\ past = [calls |-> 0, odd |-> FALSE, left |-> 0]

-----------------------------------------------------------------------------
(* The chip, external.                                                     *)

Length(b) == packets[b[1]].len

\* A change of state ends what is received or sent.
Goes(c, st) == [c EXCEPT !.st = st, !.in = None, !.out = None, !.torn = @ \/ c.out # None]
Settles(c, st) == [Goes(c, "settling") EXCEPT !.to = st]

Settle ==
  /\ radio.st = "settling"
  /\ radio' = [radio EXCEPT !.st = radio.to]
  /\ UNCHANGED <<packets, spi, past>>

PacketComes ==
  /\ radio.st = "rx" /\ radio.in = None /\ Len(packets) < MaxPackets
  /\ \E len \in PacketLengths, ok \in BOOLEAN :
       packets' = Append(packets, [len |-> len, ok |-> ok])
  /\ radio' = [radio EXCEPT !.in = <<Len(packets) + 1, 0>>]
  /\ UNCHANGED <<spi, past>>

ByteIn ==
  /\ radio.in # None
  /\ radio' = IF Len(radio.rx) = CC1101_FIFO_SIZE THEN Goes(radio, "rxover")
              ELSE [radio EXCEPT !.rx = Append(@, radio.in),
                      !.in = IF radio.in[2] = Length(radio.in) + 2 THEN None
                             ELSE <<radio.in[1], radio.in[2] + 1>>]
  /\ UNCHANGED <<packets, spi, past>>

\* A packet leaves byte by byte; then the chip listens (TXOFF_MODE).
ByteOut ==
  /\ radio.st = "tx"
  /\ IF radio.tx = <<>> THEN radio' = Goes(radio, "txunder")
     ELSE LET b == Head(radio.tx)
              right == b = IF radio.out = None THEN <<b[1], 0>> ELSE radio.out
              c == [radio EXCEPT !.tx = Tail(@), !.torn = @ \/ ~right, !.out = None]
          IN  radio' = IF b[2] = Length(b) THEN Goes(c, "rx")
                       ELSE [c EXCEPT !.out = <<b[1], b[2] + 1>>]
  /\ UNCHANGED <<packets, spi, past>>

\* What a command strobe does.  With the channel busy, or in the middle of a
\* packet, state_tx is refused in reception (CCA).
Strobed(s) ==
  \/ s = "reset" /\ radio' = [PowerOn EXCEPT !.torn = radio.torn]
  \/ s = "state_idle" /\ radio' = Goes(radio, "idle")
  \/ /\ s = "state_rx"
     /\ radio' = IF radio.st \in {"rx", "rxover", "txunder"} THEN radio ELSE Settles(radio, "rx")
  \/ /\ s = "state_tx" /\ radio.st # "rx"
     /\ radio' = IF radio.st \in {"tx", "rxover", "txunder"} THEN radio ELSE Settles(radio, "tx")
  \/ /\ s = "state_tx" /\ radio.st = "rx"
     /\ radio' = radio \/ (radio.in = None /\ radio' = Settles(radio, "tx"))
  \/ /\ s = "start_freq_synth"
     /\ radio' = IF radio.st \in {"rxover", "txunder"} THEN radio ELSE Settles(radio, "fstxon")
  \/ /\ s = "flush_rx"
     /\ radio' = IF radio.st \in {"idle", "rxover"} THEN [Goes(radio, "idle") EXCEPT !.rx = <<>>]
                 ELSE radio
  \/ /\ s = "flush_tx"
     /\ radio' = IF radio.st \in {"idle", "txunder"} THEN [Goes(radio, "idle") EXCEPT !.tx = <<>>]
                 ELSE radio
  \/ s = "power_down" /\ radio' = [Goes(radio, "idle") EXCEPT !.rx = <<>>, !.tx = <<>>]
  \/ s = "quiet" /\ UNCHANGED radio  \* a register, or a strobe that changes none of this

-----------------------------------------------------------------------------
(* The commands of the calls.                                              *)

\* Mutant: the FIFO is flushed in whatever state the chip is.
FlushRxBlind == <<"flush_rx">>
cc1101_flush_rx_fifo == <<"state_idle", "flush_rx">>
cc1101_flush_tx_fifo == <<"state_idle", "flush_tx">>

\* A call starts; it is odd when it is one rf.c would not make now: it cuts
\* what is sent or received, or takes a packet that is not complete.
Start(name, pc, todo, odd) ==
  /\ spi.pc = "idle" /\ past.calls < MaxCalls
  /\ spi' = [NoCall EXCEPT !.pc = pc, !.name = name, !.todo = todo]
  /\ past' = [past EXCEPT !.calls = @ + 1, !.odd = @ \/ odd]
  /\ UNCHANGED <<radio, packets>>

Sending   == radio.st = "tx" \/ (radio.st = "settling" /\ radio.to = "tx")
Underway  == Sending \/ radio.in # None
\* A whole packet is at the head of the receive FIFO.
Complete  == \E i \in DOMAIN radio.rx : radio.rx[1][2] = 0 /\ radio.rx[i] = <<radio.rx[1][1], Length(radio.rx[1]) + 2>>

cc1101_reset    == Start("reset", "return", <<"reset">>, TRUE)
cc1101_init     == Start("init", "return", <<"reset", "state_idle">>, TRUE)
Flush           == \E f \in {cc1101_flush_rx_fifo, cc1101_flush_tx_fifo} :
                     Start("flush", "return", f, Underway)
cc1101_send_calibration_request == Start("calibrate", "return", <<"quiet">>, FALSE)
cc1101_power_down ==
  Start("power_down", "return", <<"state_idle", "quiet", "power_down">>, TRUE)
\* set_address, set_channel, set_config, config and update_config.
cc1101_config      == Start("config", "return", <<"state_idle", "quiet">>, Underway)
cc1101_set_patable == Start("set_patable", "return", <<"quiet">>, FALSE)
cc1101_enter_rx_mode      == Start("enter_rx", "rx?", <<>>, Sending)
cc1101_enter_fstxon_state == Start("enter_fstxon", "fstxon?", <<>>, Underway)
cc1101_rx_fifo_state      == Start("rx_fifo_state", "rx_bytes", <<"state_rx">>, Sending)
cc1101_tx_fifo_state      == Start("tx_fifo_state", "tx?", <<>>, Underway)

cc1101_send_packet ==
  /\ spi.pc = "idle" /\ past.calls < MaxCalls
  /\ Len(packets) < MaxPackets
  /\ \E len \in PacketLengths :
       LET p == Len(packets) + 1 IN
         /\ packets' = Append(packets, [len |-> len, ok |-> TRUE])
         /\ spi' = [NoCall EXCEPT !.pc = "load", !.name = "send", !.size = len + 1,
                      !.buffer = [i \in 1 .. (len + 1) |-> <<p, i - 1>>]]
  /\ past' = [past EXCEPT !.calls = @ + 1, !.odd = @ \/ Underway \/ radio.tx # <<>>]
  /\ UNCHANGED radio

cc1101_receive_packet ==
  /\ spi.pc = "idle" /\ past.calls < MaxCalls
  /\ \E size \in {2, CC1101_FIFO_SIZE} :
       /\ spi' = [NoCall EXCEPT !.pc = "receive", !.name = "receive", !.size = size]
       /\ past' = [past EXCEPT !.calls = @ + 1, !.odd = @ \/ size = 2 \/ ~Complete \/ Sending]
  /\ UNCHANGED <<radio, packets>>

-----------------------------------------------------------------------------
(* The exchanges.                                                          *)

Strobe ==
  /\ spi.todo # <<>>
  /\ Strobed(Head(spi.todo))
  /\ spi' = [spi EXCEPT !.todo = Tail(@)]
  /\ UNCHANGED <<packets, past>>

At(pc) == spi.pc = pc /\ spi.todo = <<>>
Least(a, b) == IF a < b THEN a ELSE b
ChipStays == UNCHANGED <<radio, packets, past>>
Then(pc, todo, ret) == spi' = [spi EXCEPT !.pc = pc, !.todo = todo, !.ret = ret]
IdleUnless(states) == IF radio.st \in states THEN <<>> ELSE <<"state_idle">>

AskRx ==
  /\ At("rx?") /\ ChipStays
  /\ Then("return", IdleUnless({"rx", "fstxon", "tx"}) \o <<"state_rx">>, 0)

AskFstxon ==
  /\ At("fstxon?") /\ ChipStays
  /\ Then("return", IF radio.st = "fstxon" THEN <<>>
                    ELSE IdleUnless({"tx", "rx"}) \o <<"start_freq_synth">>, 0)

ToTx == IdleUnless({"idle", "rx", "tx", "fstxon"}) \o <<"state_tx">>

cc1101_enter_tx_mode == At("tx?") /\ ChipStays /\ Then("poll", ToTx, 0)

\* The state is asked for again until the chip sends.  When the reception that
\* kept it from sending overflows, the packet stays in the other FIFO.
Poll ==
  /\ At("poll") /\ UNCHANGED <<radio, packets>>
  /\ \/ radio.st = "txunder" /\ Then("return", cc1101_flush_tx_fifo, -112) /\ UNCHANGED past
     \/ /\ radio.st = "rxover" /\ Then("return", cc1101_flush_rx_fifo, -96)
        /\ past' = [past EXCEPT !.left = IF radio.tx = <<>> THEN @ ELSE radio.tx[1][1]]
     \/ /\ radio.st = "tx" /\ UNCHANGED past
        /\ Then(IF spi.name = "send" THEN "return" ELSE "tx_bytes", <<>>, spi.size)
     \/ radio.st \notin {"txunder", "rxover", "tx"} /\ UNCHANGED <<spi, past>>

TxBytes ==
  /\ At("tx_bytes") /\ ChipStays
  /\ IF radio.st = "txunder" THEN Then("return", cc1101_flush_tx_fifo, -1)
     ELSE Then("return", <<>>, Len(radio.tx))

RxBytes ==
  /\ At("rx_bytes") /\ ChipStays
  /\ IF radio.st = "rxover" THEN Then("return", cc1101_flush_rx_fifo, -1)
     ELSE Then("return", <<>>, Len(radio.rx))

\* The burst of cc1101_send_packet; what the FIFO has no room for is lost.
Load ==
  /\ At("load")
  /\ LET room == CC1101_FIFO_SIZE - Len(radio.tx) IN
       radio' = [radio EXCEPT !.tx = @ \o SubSeq(spi.buffer, 1, Least(spi.size, room))]
  /\ spi' = [spi EXCEPT !.pc = "tx?"]
  /\ UNCHANGED <<packets, past>>

-----------------------------------------------------------------------------
(* cc1101_receive_packet.                                                  *)

Receive ==
  /\ At("receive") /\ ChipStays
  /\ spi' = [spi EXCEPT !.status = Len(radio.rx), !.over = radio.st = "rxover",
               !.pc = IF radio.rx = <<>> /\ radio.st # "rxover" THEN "return" ELSE "length"]

\* k bytes of the FIFO; an empty one gives nothing of a packet.
Front(k) == [i \in 1 .. k |-> IF i <= Len(radio.rx) THEN radio.rx[i] ELSE None]
Left(k)  == [radio EXCEPT !.rx = IF k >= Len(@) THEN <<>> ELSE SubSeq(@, k + 1, Len(@))]

\* How many bytes are read after the length, and what is returned for them;
\* read_size-- may bring a byte that holds 0 to 255.
Sized(pkt_length) ==
  IF pkt_length > CC1101_FIFO_SIZE - 1 THEN [ret |-> -11, n |-> Least(spi.size, spi.status)]
  ELSE IF pkt_length + 1 > spi.size    THEN [ret |-> -12, n |-> spi.size]
  ELSE IF pkt_length > spi.status      THEN [ret |-> -13, n |-> spi.status]
  ELSE [ret |-> pkt_length + 1, n |-> pkt_length + 1]

\* A byte that is no length may have any value.
Values(b) == IF b # None /\ b[2] = 0 THEN {Length(b)} ELSE {0, 1, CC1101_FIFO_SIZE}

ReadLength ==
  /\ At("length")
  /\ LET b == Front(1)[1] IN
     \E pkt_length \in Values(b) :
       /\ radio' = Left(1)
       /\ spi' = [spi EXCEPT !.pc = "body", !.buffer = <<b>>, !.ret = Sized(pkt_length).ret,
                    !.size = (Sized(pkt_length).n + 255) % 256]
  /\ UNCHANGED <<packets, past>>

ReadBody ==
  /\ At("body")
  /\ radio' = Left(spi.size)
  /\ spi' = [spi EXCEPT !.pc = "status", !.buffer = @ \o Front(Least(spi.size, CC1101_FIFO_SIZE))]
  /\ UNCHANGED <<packets, past>>

\* The two bytes the chip added, and what they say.
Verdict(b) == IF b # None /\ b[2] = Length(b) + 2 THEN {packets[b[1]].ok} ELSE BOOLEAN
ReadStatus ==
  /\ At("status")
  /\ radio' = Left(2)
  /\ LET st_buff == Front(2) IN
     \E crc \in Verdict(st_buff[2]) :
       spi' = [spi EXCEPT !.pc = "return", !.appended = st_buff,
                 !.todo = IF ~crc \/ spi.over THEN cc1101_flush_rx_fifo ELSE <<>>,
                 !.ret = IF ~crc THEN -15 ELSE IF spi.over THEN -14 ELSE @]
  /\ UNCHANGED <<packets, past>>

Return == At("return") /\ ChipStays /\ spi' = [spi EXCEPT !.pc = "idle"]

Call ==
  \/ cc1101_reset \/ cc1101_init \/ Flush \/ cc1101_send_calibration_request
  \/ cc1101_power_down \/ cc1101_config \/ cc1101_set_patable \/ cc1101_enter_rx_mode
  \/ cc1101_enter_fstxon_state \/ cc1101_rx_fifo_state \/ cc1101_tx_fifo_state
  \/ cc1101_send_packet \/ cc1101_receive_packet
Exchange ==
  \/ Strobe \/ AskRx \/ AskFstxon \/ cc1101_enter_tx_mode \/ Poll \/ TxBytes \/ RxBytes
  \/ Load \/ Receive \/ ReadLength \/ ReadBody \/ ReadStatus \/ Return
Next == Settle \/ PacketComes \/ ByteIn \/ ByteOut \/ Call \/ Exchange

Spec == Init /\ [][Next]_vars

-----------------------------------------------------------------------------
(* Properties.                                                             *)

\* A receive call that returns a length hands over exactly one whole packet
\* with its own status bytes, one that reports an overflow or a bad CRC leaves
\* nothing of it behind, and between two calls the FIFO starts with a packet;
\* whatever arrives while the call runs.
ReceivedWhole ==
  (spi.pc = "idle" /\ ~past.odd) =>
    /\ (spi.name = "receive" /\ spi.ret > 0) =>
         LET p == spi.buffer[1][1] IN
           /\ spi.buffer = [i \in 1 .. (packets[p].len + 1) |-> <<p, i - 1>>]
           /\ spi.appended = <<<<p, packets[p].len + 1>>, <<p, packets[p].len + 2>>>>
           /\ packets[p].ok
    /\ (spi.name = "receive" /\ spi.ret < 0) => radio.rx = <<>>
    /\ radio.rx # <<>> => radio.rx[1][2] = 0

\* A packet leaves in one piece, and once a call has returned none lies in the
\* FIFO for the next transmission to send in its place: but the one whose sending
\* met a receive overflow, of which only the receive FIFO is flushed (cc1101.c:173).
SentWhole ==
  ~past.odd => /\ ~radio.torn
               /\ (spi.pc = "idle" /\ radio.tx # <<>>) => \/ radio.st = "tx"
                                                        \/ radio.tx[1][1] = past.left

RadioInStep == ReceivedWhole /\ SentWhole
=============================================================================
