------------------------------ MODULE Ncn5120 ------------------------------
(***************************************************************************)
(* The driver of the KNX transceiver (extdrv/ncn5120.c): calls of the main *)
(* loop that send a service request and wait for its reply, against the    *)
(* receive interrupt, which has to tell reply bytes from the bytes of KNX  *)
(* frames by a count the main loop and the interrupt both change, and to   *)
(* find the end of a frame from the time between two bytes.                *)
(*                                                                         *)
(* A byte is [call |-> c, i |-> i]: byte i of the reply to call c, byte 0  *)
(* for a U_State indicator; [call |-> 0, ...] is a byte of a KNX frame.    *)
(***************************************************************************)
EXTENDS Integers, Sequences, SequencesExt

CONSTANTS
  Size,       \* bytes of the packet that is sent
  Reload,     \* reload value of the system tick: a millisecond is Reload + 1
  Gaps,       \* times between two bytes of the bus, in cycles of the tick
  MaxCalls,   \* bound: calls
  MaxFrame    \* bound: bytes of KNX frames

NcnAssumption ==
  /\ Size \in Nat /\ Reload \in Nat \ {0}
  /\ Gaps \subseteq Nat
  /\ MaxCalls \in Nat /\ MaxFrame \in Nat

VARIABLES
  bus,     \* "busy": frames come; "faulty": packets sent fail
  dev,     \* struct ncn5120_device
  call,    \* the call under way
  chip,    \* the chip: requests it has still to answer, whether it acknowledges
  count,   \* calls and frame bytes so far
  mixed,   \* a frame byte was taken for a reply or a reply for a frame byte
  timing   \* when the last frame byte came, and what was made of it

vars == <<bus, dev, call, chip, count, mixed, timing>>

Idle == [pc |-> "idle", name |-> "none", owed |-> 0, reads |-> <<>>, old |-> 0, got |-> <<>>]

Init ==
  /\ bus \in {"busy", "faulty"}
  /\ dev = [next |-> 0, buff |-> <<>>, running |-> FALSE, address_set |-> FALSE,
            state |-> "normal"]
  /\ call = Idle
  /\ chip = [todo |-> <<>>, auto |-> FALSE]
  /\ count = [calls |-> 0, frame |-> 0]
  /\ mixed = FALSE
  /\ timing = [phase |-> 0, gap |-> 0, marked |-> FALSE]

-----------------------------------------------------------------------------
(* ncn5120_handle_rx: the tick counts down, so the difference of its two   *)
(* readings has the wrong sign for what is added to it.                    *)

Ticks(gap) == (timing.phase + gap) \div (Reload + 1)
Phase(gap) == (timing.phase + gap) % (Reload + 1)
TickDiff(gap) == (Reload - Phase(gap)) + Reload * (Ticks(gap) + 1) - (Reload - timing.phase)

EndOfFrame(gap) == Ticks(gap) >= 1 /\ (TickDiff(gap) * 10) \div Reload > 26

\* A byte that is not a reply: the first of a frame starts the timer; one
\* after a silence is marked END_OF_DATA_PACKET and leaves running at 0.
FrameByte(gap) ==
  /\ dev' = [dev EXCEPT !.running = ~(dev.running /\ EndOfFrame(gap))]
  /\ timing' = [phase |-> Phase(gap), gap |-> IF dev.running THEN gap ELSE 0,
                marked |-> dev.running /\ EndOfFrame(gap)]

Expected == dev.next - 1

ncn5120_handle_rx(b, gap) ==
  IF dev.next > 0
  THEN /\ dev' = [dev EXCEPT !.buff = Append(@, b), !.next = Expected]
       /\ mixed' = (mixed \/ b.call = 0)
       /\ UNCHANGED timing
  ELSE /\ FrameByte(gap)
       /\ mixed' = (mixed \/ b.call # 0)

-----------------------------------------------------------------------------
(* The chip and the bus, external: requests are answered in their order; a *)
(* packet that fails is answered by one U_State byte.  The chip starts to  *)
(* acknowledge frames with the address and stops with the reset.           *)

Answered(r, last) ==
  [todo |-> IF last THEN Tail(chip.todo) ELSE [chip.todo EXCEPT ![1].i = @ + 1],
   auto |-> r.name = "address" \/ (chip.auto /\ r.name # "reset")]

Reply ==
  /\ chip.todo # <<>>
  /\ LET r == Head(chip.todo) IN
       /\ ncn5120_handle_rx([call |-> r.call, i |-> r.i], 0)
       /\ chip' = Answered(r, r.i = r.last)
  /\ UNCHANGED <<bus, call, count>>

SendFails ==
  /\ bus = "faulty" /\ chip.todo # <<>>
  /\ Head(chip.todo).name = "packet" /\ Head(chip.todo).i = 1
  /\ ncn5120_handle_rx([call |-> Head(chip.todo).call, i |-> 0], 0)
  /\ chip' = Answered(Head(chip.todo), TRUE)
  /\ UNCHANGED <<bus, call, count>>

KnxByte ==
  /\ bus = "busy" /\ count.frame < MaxFrame
  /\ \E gap \in Gaps : ncn5120_handle_rx([call |-> 0, i |-> 1], gap)
  /\ count' = [count EXCEPT !.frame = @ + 1]
  /\ UNCHANGED <<bus, call, chip>>

-----------------------------------------------------------------------------
(* The steps every call is made of.                                        *)

\* A call: guarded ones return -1 (-2 for a packet) while a frame is being
\* received; owed reply bytes are announced, and read in pieces.
Start(name, guarded, drop, owed, reads) ==
  /\ call.pc = "idle" /\ count.calls < MaxCalls
  /\ ~(guarded /\ dev.running)
  /\ call' = [pc |-> IF drop THEN "drop" ELSE "load", name |-> name, owed |-> owed,
              reads |-> reads, old |-> 0, got |-> <<>>]
  /\ count' = [count EXCEPT !.calls = @ + 1]
  /\ UNCHANGED <<bus, dev, chip, mixed, timing>>

\* ncn5120_drop_cmd_data forgets what was received, not what is expected.
ncn5120_drop_cmd_data ==
  /\ call.pc = "drop"
  /\ dev' = [dev EXCEPT !.buff = <<>>]
  /\ call' = [call EXCEPT !.pc = "load"]
  /\ UNCHANGED <<bus, chip, count, mixed, timing>>

\* ncn5120_set_nb_cmd_req_data adds to the count in two accesses.
LoadCount ==
  /\ call.pc = "load"
  /\ call' = [call EXCEPT !.pc = "store", !.old = dev.next]
  /\ UNCHANGED <<bus, dev, chip, count, mixed, timing>>

StoreCount ==
  /\ call.pc = "store"
  /\ dev' = [dev EXCEPT !.next = call.old + call.owed]
  /\ call' = [call EXCEPT !.pc = "send"]
  /\ UNCHANGED <<bus, chip, count, mixed, timing>>

Announced == call.pc = "send"

\* serial_write of the request; a reset clears the flag once it is out.
ncn5120_send_service_request ==
  /\ Announced
  /\ chip' = IF call.owed = 0 THEN chip
             ELSE [chip EXCEPT !.todo = Append(@, [call |-> count.calls, i |-> 1,
                     last |-> call.owed, name |-> call.name])]
  /\ dev' = IF call.name = "reset" THEN [dev EXCEPT !.state = "reset", !.running = FALSE] ELSE dev
  /\ call' = [call EXCEPT !.pc = IF call.reads = <<>> THEN "return" ELSE "read"]
  /\ UNCHANGED <<bus, count, mixed, timing>>

\* Mutant: the bytes that were read stay at the front of the buffer.
RestKept(n) == dev.buff
Rest(n) == SubSeq(dev.buff, n + 1, Len(dev.buff))

\* ncn5120_get_req_reply_data, with the interrupts disabled for the copy.  A
\* packet whose first byte is a U_State indicator (a frame byte may look like
\* one) drops the rest and returns -3.
ncn5120_get_req_reply_data ==
  /\ call.pc = "read" /\ Len(dev.buff) >= Head(call.reads)
  /\ LET n == Head(call.reads)
         got == SubSeq(dev.buff, 1, n)
         first == call.name = "packet" /\ Len(call.reads) = 3
     IN \E failed \in BOOLEAN :
         /\ failed => first
         /\ (first /\ got[1].call # 0) => (failed = (got[1].i = 0))
         /\ dev' = [dev EXCEPT !.buff = IF failed THEN <<>> ELSE Rest(n)]
         /\ call' = [call EXCEPT !.got = @ \o got,
                      !.reads = IF failed THEN <<>> ELSE Tail(@),
                      !.pc = IF failed \/ Len(call.reads) = 1 THEN "return" ELSE "read"]
  /\ UNCHANGED <<bus, chip, count, mixed, timing>>

-----------------------------------------------------------------------------
(* The calls of the application.  A guarded one, refused while a frame is  *)
(* received, changes nothing.                                              *)

\* A write of a register of the chip has no reply.
ncn5120_set_internal_register(name) == Start(name, FALSE, FALSE, 0, <<>>)
ncn5120_set_analog_config     == ncn5120_set_internal_register("analog")
ncn5120_watchdog_config       == ncn5120_set_internal_register("watchdog")
ncn5120_enter_sleep           == ncn5120_set_internal_register("sleep")
ncn5120_set_number_of_retries == Start("retries", FALSE, FALSE, 0, <<>>)
ncn5120_set_busy_state        == \E n \in {"busy", "quit_busy"} : Start(n, FALSE, FALSE, 0, <<>>)
ncn5120_enter_monitor_mode    == Start("monitor", FALSE, FALSE, 0, <<>>)
ncn5120_packet_acknowledge    == ~dev.address_set /\ Start("acknowledge", FALSE, FALSE, 0, <<>>)
ncn5120_set_comm_config       == Start("config", TRUE, FALSE, 1, <<1>>)
ncn5120_set_address           == Start("address", TRUE, FALSE, 1, <<1>>)
ncn5120_get_analog_status     == Start("status", TRUE, TRUE, 1, <<1>>)
ncn5120_get_comm_status       == Start("comm", FALSE, FALSE, 1, <<1>>)
ncn5120_get_system_status     == Start("system", TRUE, FALSE, 2, <<2>>)
ncn5120_reset                 == Start("reset", FALSE, TRUE, 1, <<1>>)
ncn5120_set_stop_state        == \E n \in {"stop", "quit_stop"} : Start(n, FALSE, FALSE, 1, <<1>>)
ncn5120_send_packet           == Start("packet", TRUE, FALSE, Size + 4, <<1, Size + 1, 2>>)

\* The state a call leaves in current_state, if the reply is the right one.
StateAfter(name, right) ==
  CASE name = "busy"                               -> "busy"
    [] name \in {"quit_busy"}                      -> "normal"
    [] name \in {"reset", "quit_stop"} /\ right    -> "normal"
    [] name = "stop" /\ right                      -> "stop"
    [] name = "sleep"                              -> "sleep"
    [] name = "monitor"                            -> "monitor"
    [] OTHER                                       -> dev.state

Return ==
  /\ call.pc = "return"
  /\ \E right \in BOOLEAN :
       /\ (call.got # <<>> /\ call.got[1].call # 0) =>
            right = (call.got[1].call = count.calls)
       /\ dev' = [dev EXCEPT !.state = StateAfter(call.name, right),
                             !.address_set = @ \/ call.name = "address"]
  /\ call' = [Idle EXCEPT !.name = call.name, !.got = call.got]
  /\ UNCHANGED <<bus, chip, count, mixed, timing>>

Step ==
  \/ ncn5120_drop_cmd_data \/ LoadCount \/ StoreCount
  \/ ncn5120_send_service_request \/ ncn5120_get_req_reply_data \/ Return

Chip == Reply \/ SendFails

Next ==
  \/ Step \/ Chip \/ KnxByte
  \/ ncn5120_set_analog_config \/ ncn5120_watchdog_config \/ ncn5120_enter_sleep
  \/ ncn5120_set_number_of_retries
  \/ ncn5120_set_busy_state \/ ncn5120_enter_monitor_mode \/ ncn5120_packet_acknowledge
  \/ ncn5120_set_comm_config \/ ncn5120_set_address \/ ncn5120_get_analog_status
  \/ ncn5120_get_comm_status \/ ncn5120_get_system_status \/ ncn5120_reset
  \/ ncn5120_set_stop_state \/ ncn5120_send_packet

Spec == Init /\ [][Next]_vars

\* The main loop runs and the chip answers what it was asked.
FairSpec == Spec /\ WF_vars(Step) /\ WF_vars(Chip)

-----------------------------------------------------------------------------
(* Properties.                                                             *)

\* What a call read is its own reply from the first byte on, unless a byte of
\* a frame was taken for a reply or a late reply for a byte of a frame: bytes
\* that a failed packet left expected, a count that lost the interrupt's
\* change and bytes left in the buffer do not shift the replies
\* (ncn5120_drop_cmd_data, ncn5120_get_req_reply_data).
RepliesMatch ==
  mixed \/ \A k \in DOMAIN call.got : call.got[k].call = count.calls /\ call.got[k].i \in {0, k}

\* Every call that waits for a reply returns: the count that is announced is
\* never below what the chip will send (ncn5120_set_nb_cmd_req_data adds to it
\* while the interrupt decreases it).
CallsReturn == []<>(call.pc = "idle")

\* A silence of three milliseconds is found whatever the phase of the tick:
\* the byte after it ends the frame (ncn5120_handle_rx).
LongGapsMarked == timing.gap >= 3 * (Reload + 1) => timing.marked
=============================================================================
