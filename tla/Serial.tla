------------------------------- MODULE Serial -------------------------------
(***************************************************************************)
(* One UART of drivers/serial.c: callers of serial_write, serial_flush and *)
(* serial_send_quickbyte against the interrupt that feeds the transmitter  *)
(* and takes received bytes.  "main" is the main loop, "irq" a handler     *)
(* that preempts it (its own priority is below the UART's); a caller may   *)
(* have masked the interrupts.                                             *)
(*                                                                         *)
(* A byte is <<call, index>>: a byte of a message, or <<0, n>> for a quick *)
(* byte or an echo.                                                        *)
(***************************************************************************)
EXTENDS Integers, FiniteSets, Sequences, SequencesExt, FiniteSetsExt

CONSTANTS
  OutSize,      \* SERIAL_OUT_BUFF_SIZE
  Lengths,      \* the lengths callers give
  MaxCalls,     \* bound: calls of serial_write
  MaxQuick,     \* bound: quick bytes and received bytes
  RxWhenMasked  \* whether bytes may come on a board whose callers mask the interrupts

SerialAssumption ==
  /\ OutSize \in Nat \ {0}
  /\ Lengths \subseteq Nat
  /\ MaxCalls \in Nat /\ MaxQuick \in Nat
  /\ RxWhenMasked \in BOOLEAN

VARIABLES
  masks,     \* whether callers of this board mask the interrupts
  uart,      \* out_buff, out_length, sending, out_lock and rx_callback
  fifo,      \* the bytes the transmitter holds
  txi,       \* the transmitter is empty and its interrupt was not read yet
  rxi,       \* a byte was received
  callers,   \* where each caller is
  wire,      \* the bytes that left
  accepted,  \* the messages serial_write took, cut to the buffer
  quick      \* how many quick and received bytes there were

vars == <<masks, uart, fifo, txi, rxi, callers, wire, accepted, quick>>

Callers == {"main", "irq"}
Off == [power |-> FALSE, buff |-> <<>>, sending |-> 0, lock |-> FALSE, callback |-> FALSE]
Resting == [pc |-> "idle", length |-> 0, masked |-> FALSE]

Init ==
  /\ masks \in BOOLEAN
  /\ uart = Off
  /\ fifo = <<>> /\ txi = FALSE /\ rxi = FALSE
  /\ callers = [c \in Callers |-> Resting]
  /\ wire = <<>> /\ accepted = <<>> /\ quick = 0

Masked == \E c \in Callers : callers[c].masked
\* The handler runs to its end before the main loop goes on, and does not
\* start while that one has masked the interrupts.
Runs(c) == IF c = "main" THEN callers["irq"].pc = "idle" ELSE ~callers["main"].masked
InFlight == Cardinality({c \in Callers : callers[c].pc \in {"wait", "copy"}})
Idle == \A c \in Callers : callers[c].pc = "idle"

-----------------------------------------------------------------------------
(* Registers.  Reading intr_pending shows the received byte first, and the *)
(* empty transmitter only without one; the read acknowledges the latter.   *)

\* regs->func.buffer = b
Transmit(b) == fifo' = Append(fifo, b) /\ txi' = FALSE

ShiftOut ==
  /\ fifo # <<>>
  /\ wire' = Append(wire, Head(fifo))
  /\ fifo' = Tail(fifo)
  /\ txi' = (Len(fifo) = 1)
  /\ UNCHANGED <<masks, uart, rxi, callers, accepted, quick>>

Receive ==
  /\ uart.power /\ ~rxi
  /\ quick < MaxQuick
  /\ masks => RxWhenMasked
  /\ rxi' = TRUE
  /\ quick' = quick + 1
  /\ UNCHANGED <<masks, uart, fifo, txi, callers, wire, accepted>>

-----------------------------------------------------------------------------
(* The interrupt.                                                          *)

\* Mutant: the position is kept after the last byte.
DoneStays == uart.sending
Done == 0

More == uart.sending # 0 /\ Len(uart.buff) > uart.sending

\* uart_check_tx, once the read has shown an empty transmitter
CheckTx ==
  IF More
  THEN /\ Transmit(uart.buff[uart.sending + 1])
       /\ uart' = [uart EXCEPT !.sending = @ + 1]
  ELSE /\ uart' = [uart EXCEPT !.sending = Done]
       /\ txi' = FALSE
       /\ UNCHANGED fifo

UartHandlerTx ==
  /\ txi /\ ~rxi /\ ~Masked
  /\ CheckTx
  /\ UNCHANGED <<masks, rxi, callers, wire, accepted, quick>>

\* uart_check_rx: the callback, or an echo unless a message is going out.
UartHandlerRx ==
  /\ rxi /\ ~Masked
  /\ rxi' = FALSE
  /\ IF uart.callback \/ uart.sending # 0
     THEN UNCHANGED <<fifo, txi>>
     ELSE Transmit(<<0, quick>>)
  /\ UNCHANGED <<masks, uart, callers, wire, accepted, quick>>

-----------------------------------------------------------------------------
(* The callers.                                                            *)

At(c, pc) == callers[c].pc = pc /\ Runs(c)
Goto(c, pc) == callers' = [callers EXCEPT ![c].pc = pc]
Return(c) == callers' = [callers EXCEPT ![c] = Resting]

\* Mutant: the lock is taken whether it was free or not.
RefusedNever == FALSE
Refused == uart.lock

\* serial_write: -EBUSY when another call holds the lock
SerialWrite(c) ==
  /\ uart.power /\ At(c, "idle")
  /\ Len(accepted) + InFlight < MaxCalls
  /\ \E n \in Lengths, m \in {FALSE, masks} :
       IF Refused
       THEN UNCHANGED <<uart, callers>>
       ELSE /\ uart' = [uart EXCEPT !.lock = TRUE]
            /\ callers' = [callers EXCEPT ![c] =
                 [pc |-> "wait", length |-> n, masked |-> m]]
  /\ UNCHANGED <<masks, fifo, txi, rxi, wire, accepted, quick>>

\* One turn of a wait for sending to be 0: with the interrupts masked the
\* caller runs uart_check_tx itself.
WaitTurn(c, next) ==
  IF uart.sending = 0
  THEN Goto(c, next) /\ UNCHANGED <<uart, fifo, txi>>
  ELSE /\ callers[c].masked /\ txi /\ ~rxi
       /\ CheckTx
       /\ UNCHANGED callers

WaitWrite(c) ==
  /\ At(c, "wait")
  /\ WaitTurn(c, "copy")
  /\ UNCHANGED <<masks, rxi, wire, accepted, quick>>

\* The clip to the buffer and memcpy.
CopyOut(c) ==
  /\ At(c, "copy")
  /\ LET m == [i \in 1 .. Min({callers[c].length, OutSize}) |-> <<Len(accepted) + 1, i>>]
     IN  /\ uart' = [uart EXCEPT !.buff = m]
         /\ accepted' = Append(accepted, m)
  /\ Goto(c, "start")
  /\ UNCHANGED <<masks, fifo, txi, rxi, wire, quick>>

\* uart_start_sending
StartSending(c) ==
  /\ At(c, "start")
  /\ IF uart.sending = 0 /\ uart.buff # <<>>
     THEN /\ uart' = [uart EXCEPT !.sending = 1]
          /\ Transmit(uart.buff[1])
     ELSE UNCHANGED <<uart, fifo, txi>>
  /\ Goto(c, "release")
  /\ UNCHANGED <<masks, rxi, wire, accepted, quick>>

\* sync_lock_release
Release(c) ==
  /\ At(c, "release")
  /\ uart' = [uart EXCEPT !.lock = FALSE]
  /\ Return(c)
  /\ UNCHANGED <<masks, fifo, txi, rxi, wire, accepted, quick>>

SerialFlush(c) ==
  /\ uart.power /\ At(c, "idle")
  /\ \E m \in {FALSE, masks} :
       callers' = [callers EXCEPT ![c] = [pc |-> "flush", length |-> 0, masked |-> m]]
  /\ UNCHANGED <<masks, uart, fifo, txi, rxi, wire, accepted, quick>>

WaitFlush(c) ==
  /\ At(c, "flush")
  /\ IF uart.sending = 0
     THEN Return(c) /\ UNCHANGED <<uart, fifo, txi>>
     ELSE WaitTurn(c, "flush")
  /\ UNCHANGED <<masks, rxi, wire, accepted, quick>>

QuickFree == uart.sending = 0

SerialSendQuickbyte(c) ==
  /\ uart.power /\ At(c, "idle") /\ quick < MaxQuick
  /\ QuickFree
  /\ Transmit(<<0, quick + 1>>)
  /\ quick' = quick + 1
  /\ UNCHANGED <<masks, uart, rxi, callers, wire, accepted>>

\* uart_on and uart_off, called when nobody uses the UART: either one clears
\* the FIFOs and leaves sending as it is.
UartOn ==
  /\ ~uart.power /\ Idle
  /\ \E cb \in BOOLEAN : uart' = [uart EXCEPT !.power = TRUE, !.callback = cb]
  /\ fifo' = <<>> /\ txi' = FALSE /\ rxi' = FALSE
  /\ UNCHANGED <<masks, callers, wire, accepted, quick>>

UartOff ==
  /\ uart.power /\ Idle /\ uart.sending = 0 /\ fifo = <<>>
  /\ uart' = [uart EXCEPT !.power = FALSE, !.callback = FALSE]
  /\ fifo' = <<>> /\ txi' = FALSE /\ rxi' = FALSE
  /\ UNCHANGED <<masks, callers, wire, accepted, quick>>

Call(c) == SerialWrite(c) \/ SerialFlush(c) \/ SerialSendQuickbyte(c)
Busy(c) == WaitWrite(c) \/ CopyOut(c) \/ StartSending(c) \/ Release(c) \/ WaitFlush(c)
UartHandler == UartHandlerTx \/ UartHandlerRx

Next ==
  \/ ShiftOut \/ Receive \/ UartHandler \/ UartOn \/ UartOff
  \/ \E c \in Callers : Call(c) \/ Busy(c)

\* The transmitter shifts, the interrupt is served; a caller that can go on
\* does, the main loop between the handlers that preempt it.
Fairness ==
  /\ WF_vars(ShiftOut)
  /\ WF_vars(UartHandler)
  /\ \A c \in Callers : SF_vars(Busy(c))

Spec == Init /\ [][Next]_vars
FairSpec == Spec /\ Fairness

-----------------------------------------------------------------------------
(* Properties.                                                             *)

\* The bytes sent or about to be.
Sent == wire \o fifo

\* What leaves is the messages serial_write accepted, one after the other and
\* whole, with quick bytes and echoes only between them, never inside one:
\* whoever calls from where, with the interrupts masked or not.  A byte of a
\* message follows the byte before it, and the first byte of a message the last
\* one of every message before it.
MessagesWhole ==
  \A j \in DOMAIN Sent : Sent[j][1] # 0 =>
    LET c == Sent[j][1]
        i == Sent[j][2]
    IN  /\ c \in DOMAIN accepted /\ i \in DOMAIN accepted[c]
        /\ i > 1 => j > 1 /\ Sent[j - 1] = <<c, i - 1>>
        /\ i = 1 => \A k \in 1 .. (j - 1) : Sent[k][1] < c
        /\ i = 1 => \A d \in 1 .. (c - 1) : accepted[d] # <<>> =>
             \E k \in 1 .. (j - 1) : Sent[k] = <<d, Len(accepted[d])>>

\* A call that was let in returns, and the message it leaves behind goes out
\* to its last byte.
AllOut == Len(SelectSeq(wire, LAMBDA b : b[1] # 0)) = Len(FlattenSeq(accepted))
WritesReturn == []<>(Idle /\ (Len(accepted) = MaxCalls => AllOut))
=============================================================================
