-------------------------------- MODULE Ssp --------------------------------
(***************************************************************************)
(* One transfer of several frames over SPI (drivers/ssp.c): the loop that  *)
(* feeds the transmit FIFO and empties the receive FIFO, against a bus     *)
(* that goes on shifting while an interrupt keeps the loop waiting.  Frame *)
(* i of the transfer is the number i.                                      *)
(***************************************************************************)
EXTENDS Integers, Sequences

CONSTANTS
  Depth,    \* frames each FIFO holds
  MaxSize,  \* bound: frames of a transfer
  Pace,     \* turns of the loops a frame takes at least
  Stalls    \* how many frames may pass while an interrupt stops the loop

SspAssumption ==
  /\ Depth \in Nat /\ Depth > 1
  /\ MaxSize \in Nat
  /\ Pace \in Nat /\ Stalls \subseteq Nat

VARIABLES
  ssp,   \* the device: its mutex, the FIFOs, and a frame lost in this transfer
  xfer,  \* the transfer under way and where its loop is
  lag    \* turns since the last frame left, and frames that may still leave
         \* while the loop is interrupted

vars == <<ssp, xfer, lag>>

NoTransfer == [pc |-> "off", width |-> "bytes", size |-> 0, count |-> 0, in |-> <<>>]

Init ==
  /\ ssp = [on |-> FALSE, mutex |-> FALSE, tx |-> <<>>, rx |-> <<>>, overrun |-> FALSE]
  /\ xfer = NoTransfer
  /\ lag = [turns |-> 0, left |-> 0, stall |-> 0]

TxNotFull   == Len(ssp.tx) < Depth
TxHalfEmpty == Len(ssp.tx) <= Depth \div 2
RxFull      == Len(ssp.rx) = Depth
RxNotEmpty  == ssp.rx # <<>>
Turn        == lag' = [lag EXCEPT !.turns = IF @ < Pace THEN @ + 1 ELSE @,
                                  !.left = IF @ < lag.stall THEN 0 ELSE @]

\* The bus, external: a frame leaves and the answer to it arrives; with the
\* receive FIFO full it is lost.
Shift ==
  /\ ssp.tx # <<>>
  /\ \/ lag.turns = Pace /\ lag' = [lag EXCEPT !.turns = 0]
     \/ lag.left > 0 /\ lag' = [lag EXCEPT !.left = @ - 1, !.turns = 0]
  /\ ssp' = [ssp EXCEPT !.tx = Tail(@),
       !.rx = IF RxFull THEN @ ELSE Append(@, Head(ssp.tx)), !.overrun = @ \/ RxFull]
  /\ UNCHANGED xfer

-----------------------------------------------------------------------------
(* ssp_master_on, ssp_off and the mutex.                                   *)

ssp_master_on ==
  /\ xfer.pc = "off"
  /\ ssp' = [ssp EXCEPT !.on = TRUE]
  /\ xfer' = [NoTransfer EXCEPT !.pc = "idle"]
  /\ UNCHANGED lag

ssp_off ==
  /\ xfer.pc = "idle"
  /\ ssp' = [ssp EXCEPT !.on = FALSE, !.mutex = FALSE]
  /\ xfer' = NoTransfer
  /\ UNCHANGED lag

\* -EBUSY, and no change, when it is taken.
spi_get_mutex ==
  /\ xfer.pc = "idle" /\ ~ssp.mutex
  /\ ssp' = [ssp EXCEPT !.mutex = TRUE]
  /\ UNCHANGED <<xfer, lag>>

spi_release_mutex ==
  /\ xfer.pc = "idle" /\ ssp.mutex
  /\ ssp' = [ssp EXCEPT !.mutex = FALSE]
  /\ UNCHANGED <<xfer, lag>>

-----------------------------------------------------------------------------
(* The transfers.                                                          *)

\* One frame: written, waited for, read.
spi_transfer_single_frame ==
  /\ xfer.pc = "idle" /\ ssp.mutex
  /\ ssp.tx = <<>> /\ ssp.rx = <<>>
  /\ xfer' = [xfer EXCEPT !.size = 1, !.count = 1, !.in = <<1>>]
  /\ lag' = [lag EXCEPT !.stall = 0]
  /\ ssp' = [ssp EXCEPT !.overrun = FALSE]

spi_transfer_multiple_frames ==
  /\ xfer.pc = "idle" /\ ssp.mutex
  /\ \E size \in 1 .. MaxSize, width \in {"bytes", "words"} :
       xfer' = [pc |-> "fill", width |-> width, size |-> size, count |-> 0, in |-> <<>>]
  /\ \E n \in Stalls : lag' = [turns |-> 0, left |-> n, stall |-> n]
  /\ ssp' = [ssp EXCEPT !.overrun = FALSE]

More == xfer.count < xfer.size

CanFill == More /\ TxNotFull /\ ~RxFull

\* One turn of the first loop.
Fill ==
  /\ xfer.pc = "fill"
  /\ IF CanFill
     THEN /\ ssp' = [ssp EXCEPT !.tx = Append(@, xfer.count + 1)]
          /\ xfer' = [xfer EXCEPT !.count = @ + 1]
     ELSE xfer' = [xfer EXCEPT !.pc = "drain"] /\ UNCHANGED ssp
  /\ Turn

\* spi_transfer_words stops reading when the transmit FIFO runs short;
\* spi_transfer_bytes reads on while the receive FIFO is full.
DrainWords == RxNotEmpty /\ ~(More /\ TxHalfEmpty)
DrainBytes == RxFull \/ DrainWords
CanDrain == IF xfer.width = "bytes" THEN DrainBytes ELSE DrainWords

\* One turn of the second loop, then the condition of the outer one.
Drain ==
  /\ xfer.pc = "drain"
  /\ IF CanDrain
     THEN /\ xfer' = [xfer EXCEPT !.in = Append(@, Head(ssp.rx))]
          /\ ssp' = [ssp EXCEPT !.rx = Tail(@)]
     ELSE /\ xfer' = [xfer EXCEPT !.pc = "again"]
          /\ UNCHANGED ssp
  /\ Turn

\* Mutant: the transfer ends when the last frame is in the FIFO.
OverWhenSent == ~More
Over == ~More /\ ssp.tx = <<>> /\ ~RxNotEmpty

Again ==
  /\ xfer.pc = "again"
  /\ xfer' = [xfer EXCEPT !.pc = IF Over THEN "idle" ELSE "fill"]
  /\ Turn
  /\ UNCHANGED ssp

Next ==
  \/ Shift \/ ssp_master_on \/ ssp_off \/ spi_get_mutex \/ spi_release_mutex
  \/ spi_transfer_single_frame \/ spi_transfer_multiple_frames \/ Fill \/ Drain \/ Again

Spec == Init /\ [][Next]_vars

-----------------------------------------------------------------------------
(* Properties.                                                             *)

\* With a frame that takes four turns of the loop, a transfer may be
\* interrupted once for half the FIFO: the buffer still gets the answer to
\* every frame in order, the FIFOs are empty for the next transfer and neither
\* loop waits for the other.  (A longer interrupt or a faster bus loses frames,
\* and brings a transfer of words to a standstill.)
FramesKept ==
  (Pace >= 4 /\ lag.stall <= Depth \div 2) =>
    /\ xfer.pc = "idle" => /\ xfer.in = [i \in 1 .. xfer.size |-> i]
                           /\ ssp.rx = <<>> /\ ssp.tx = <<>>
    /\ ~ssp.overrun
    /\ (xfer.pc = "again" /\ ssp.tx = <<>> /\ More) => (CanFill \/ CanDrain)
=============================================================================
