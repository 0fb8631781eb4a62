----------------------------- MODULE RfMessage -----------------------------
(***************************************************************************)
(* The arithmetic that cuts a line into packets on one board and tells the *)
(* other board how long the line was: main.c, send_message, send_on_rf and *)
(* the end of loop().  Nothing but numbers crosses the air: nbpacket,      *)
(* lastPacketLen and the block count of each packet; the receiver rebuilds *)
(* the length and the number of encrypted blocks from them.                *)
(*                                                                         *)
(* The state is uart_ptr: every length a line can have is visited.         *)
(***************************************************************************)
EXTENDS Integers

CONSTANTS
  BlockLen,    \* PAYLOAD_BLOC_LEN and ENCRYPT_BLOCK_LEN
  MaxBlocks,   \* MAX_NB_BLOCK
  BuffLen,     \* MESSAGE_BUFF_LEN and UART_BUFF_LEN
  MaxLen,      \* bound: the longest line tried
  FifoSize     \* CC1101_FIFO_SIZE

ASSUME MessageAssumption ==
  /\ BlockLen \in Nat \ {0}
  /\ MaxBlocks \in Nat \ {0}
  /\ BuffLen \in Nat
  /\ MaxLen \in Nat
  /\ FifoSize \in Nat

\* The widths of lastPacketLen, of the block counts and of messageLen: 48,
\* 32 and 512 in the code.
ASSUME WidthAssumption ==
  /\ MaxBlocks * BlockLen <= 256
  /\ MaxLen < 256 * BlockLen
  /\ MaxLen < 65536

VARIABLE uart_ptr

PacketLen == MaxBlocks * BlockLen   \* payload of a full packet

Byte(x) == x % 256                  \* uint8_t
Half(x) == x % 65536                \* uint16_t

-----------------------------------------------------------------------------
(* The sender.                                                             *)

\* Blocks that encrypt() covers: the bytes of a last partial block are not.
nb_bloc(len) == len \div BlockLen

nbPacketToSend(nb) == Byte(nb \div MaxBlocks)

\* Mutant: the block that is not full is counted twice.
nbBlocLastTwice(nb) == (nb % MaxBlocks) + 2
nbBlocLast(nb) ==
  LET r == Byte((nb % MaxBlocks) + 1) IN IF r = 0 THEN MaxBlocks ELSE r

\* Mutant: the length of the last packet is that of its last block.
lastPacketLenOfBlock(len) == len % BlockLen
lastPacketLen(len) == Byte(len % PacketLen)

\* Blocks carried by packet id.
Blocks(nb, id) ==
  IF id < nbPacketToSend(nb) THEN MaxBlocks ELSE nbBlocLast(nb)

\* The bytes of txBuff packet id carries, as a half-open interval.
SliceStart(id)   == id * PacketLen
SliceEnd(nb, id) == SliceStart(id) + Blocks(nb, id) * BlockLen

\* Bytes written to the chip: the 8-byte header, count, CRC and the blocks,
\* and one more that "packetLen + 1" adds; the receiving chip appends two.
BytesOnAir(nb, id) == 8 + 4 + 1 + Blocks(nb, id) * BlockLen + 1

-----------------------------------------------------------------------------
(* The receiver.                                                           *)

messageLen(nbpacket, lastLen) == Half(lastLen + nbpacket * PacketLen)

DecryptedBlocks(mlen) == Byte(mlen \div BlockLen)

-----------------------------------------------------------------------------
Init == uart_ptr = 0
Next == uart_ptr < MaxLen /\ uart_ptr' = uart_ptr + 1
Spec == Init /\ [][Next]_uart_ptr

Packets(len)  == 0 .. nbPacketToSend(nb_bloc(len))
Received(len) == messageLen(nbPacketToSend(nb_bloc(len)), lastPacketLen(len))

\* The receiver rebuilds the length of the line from nbpacket and
\* lastPacketLen, although neither was computed from the other.
LengthRebuilt == Received(uart_ptr) = uart_ptr

\* It decrypts as many blocks as the sender encrypted: one more or one less
\* and the end of the line is garbage.
SameBlocks == DecryptedBlocks(Received(uart_ptr)) = nb_bloc(uart_ptr)

\* The packets carry every byte of the line: consecutive slices meet and the
\* last one ends at or past the end of the line.
EveryByteCarried ==
  LET nb == nb_bloc(uart_ptr)
      last == nbPacketToSend(nb)
  IN  /\ \A id \in 1 .. last : SliceEnd(nb, id - 1) = SliceStart(id)
      /\ uart_ptr <= SliceEnd(nb, last)

\* The line arrives as it was cut: its length, its blocks and every byte.
LineRebuilt == LengthRebuilt /\ SameBlocks /\ EveryByteCarried

\* Every packet fits the chip's FIFO, with its two status bytes, and its
\* block count the two bits of mtype_nbpay.
PacketsFit ==
  \A id \in Packets(uart_ptr) :
    /\ BytesOnAir(nb_bloc(uart_ptr), id) + 2 <= FifoSize
    /\ Blocks(nb_bloc(uart_ptr), id) \in 1 .. 3

\* The slices lie within txBuff, where they are read from, and rxBuff, where
\* they are written to.
SlicesInBuffer ==
  \A id \in Packets(uart_ptr) : SliceEnd(nb_bloc(uart_ptr), id) <= BuffLen

\* Every packet of every line fits where it is put: FIFO, header and buffers.
LineFits == PacketsFit /\ SlicesInBuffer
=============================================================================
