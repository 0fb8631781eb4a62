--------------------------- MODULE RfMessageProofs ---------------------------
(***************************************************************************)
(* The arithmetic of RfMessage is right for every block size, packet size  *)
(* and line length that the widths of its fields allow.                    *)
(***************************************************************************)
EXTENDS RfMessage, TLAPS

\* Division with remainder, as facts of their own.
LEMMA DivMod ==
  ASSUME NEW n \in Nat, NEW d \in Nat \ {0}
  PROVE  /\ n \div d \in Nat
         /\ n % d \in 0 .. d - 1
         /\ n = d * (n \div d) + (n % d)
  OBVIOUS

\* A quotient is determined by the interval its dividend lies in.
LEMMA DivUnique ==
  ASSUME NEW n \in Nat, NEW d \in Nat \ {0}, NEW q \in Nat,
         d * q <= n, n < d * (q + 1)
  PROVE  n \div d = q
  OBVIOUS

\* Cutting into blocks and the blocks into packets is cutting into packets.
LEMMA DivDiv ==
  ASSUME NEW n \in Nat, NEW b \in Nat \ {0}, NEW m \in Nat \ {0}
  PROVE  (n \div b) \div m = n \div (m * b)
  <1> DEFINE q == n \div b
             p == q \div m
             r == n % b
             s == q % m
  <1>1. q \in Nat /\ r \in 0 .. b - 1 /\ n = b * q + r
    BY DivMod
  <1>2. p \in Nat /\ s \in 0 .. m - 1 /\ q = m * p + s
    BY <1>1, DivMod
  <1> HIDE DEF q, p, r, s
  <1>3. m * b \in Nat \ {0}
    OBVIOUS
  <1>4. n = (m * b) * p + (b * s + r)
    <2>1. b * q = (m * b) * p + b * s
      BY <1>2
    <2> QED BY <1>1, <2>1, <1>2, <1>3
  <1>5. b * s + r \in Nat /\ b * s + r < m * b
    <2>1. b * s \in Nat /\ b * s <= b * (m - 1)
      BY <1>2
    <2>2. b * (m - 1) = m * b - b
      OBVIOUS
    <2> QED BY <1>1, <2>1, <2>2, <1>3
  <1>6. (m * b) * p <= n /\ n < (m * b) * (p + 1)
    <2>1. (m * b) * (p + 1) = (m * b) * p + m * b
      BY <1>2, <1>3
    <2>2. (m * b) * p \in Nat
      BY <1>2, <1>3
    <2> QED BY <1>3, <1>4, <1>5, <2>1, <2>2
  <1>7. n \div (m * b) = p
    BY <1>2, <1>3, <1>6, DivUnique
  <1> QED BY <1>7 DEF p, q

-----------------------------------------------------------------------------
\* uart_ptr never passes the bound on the length of a line.
LenOK == uart_ptr \in 0 .. MaxLen

\* The length of a line counts up to MaxLen: the range that the byte and
\* half-word fields of the header have to represent.
THEOREM LenInvariant == Spec => []LenOK
  <1>1. Init => LenOK
    BY MessageAssumption DEF Init, LenOK
  <1>2. LenOK /\ [Next]_uart_ptr => LenOK'
    BY MessageAssumption DEF LenOK, Next
  <1> QED BY <1>1, <1>2, PTL DEF Spec

\* No field of the header truncates what send_message and send_on_rf put in
\* it: the number of packets, the length of the last one, their sum.
LEMMA FieldsFit ==
  ASSUME NEW len \in 0 .. MaxLen
  PROVE  /\ PacketLen \in Nat \ {0}
         /\ len \div PacketLen \in Nat /\ len % PacketLen \in Nat
         /\ len = PacketLen * (len \div PacketLen) + (len % PacketLen)
         /\ nbPacketToSend(nb_bloc(len)) = len \div PacketLen
         /\ lastPacketLen(len) = len % PacketLen
  <1> DEFINE p == len \div PacketLen
             r == len % PacketLen
  <1>1. len \in Nat /\ len < 256 * BlockLen /\ BlockLen \in Nat \ {0}
    BY MessageAssumption, WidthAssumption
  <1>2. PacketLen \in Nat \ {0} /\ PacketLen <= 256 /\ BlockLen <= PacketLen
    BY MessageAssumption, WidthAssumption DEF PacketLen
  <1>3. p \in Nat /\ r \in 0 .. PacketLen - 1 /\ len = PacketLen * p + r
    BY <1>1, <1>2, DivMod
  <1>4. (len \div BlockLen) \div MaxBlocks = p
    BY <1>1, MessageAssumption, DivDiv DEF PacketLen
  <1> HIDE DEF p, r
  <1>5. p < 256
    <2> SUFFICES ASSUME p >= 256 PROVE FALSE
      BY <1>3
    <2>1. BlockLen * p <= PacketLen * p
      BY <1>1, <1>2, <1>3
    <2>2. BlockLen * 256 <= BlockLen * p
      BY <1>1, <1>3
    <2>3. PacketLen * p \in Nat
      BY <1>2, <1>3
    <2> QED BY <1>1, <1>2, <1>3, <2>1, <2>2, <2>3
  <1>6. p % 256 = p /\ r % 256 = r
    BY <1>2, <1>3, <1>5
  <1>7. r \in Nat
    BY <1>2, <1>3
  <1> QED
    BY <1>2, <1>3, <1>4, <1>6, <1>7
    DEF p, r, nbPacketToSend, nb_bloc, lastPacketLen, Byte

\* The length the receiver rebuilds is the length that was typed.
LEMMA ReceivedIsTyped ==
  ASSUME NEW len \in 0 .. MaxLen
  PROVE  Received(len) = len
  <1> DEFINE p == len \div PacketLen
             r == len % PacketLen
  <1>1. /\ PacketLen \in Nat \ {0}
        /\ nbPacketToSend(nb_bloc(len)) = p
        /\ lastPacketLen(len) = r
    BY FieldsFit
  <1>2. len \in Nat /\ len < 65536
    BY MessageAssumption, WidthAssumption
  <1>3. p \in Nat /\ r \in Nat /\ len = PacketLen * p + r
    BY FieldsFit
  <1> HIDE DEF p, r
  <1>4. r + p * PacketLen = len
    BY <1>1, <1>3
  <1>5. len % 65536 = len
    BY <1>2
  <1> QED BY <1>1, <1>4, <1>5 DEF Received, messageLen, Half

\* For every packet geometry and every line the fields can describe, the
\* length crosses the air: what loop() rebuilds from nbpacket and
\* lastPacketLen is the uart_ptr of the sender.
THEOREM LengthRebuiltAlways == Spec => []LengthRebuilt
  <1>1. LenOK => LengthRebuilt
    BY ReceivedIsTyped DEF LenOK, LengthRebuilt
  <1> QED BY <1>1, LenInvariant, PTL

\* The receiver decrypts exactly the blocks the sender encrypted, unless the
\* line has 256 blocks or more.
THEOREM SameBlocksAlways == Spec => []SameBlocks
  <1>1. ASSUME LenOK PROVE SameBlocks
    <2>1. uart_ptr \in Nat /\ uart_ptr < 256 * BlockLen
      BY <1>1, MessageAssumption, WidthAssumption DEF LenOK
    <2> DEFINE q == uart_ptr \div BlockLen
    <2>2. /\ q \in Nat
          /\ uart_ptr % BlockLen \in 0 .. BlockLen - 1
          /\ uart_ptr = BlockLen * q + (uart_ptr % BlockLen)
      BY <2>1, MessageAssumption, DivMod
    <2> HIDE DEF q
    <2>3. q < 256
      <3> SUFFICES ASSUME q >= 256 PROVE FALSE
        BY <2>2
      <3>1. BlockLen * 256 <= BlockLen * q
        BY <2>2, MessageAssumption
      <3> QED BY <2>1, <2>2, <3>1, MessageAssumption
    <2>4. q % 256 = q
      BY <2>2, <2>3
    <2>5. Received(uart_ptr) = uart_ptr
      BY <1>1, ReceivedIsTyped DEF LenOK
    <2> QED BY <2>4, <2>5 DEF q, SameBlocks, DecryptedBlocks, nb_bloc, Byte
  <1> QED BY <1>1, LenInvariant, PTL

\* The block count of the last packet: the test for 0 is needed only when a
\* packet has 256 blocks and the byte wraps.
LEMMA LastBlocks ==
  ASSUME NEW nb \in Nat
  PROVE  nbBlocLast(nb) = (nb % MaxBlocks) + 1
  <1> DEFINE s == nb % MaxBlocks
  <1>1. MaxBlocks \in Nat \ {0} /\ MaxBlocks <= 256
    <2>1. MaxBlocks * 1 <= MaxBlocks * BlockLen
      BY MessageAssumption
    <2> QED BY <2>1, MessageAssumption, WidthAssumption
  <1>2. s \in 0 .. MaxBlocks - 1
    BY <1>1, DivMod
  <1> HIDE DEF s
  <1>3. CASE s = 255
    <2>1. (s + 1) % 256 = 0 /\ MaxBlocks = s + 1
      BY <1>1, <1>2, <1>3
    <2> QED BY <2>1 DEF s, nbBlocLast, Byte
  <1>4. CASE s # 255
    <2>1. (s + 1) % 256 = s + 1 /\ s + 1 # 0
      BY <1>1, <1>2, <1>4
    <2> QED BY <2>1 DEF s, nbBlocLast, Byte
  <1> QED BY <1>3, <1>4

\* What send_message makes of a line: its packets hold its blocks, the last
\* packet what is left, the partial block included.
LEMMA LineInPackets ==
  ASSUME NEW len \in 0 .. MaxLen,
         NEW q, q = nb_bloc(len),
         NEW p, p = nbPacketToSend(q)
  PROVE  /\ q \in Nat /\ p \in Nat
         /\ BlockLen * q \in Nat /\ BlockLen * q <= len /\ len < BlockLen * q + BlockLen
         /\ \A id \in 0 .. p : Blocks(q, id) \in 1 .. MaxBlocks
         /\ \A id \in 0 .. p - 1 : SliceEnd(q, id) = SliceStart(id + 1)
         /\ SliceEnd(q, p) = BlockLen * q + BlockLen
  <1> DEFINE s == q % MaxBlocks
  <1>1. len \in Nat
    BY MessageAssumption
  <1>2. q \in Nat /\ len % BlockLen \in 0 .. BlockLen - 1 /\ len = BlockLen * q + (len % BlockLen)
    BY <1>1, MessageAssumption, DivMod DEF nb_bloc
  <1>3. BlockLen * q \in Nat /\ BlockLen * q <= len /\ len < BlockLen * q + BlockLen
    BY <1>1, <1>2, MessageAssumption
  <1>4. p = q \div MaxBlocks
    <2>1. p = len \div PacketLen
      BY FieldsFit
    <2> QED BY <1>1, <2>1, MessageAssumption, DivDiv DEF PacketLen, nb_bloc
  <1>5. p \in Nat /\ s \in 0 .. MaxBlocks - 1 /\ q = MaxBlocks * p + s
    BY <1>2, <1>4, MessageAssumption, DivMod
  <1>6. nbBlocLast(q) = s + 1
    BY <1>2, LastBlocks
  <1> HIDE DEF s
  <1>7. \A id \in 0 .. p : Blocks(q, id) = IF id < p THEN MaxBlocks ELSE s + 1
    BY <1>6 DEF Blocks
  <1>8. \A id \in 0 .. p : Blocks(q, id) \in 1 .. MaxBlocks
    BY <1>5, <1>7, MessageAssumption
  <1>9. ASSUME NEW id \in 0 .. p - 1 PROVE SliceEnd(q, id) = SliceStart(id + 1)
    <2>1. id \in Nat /\ Blocks(q, id) = MaxBlocks
      BY <1>5, <1>7
    <2>2. id * PacketLen + PacketLen = (id + 1) * PacketLen
      BY <2>1, MessageAssumption DEF PacketLen
    <2> QED BY <2>1, <2>2 DEF SliceEnd, SliceStart, PacketLen
  <1>10. SliceEnd(q, p) = BlockLen * q + BlockLen
    <2>1. SliceEnd(q, p) = p * (MaxBlocks * BlockLen) + (s + 1) * BlockLen
      BY <1>5, <1>7 DEF SliceEnd, SliceStart, PacketLen
    <2>2. p * (MaxBlocks * BlockLen) + (s + 1) * BlockLen = BlockLen * q + BlockLen
      BY <1>5, MessageAssumption
    <2> QED BY <2>1, <2>2
  <1> QED BY <1>2, <1>3, <1>5, <1>8, <1>9, <1>10

\* No byte of a line is left behind: the slices of its packets are adjacent
\* and the last one reaches the end of the line.
THEOREM EveryByteCarriedAlways == Spec => []EveryByteCarried
  <1>1. ASSUME LenOK PROVE EveryByteCarried
    <2> DEFINE q == nb_bloc(uart_ptr)
               p == nbPacketToSend(q)
    <2>1. uart_ptr \in 0 .. MaxLen /\ uart_ptr \in Nat
      BY <1>1, MessageAssumption DEF LenOK
    <2>2. /\ q \in Nat /\ p \in Nat
          /\ BlockLen * q \in Nat /\ uart_ptr < BlockLen * q + BlockLen
          /\ \A id \in 0 .. p - 1 : SliceEnd(q, id) = SliceStart(id + 1)
          /\ SliceEnd(q, p) = BlockLen * q + BlockLen
      BY <2>1, LineInPackets
    <2> HIDE DEF q, p
    <2>3. ASSUME NEW id \in 1 .. p PROVE SliceEnd(q, id - 1) = SliceStart(id)
      <3>1. id - 1 \in 0 .. p - 1 /\ (id - 1) + 1 = id
        BY <2>2
      <3> QED BY <2>2, <3>1
    <2>4. uart_ptr <= SliceEnd(q, p)
      BY <2>1, <2>2, MessageAssumption
    <2> QED BY <2>3, <2>4 DEF EveryByteCarried, p, q
  <1> QED BY <1>1, LenInvariant, PTL

\* Every packet of every line fits the FIFO of the chip, if a full packet
\* does: header, count, CRC, status bytes and the byte too many of
\* "packetLen + 1" make 16 more.
THEOREM PacketsFitAlways ==
  ASSUME PacketLen + 16 <= FifoSize, MaxBlocks <= 3
  PROVE  Spec => []PacketsFit
  <1>1. ASSUME LenOK PROVE PacketsFit
    <2> DEFINE q == nb_bloc(uart_ptr)
               p == nbPacketToSend(q)
    <2> SUFFICES ASSUME NEW id \in 0 .. p
                 PROVE  /\ BytesOnAir(q, id) + 2 <= FifoSize
                        /\ Blocks(q, id) \in 1 .. 3
      BY DEF PacketsFit, Packets
    <2>1. Blocks(q, id) \in 1 .. MaxBlocks
      BY <1>1, LineInPackets DEF LenOK
    <2> DEFINE b == Blocks(q, id)
    <2>2. b \in Nat /\ b <= MaxBlocks /\ b \in 1 .. 3
      BY <2>1, MessageAssumption
    <2> HIDE DEF b
    <2>3. b * BlockLen \in Nat /\ b * BlockLen <= MaxBlocks * BlockLen
      BY <2>2, MessageAssumption
    <2>4. 8 + 4 + 1 + b * BlockLen + 1 + 2 <= FifoSize
      BY <2>3, MessageAssumption DEF PacketLen
    <2> QED BY <2>2, <2>4 DEF b, BytesOnAir
  <1> QED BY <1>1, LenInvariant, PTL

\* The slices stay in txBuff and rxBuff for every line that leaves room for
\* one more block: with buffers of 512 bytes and blocks of 16, up to 511
\* characters, and not the 512 that the buffer of the UART can hold.
THEOREM SlicesStayInBuffer ==
  ASSUME MaxLen < BuffLen, BuffLen % BlockLen = 0
  PROVE  Spec => []SlicesInBuffer
  <1>1. ASSUME LenOK PROVE SlicesInBuffer
    <2> DEFINE q == nb_bloc(uart_ptr)
               p == nbPacketToSend(q)
               n == BuffLen \div BlockLen
    <2>1. uart_ptr \in 0 .. MaxLen
      BY <1>1 DEF LenOK
    <2>2. /\ q \in Nat /\ p \in Nat
          /\ BlockLen * q \in Nat /\ BlockLen * q <= uart_ptr
          /\ \A id \in 0 .. p : Blocks(q, id) \in 1 .. MaxBlocks
          /\ \A id \in 0 .. p - 1 : SliceEnd(q, id) = SliceStart(id + 1)
          /\ SliceEnd(q, p) = BlockLen * q + BlockLen
      BY <2>1, LineInPackets
    <2>3. n \in Nat /\ BuffLen = BlockLen * n
      BY MessageAssumption, DivMod
    <2> HIDE DEF q, p, n
    <2>4. BlockLen * q + BlockLen <= BuffLen
      <3>1. BlockLen * q < BlockLen * n
        BY <2>1, <2>2, <2>3, MessageAssumption
      <3>2. q + 1 <= n
        <4> SUFFICES ASSUME n <= q PROVE FALSE
          BY <2>2, <2>3
        <4>1. BlockLen * n <= BlockLen * q
          BY <2>2, <2>3, MessageAssumption
        <4> QED BY <3>1, <4>1, <2>2, <2>3, MessageAssumption
      <3>3. BlockLen * (q + 1) <= BlockLen * n
        BY <3>2, <2>2, <2>3, MessageAssumption
      <3> QED BY <3>3, <2>2, <2>3, MessageAssumption
    <2> SUFFICES ASSUME NEW id \in 0 .. p PROVE SliceEnd(q, id) <= BuffLen
      BY DEF SlicesInBuffer, Packets, q, p
    <2>5. CASE id = p
      BY <2>2, <2>4, <2>5
    <2>6. CASE id # p
      <3>1. SliceEnd(q, id) = (id + 1) * PacketLen
        BY <2>2, <2>6 DEF SliceStart
      <3>2. (id + 1) * PacketLen <= p * PacketLen
        BY <2>2, <2>6, MessageAssumption DEF PacketLen
      <3>3. p * PacketLen <= SliceEnd(q, p)
        <4>1. Blocks(q, p) \in Nat
          BY <2>2, MessageAssumption
        <4>2. p * PacketLen \in Nat /\ Blocks(q, p) * BlockLen \in Nat
          BY <4>1, <2>2, MessageAssumption DEF PacketLen
        <4> QED BY <4>2 DEF SliceEnd, SliceStart
      <3>4. (id + 1) * PacketLen \in Int /\ p * PacketLen \in Int
        BY <2>2, MessageAssumption DEF PacketLen
      <3> QED BY <3>1, <3>2, <3>3, <3>4, <2>2, <2>4, MessageAssumption
    <2> QED BY <2>5, <2>6
  <1> QED BY <1>1, LenInvariant, PTL

\* Every line arrives as it was cut, for every length: rf_data's main.c
\* rebuilds its length, decrypts its blocks and misses none of its bytes.
THEOREM LineRebuiltAlways == Spec => []LineRebuilt
  BY LengthRebuiltAlways, SameBlocksAlways, EveryByteCarriedAlways, PTL
     DEF LineRebuilt

\* Every packet of every line fits the FIFO, the two bits of its block count
\* and the buffers, under the conditions of the two theorems before.
THEOREM LineFitsAlways ==
  ASSUME PacketLen + 16 <= FifoSize, MaxBlocks <= 3,
         MaxLen < BuffLen, BuffLen % BlockLen = 0
  PROVE  Spec => []LineFits
  BY PacketsFitAlways, SlicesStayInBuffer, PTL DEF LineFits
=============================================================================
