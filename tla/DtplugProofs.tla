---------------------------- MODULE DtplugProofs ----------------------------
(***************************************************************************)
(* The hand-over of packets from the UART interrupt to the main loop of    *)
(* the slave, for every size of header, packet and output buffer, any      *)
(* requests, any garbage in unwritten fields and any number of lost bytes: *)
(* the packet at hand stays whole, packets are handled in the order they   *)
(* were sent, and each is answered once.  Then the way of the answers: the *)
(* host decodes every reply that left, one after the other; and the cost   *)
(* of lost bytes: the decoder is in step again one frame later.            *)
(***************************************************************************)
EXTENDS Dtplug, SequenceTheorems, TLAPS

\* A cell of a packet, and a frame of the host.
Cell   == [f : Nat, i : Nat]
FrameT == [type : {"PING", "NUM", "ERRORS", "TIME", "USER", "RESET", "APP"},
           reply : BOOLEAN, quick : BOOLEAN, size : Nat, claims : Nat,
           sum : BOOLEAN, hash : BOOLEAN]

\* The buffer the interrupt does not fill, the packet in it, and its frame.
HeldBuf == 3 - rxPacket
Held    == bufs[HeldBuf]
HeldF   == Held[1].f

\* The last frame that was handed over.
Last == IF doneOld THEN released ELSE HeldF

\* The shape of what the decoder and the hand-over use.
ShapePart ==
  /\ frames \in Seq(FrameT)
  /\ down \in Seq(Cell)
  /\ \A k \in 1 .. Len(down) : down[k].f \in 1 .. Len(frames)
  /\ bufs \in [1 .. 2 -> [1 .. PacketLen -> Cell]]
  /\ asks \in [1 .. 2 -> BOOLEAN]
  /\ rxPacket \in 1 .. 2 /\ rxPtr \in 0 .. PacketLen /\ fullSize \in Nat
  /\ packetOk \in 0 .. 2 /\ doneOld \in BOOLEAN /\ cur \in 1 .. 2
  /\ released \in 0 .. Len(frames)

\* The decoder: the first cell is of a frame; once the header is in, it is
\* right and fullSize is what it announces.
DecoderPart ==
  /\ rxPtr > 0 => bufs[rxPacket][1].f \in 1 .. Len(frames)
  /\ rxPtr < HeadLen => fullSize = 0
  /\ rxPtr >= HeadLen =>
       /\ HeaderRight(bufs[rxPacket])
       /\ fullSize = HeadLen + Announced(frames[bufs[rxPacket][1].f])

\* The hand-over: as long as the main loop is not done with a packet, the
\* buffer the decoder does not fill holds it, whole.
HandedPart ==
  /\ packetOk # 0 => ~doneOld /\ packetOk = HeldBuf
  /\ pc # "idle" => ~doneOld /\ cur = HeldBuf
  /\ pc \notin {"idle", "freed"} => packetOk # 0
  /\ pc = "freed" => packetOk = 0
  /\ ~doneOld =>
       /\ HeldF \in 1 .. Len(frames)
       /\ HeaderRight(Held)
       /\ DataRight(frames[HeldF], Held, HeadLen + Announced(frames[HeldF]))

\* Cell c left the host before cell d.
Before(c, d) == c.f < d.f \/ (c.f = d.f /\ c.i < d.i)
First(f) == [f |-> f, i |-> 1]

\* The line keeps the order, and nothing that was handed over comes again.
OrderPart ==
  /\ \A j, k \in 1 .. Len(down) : j < k => Before(down[j], down[k])
  /\ \A k \in 1 .. Len(down) : Before(First(Last), down[k])
  /\ rxPtr > 0 => /\ Before(First(Last), bufs[rxPacket][1])
                  /\ \A k \in 1 .. Len(down) : Before(bufs[rxPacket][1], down[k])
  /\ ~doneOld => released < HeldF

IInv == ShapePart /\ DecoderPart /\ HandedPart /\ OrderPart

\* What the main loop's call holds, and the counts.
CallT == [error : {"none", "error", "many"}, size : Nat,
          next : {"free", "idle", "again"}, stored : {"build", "return", "many"}]
CallOK == call \in CallT /\ numErrors \in Nat /\ tmp \in Nat

-----------------------------------------------------------------------------
(* The host's frames and the line.                                         *)

\* A frame is sent: the frames before it and their cells stay, and its cells
\* come last on the line.
Grows ==
  /\ frames' \in Seq(FrameT) /\ Len(frames') = Len(frames) + 1
  /\ \A f \in 1 .. Len(frames) : frames'[f] = frames[f]
  /\ frames'[Len(frames) + 1].size \in 0 .. DataLen
  /\ frames'[Len(frames) + 1].quick => frames'[Len(frames) + 1].size = 0
  /\ down' \in Seq(Cell)
  /\ Len(down') = Len(down) + HeadLen + frames'[Len(frames) + 1].size
  /\ \A k \in 1 .. Len(down) : down'[k] = down[k]
  /\ \A k \in Len(down) + 1 .. Len(down') :
       down'[k] = [f |-> Len(frames) + 1, i |-> k - Len(down)]

\* What the host asks for and what its decoder asks for by itself.
Asked == Requests \cup {GetErrors}

\* Every frame the host builds is one, whatever its unwritten fields hold.
LEMMA FramesAreFrames ==
  ASSUME NEW r \in Asked
  PROVE  \A p \in Frames(r) : /\ p \in FrameT /\ p.size <= DataLen
                              /\ p.quick => p.size = 0
  <1>1. /\ r.type \in {"PING", "NUM", "ERRORS", "TIME", "USER", "RESET", "APP"}
        /\ r.reply \in BOOLEAN /\ r.hash \in BOOLEAN
        /\ r.size \in Nat /\ r.size <= DataLen /\ DataLen \in Nat
    <2>1. CASE r = GetErrors
      BY <2>1, LineAssumption DEF GetErrors
    <2>2. CASE r \in Requests
      BY <2>2, DataAssumption, LineAssumption
    <2> QED BY <2>1, <2>2 DEF Asked
  <1>2. \A g \in Garbage : g.claims \in Nat /\ g.sum \in BOOLEAN
    BY DataAssumption
  <1> SUFFICES ASSUME NEW p \in Frames(r)
               PROVE  p \in FrameT /\ p.size <= DataLen /\ (p.quick => p.size = 0)
    OBVIOUS
  <1>3. PICK claims \in Nat, sum \in BOOLEAN :
          p = [type |-> r.type, reply |-> r.reply, quick |-> r.data = "quick",
               size |-> IF r.data = "long" THEN r.size ELSE 0,
               claims |-> claims, sum |-> sum, hash |-> r.hash]
    BY <1>1, <1>2 DEF Frames
  <1> DEFINE size == IF r.data = "long" THEN r.size ELSE 0
  <1>4. size \in Nat /\ size <= DataLen /\ (r.data = "quick" => size = 0)
    BY <1>1
  <1>5. p \in FrameT
    BY <1>1, <1>3, <1>4 DEF FrameT
  <1>6. p.size = size /\ p.quick = (r.data = "quick")
    BY <1>3
  <1> HIDE DEF size
  <1> QED BY <1>4, <1>5, <1>6

\* host_send_packet adds one frame and its cells.
LEMMA SendGrows ==
  ASSUME ShapePart, NEW r \in Asked, HostSend(r)
  PROVE  Grows
  <1>1. PICK p \in Frames(r) : /\ frames' = Append(frames, p)
                               /\ down' = down \o Cells(Len(frames) + 1, p.size)
    BY DEF HostSend
  <1>2. p \in FrameT /\ p.size <= DataLen /\ (p.quick => p.size = 0)
    BY FramesAreFrames
  <1> DEFINE n == HeadLen + p.size
             new == Cells(Len(frames) + 1, p.size)
  <1>3. n \in Nat /\ Len(frames) + 1 \in Nat
    BY <1>2, LineAssumption DEF FrameT, ShapePart
  <1>4. new \in Seq(Cell) /\ Len(new) = n
        /\ \A k \in 1 .. n : new[k] = [f |-> Len(frames) + 1, i |-> k]
    <2>1. new \in [1 .. n -> Cell] /\ \A k \in 1 .. n : new[k] = [f |-> Len(frames) + 1, i |-> k]
      BY <1>3 DEF Cells, Cell
    <2>2. new \in Seq(Cell)
      BY <1>3, <2>1, SeqDef, Zenon
    <2>3. DOMAIN new = 1 .. n /\ DOMAIN new = 1 .. Len(new) /\ Len(new) \in Nat
      BY <2>1, <2>2, LenProperties
    <2>4. Len(new) = n
      BY <1>3, <2>3
    <2> QED BY <2>1, <2>2, <2>4
  <1>5. /\ down' \in Seq(Cell) /\ Len(down') = Len(down) + n
        /\ \A k \in 1 .. Len(down) + n :
             down'[k] = IF k <= Len(down) THEN down[k] ELSE new[k - Len(down)]
    <2>1. down \in Seq(Cell)
      BY DEF ShapePart
    <2>2. /\ down \o new \in Seq(Cell)
          /\ Len(down \o new) = Len(down) + Len(new)
          /\ \A k \in 1 .. Len(down) + Len(new) :
               (down \o new)[k] = IF k <= Len(down) THEN down[k] ELSE new[k - Len(down)]
      BY <1>4, <2>1, ConcatProperties, Zenon
    <2>3. Len(new) = n /\ down' = down \o new
      BY <1>1, <1>4
    <2> HIDE DEF new
    <2> QED BY <2>2, <2>3, Zenon
  <1>6. Len(down) \in Nat
    BY DEF ShapePart
  <1> HIDE DEF n, new
  <1>7. /\ frames' \in Seq(FrameT) /\ Len(frames') = Len(frames) + 1
        /\ \A f \in 1 .. Len(frames) : frames'[f] = frames[f]
    BY <1>1, <1>2 DEF ShapePart
  <1>8. \A k \in 1 .. Len(down) : down'[k] = down[k]
    BY <1>3, <1>5, <1>6
  <1>9. ASSUME NEW k \in Len(down) + 1 .. Len(down')
        PROVE  down'[k] = [f |-> Len(frames) + 1, i |-> k - Len(down)]
    <2>1. down'[k] = new[k - Len(down)] /\ k - Len(down) \in 1 .. n
      BY <1>3, <1>5, <1>6
    <2> QED BY <1>4, <2>1
  <1>10. /\ Len(down') = Len(down) + HeadLen + p.size
         /\ frames'[Len(frames) + 1] = p /\ p.size \in 0 .. DataLen
    <2>1. frames'[Len(frames) + 1] = p
      BY <1>1, <1>2 DEF ShapePart
    <2>2. p.size \in Nat /\ DataLen \in Nat /\ HeadLen \in Nat
      BY <1>2, LineAssumption DEF FrameT
    <2> QED BY <1>2, <1>3, <1>5, <1>6, <2>1, <2>2 DEF n
  <1> QED BY Zenon, <1>2, <1>5, <1>7, <1>8, <1>9, <1>10 DEF Grows

\* The decoder and what it holds are not touched by a new frame.
LEMMA GrowsKeeps ==
  ASSUME IInv, Grows,
         UNCHANGED <<bufs, rxPacket, rxPtr, fullSize, packetOk, doneOld, asks, pc, cur, released>>
  PROVE  IInv'
  <1> USE DEF IInv
  <1>0. Len(frames) \in Nat /\ Len(down) \in Nat /\ Len(down') \in Nat
    BY DEF ShapePart, Grows
  <1>new. ASSUME NEW k \in Len(down) + 1 .. Len(down')
        PROVE  down'[k].f = Len(frames) + 1 /\ down'[k].i = k - Len(down)
    <2>1. down'[k] = [f |-> Len(frames) + 1, i |-> k - Len(down)]
      BY Zenon DEF Grows
    <2> QED BY <2>1
  <1>1. ShapePart'
    <2>1. ASSUME NEW k \in 1 .. Len(down') PROVE down'[k].f \in 1 .. Len(frames')
      <3>1. CASE k \in 1 .. Len(down)
        <4>1. down'[k] = down[k] /\ Len(frames') = Len(frames) + 1
          BY <3>1 DEF Grows
        <4>2. down[k].f \in 1 .. Len(frames)
          BY <3>1 DEF ShapePart
        <4> QED BY <1>0, <4>1, <4>2
      <3>2. CASE k \in Len(down) + 1 .. Len(down')
        <4>1. down'[k].f = Len(frames) + 1
          BY <1>new, <3>2
        <4> QED BY <1>0, <4>1 DEF Grows
      <3> QED BY <1>0, <3>1, <3>2
    <2>2. released \in 0 .. Len(frames')
      BY <1>0 DEF ShapePart, Grows
    <2> QED BY <2>1, <2>2 DEF ShapePart, Grows
  <1>2. DecoderPart'
    <2>1. ASSUME rxPtr > 0
          PROVE  /\ bufs[rxPacket][1].f \in 1 .. Len(frames')
                 /\ frames'[bufs[rxPacket][1].f] = frames[bufs[rxPacket][1].f]
      BY <1>0, <2>1 DEF DecoderPart, Grows
    <2>2. rxPtr >= HeadLen => rxPtr > 0
      BY LineAssumption DEF ShapePart
    <2> QED BY <2>1, <2>2 DEF DecoderPart, HeaderRight
  <1>3. HandedPart'
    <2>1. ASSUME ~doneOld
          PROVE  HeldF \in 1 .. Len(frames') /\ frames'[HeldF] = frames[HeldF]
      BY <1>0, <2>1 DEF HandedPart, Grows
    <2>2. HeldBuf' = HeldBuf /\ Held' = Held /\ HeldF' = HeldF
      BY DEF HeldF, Held, HeldBuf
    <2>3. ASSUME ~doneOld
          PROVE  /\ HeaderRight(Held)
                 /\ DataRight(frames'[HeldF], Held, HeadLen + Announced(frames'[HeldF]))
      BY <2>1, <2>3 DEF HandedPart
    <2>4. DataRight(frames[HeldF], Held, HeadLen + Announced(frames[HeldF]))'
            = DataRight(frames'[HeldF], Held, HeadLen + Announced(frames'[HeldF]))
      BY <2>2 DEF DataRight, Announced
    <2>5. HandedPart' <=>
            /\ packetOk # 0 => ~doneOld /\ packetOk = HeldBuf
            /\ pc # "idle" => ~doneOld /\ cur = HeldBuf
            /\ pc \notin {"idle", "freed"} => packetOk # 0
            /\ pc = "freed" => packetOk = 0
            /\ ~doneOld =>
                 /\ HeldF \in 1 .. Len(frames')
                 /\ HeaderRight(Held)
                 /\ DataRight(frames'[HeldF], Held, HeadLen + Announced(frames'[HeldF]))
      BY <2>2, <2>4, Zenon DEF HandedPart, HeaderRight
    <2> QED BY <2>1, <2>3, <2>5, Zenon DEF HandedPart
  <1>4. OrderPart'
    <2>1. Last' = Last /\ HeldF' = HeldF
      BY DEF Last, HeldF, Held, HeldBuf
    <2>2. Last \in 0 .. Len(frames)
      BY DEF Last, ShapePart, HandedPart
    <2>3. \A k \in 1 .. Len(down') : k \in 1 .. Len(down) \/ k \in Len(down) + 1 .. Len(down')
      BY <1>0
    <2>4. ASSUME NEW k \in Len(down) + 1 .. Len(down'), NEW c, c.f \in 0 .. Len(frames)
          PROVE  Before(c, down'[k])
      BY <1>0, <1>new, <2>4 DEF Before
    <2>5. ASSUME NEW j \in 1 .. Len(down'), NEW k \in 1 .. Len(down'), j < k
          PROVE  Before(down'[j], down'[k])
      <3>1. CASE k \in 1 .. Len(down)
        BY <1>0, <2>5, <3>1 DEF OrderPart, Grows
      <3>2. CASE k \notin 1 .. Len(down) /\ j \in 1 .. Len(down)
        <4>1. down'[j] = down[j] /\ down[j].f \in 1 .. Len(frames)
          BY <1>0, <3>2 DEF ShapePart, Grows
        <4>2. k \in Len(down) + 1 .. Len(down')
          BY <2>3, <3>2
        <4>3. down'[j].f \in 0 .. Len(frames)
          BY <4>1
        <4> QED BY <2>4, <4>2, <4>3
      <3>3. CASE j \notin 1 .. Len(down)
        <4>1. j \in Len(down) + 1 .. Len(down') /\ k \in Len(down) + 1 .. Len(down')
          BY <1>0, <2>5, <3>3
        <4> QED BY <1>0, <1>new, <2>5, <4>1 DEF Before
      <3> QED BY <3>1, <3>2, <3>3
    <2>6. ASSUME NEW k \in 1 .. Len(down')
          PROVE  /\ Before(First(Last), down'[k])
                 /\ rxPtr > 0 => Before(bufs[rxPacket][1], down'[k])
      <3>1. CASE k \in 1 .. Len(down)
        BY <3>1 DEF OrderPart, Grows
      <3>2. CASE k \in Len(down) + 1 .. Len(down')
        <4>1. First(Last).f \in 0 .. Len(frames)
          BY <2>2 DEF First
        <4>2. rxPtr > 0 => bufs[rxPacket][1].f \in 0 .. Len(frames)
          BY <1>0 DEF DecoderPart
        <4> QED BY <2>4, <3>2, <4>1, <4>2
      <3> QED BY <2>3, <3>1, <3>2
    <2>7. OrderPart' <=>
            /\ \A j, k \in 1 .. Len(down') : j < k => Before(down'[j], down'[k])
            /\ \A k \in 1 .. Len(down') : Before(First(Last), down'[k])
            /\ rxPtr > 0 => /\ Before(First(Last), bufs[rxPacket][1])
                            /\ \A k \in 1 .. Len(down') : Before(bufs[rxPacket][1], down'[k])
            /\ ~doneOld => released < HeldF
      BY <2>1 DEF OrderPart, First, Before
    <2> QED BY <2>5, <2>6, <2>7 DEF OrderPart
  <1> QED BY <1>1, <1>2, <1>3, <1>4

\* The first n cells leave the line.
Shrinks(n) ==
  /\ down' \in Seq(Cell) /\ Len(down') = Len(down) - n
  /\ \A k \in 1 .. Len(down') : down'[k] = down[k + n]

\* The cells that are left, after some are dropped, have their order.
LEMMA SuffixShrinks ==
  ASSUME ShapePart
  PROVE  /\ down # << >> /\ down' = Tail(down) => Shrinks(1)
         /\ \A n \in 0 .. Len(down) : down' = SubSeq(down, n + 1, Len(down)) => Shrinks(n)
  <1>1. down \in Seq(Cell) /\ Len(down) \in Nat
    BY DEF ShapePart
  <1>2. ASSUME down # << >>, down' = Tail(down) PROVE Shrinks(1)
    BY <1>1, <1>2, HeadTailProperties DEF Shrinks
  <1>3. ASSUME NEW n \in 0 .. Len(down), down' = SubSeq(down, n + 1, Len(down))
        PROVE  Shrinks(n)
    <2>1. \A k \in n + 1 .. Len(down) : down[k] \in Cell
      BY <1>1, ElementOfSeq
    <2>2. /\ down' \in Seq(Cell)
          /\ Len(down') = IF n + 1 <= Len(down) THEN Len(down) - (n + 1) + 1 ELSE 0
          /\ \A k \in 1 .. Len(down) - (n + 1) + 1 : down'[k] = down[n + 1 + k - 1]
      BY <1>1, <1>3, <2>1, SubSeqProperties
    <2> QED BY <1>1, <2>2 DEF Shrinks
  <1> QED BY <1>2, <1>3

\* What is left of the line keeps its order.
LEMMA LeftInOrder ==
  ASSUME ShapePart, OrderPart, NEW n \in 0 .. Len(down), Shrinks(n)
  PROVE  /\ \A k \in 1 .. Len(down') : /\ k + n \in 1 .. Len(down)
                                       /\ down'[k] = down[k + n]
                                       /\ down'[k].f \in 1 .. Len(frames)
                                       /\ Before(First(Last), down'[k])
                                       /\ rxPtr > 0 => Before(bufs[rxPacket][1], down'[k])
         /\ \A j, k \in 1 .. Len(down') : j < k => Before(down'[j], down'[k])
  <1>1. Len(down) \in Nat /\ Len(down') = Len(down) - n
    BY DEF ShapePart, Shrinks
  <1>2. \A k \in 1 .. Len(down') : k + n \in 1 .. Len(down) /\ down'[k] = down[k + n]
    BY <1>1 DEF Shrinks
  <1>3. ASSUME NEW k \in 1 .. Len(down')
        PROVE  /\ down'[k].f \in 1 .. Len(frames)
               /\ Before(First(Last), down'[k])
               /\ rxPtr > 0 => Before(bufs[rxPacket][1], down'[k])
    BY <1>2 DEF ShapePart, OrderPart
  <1>4. ASSUME NEW j \in 1 .. Len(down'), NEW k \in 1 .. Len(down'), j < k
        PROVE  Before(down'[j], down'[k])
    <2>1. j + n < k + n
      BY <1>1, <1>4
    <2> QED BY <1>2, <2>1 DEF OrderPart
  <1> QED BY <1>2, <1>3, <1>4

-----------------------------------------------------------------------------
(* The interrupt.                                                          *)

\* What the decoder leaves alone as long as a packet is not complete.
LEMMA DecodingKeeps ==
  ASSUME IInv, Shrinks(1), down # << >>,
         UNCHANGED <<frames, rxPacket, packetOk, doneOld, asks, pc, cur, released>>,
         bufs' \in [1 .. 2 -> [1 .. PacketLen -> Cell]],
         bufs'[HeldBuf] = Held,
         rxPtr' \in 0 .. PacketLen, fullSize' \in Nat
  PROVE  /\ ShapePart' /\ HandedPart'
         /\ Last' = Last /\ HeldF' = HeldF
         /\ ~doneOld => released < HeldF
  <1> USE DEF IInv
  <1>1. 1 \in 0 .. Len(down)
    BY EmptySeq DEF ShapePart
  <1>2. \A k \in 1 .. Len(down') : down'[k].f \in 1 .. Len(frames)
    BY <1>1, LeftInOrder
  <1>3. HeldBuf' = HeldBuf /\ Held' = Held /\ HeldF' = HeldF
    BY DEF HeldF, Held, HeldBuf
  <1>4. ShapePart'
    BY <1>2 DEF ShapePart, Shrinks
  <1>5. DataRight(frames[HeldF], Held, HeadLen + Announced(frames[HeldF]))'
        = DataRight(frames[HeldF], Held, HeadLen + Announced(frames[HeldF]))
    BY <1>3 DEF DataRight, Announced
  <1>6. HandedPart'
    BY <1>3, <1>5, Zenon DEF HandedPart, HeaderRight
  <1> QED BY <1>3, <1>4, <1>6 DEF OrderPart, Last

\* A byte that is dropped, and a packet that is given up.
LEMMA DropKeeps ==
  ASSUME IInv, Shrinks(1), down # << >>,
         UNCHANGED <<frames, bufs, rxPacket, packetOk, doneOld, asks, pc, cur, released>>,
         NextPacket \/ UNCHANGED <<rxPtr, fullSize>>
  PROVE  IInv'
  <1> USE DEF IInv
  <1>1. rxPtr' \in 0 .. PacketLen /\ fullSize' \in Nat
    BY LineAssumption DEF NextPacket, ShapePart, PacketLen
  <1>2. /\ ShapePart' /\ HandedPart' /\ Last' = Last /\ HeldF' = HeldF
        /\ ~doneOld => released < HeldF
    BY <1>1, DecodingKeeps DEF ShapePart, HeldBuf, Held
  <1>3. DecoderPart'
    <2>1. CASE NextPacket
      BY <2>1, LineAssumption DEF NextPacket, DecoderPart
    <2>2. CASE UNCHANGED <<rxPtr, fullSize>>
      BY <2>2 DEF DecoderPart, HeaderRight
    <2> QED BY <2>1, <2>2
  <1>4. OrderPart'
    <2>1. 1 \in 0 .. Len(down)
      BY EmptySeq DEF ShapePart
    <2>2. rxPtr' > 0 => rxPtr > 0
      BY DEF NextPacket
    <2>3. /\ \A k \in 1 .. Len(down') : /\ Before(First(Last), down'[k])
                                        /\ rxPtr > 0 => Before(bufs[rxPacket][1], down'[k])
          /\ \A j, k \in 1 .. Len(down') : j < k => Before(down'[j], down'[k])
      BY <2>1, LeftInOrder
    <2>4. rxPtr > 0 => Before(First(Last), bufs[rxPacket][1])
      BY DEF OrderPart
    <2>5. OrderPart' <=>
            /\ \A j, k \in 1 .. Len(down') : j < k => Before(down'[j], down'[k])
            /\ \A k \in 1 .. Len(down') : Before(First(Last), down'[k])
            /\ rxPtr' > 0 => /\ Before(First(Last), bufs[rxPacket][1])
                             /\ \A k \in 1 .. Len(down') : Before(bufs[rxPacket][1], down'[k])
            /\ ~doneOld => released < HeldF
      BY <1>2 DEF OrderPart, First, Before
    <2>6. rxPtr' > 0 => /\ Before(First(Last), bufs[rxPacket][1])
                        /\ \A k \in 1 .. Len(down') : Before(bufs[rxPacket][1], down'[k])
      BY <2>2, <2>3, <2>4
    <2> QED BY <1>2, <2>3, <2>5, <2>6
  <1> QED BY <1>2, <1>3, <1>4

\* dtplug_protocol_decode stores a byte: the packet goes on, is given up, is
\* refused or is handed over.
LEMMA StoreKeeps ==
  ASSUME IInv, down # << >>, down' = Tail(down), ~Overrun, Store(Head(down)),
         UNCHANGED <<frames, pc, cur, released>>
  PROVE  IInv'
  <1> USE DEF IInv
  <1> DEFINE c == down[1]
             n == rxPtr + 1
             b == [bufs[rxPacket] EXCEPT ![n] = c]
  <1>1. /\ Shrinks(1) /\ 1 \in 0 .. Len(down) /\ 1 \in 1 .. Len(down)
        /\ Head(down) = c /\ c \in Cell /\ c.f \in 1 .. Len(frames)
    <2>1. Shrinks(1)
      BY SuffixShrinks
    <2>2. down \in Seq(Cell) /\ Len(down) \in Nat /\ Len(down) # 0
      BY EmptySeq DEF ShapePart
    <2>3. 1 \in 1 .. Len(down) /\ 1 \in 0 .. Len(down)
      BY <2>2
    <2>4. c.f \in 1 .. Len(frames)
      BY <2>3 DEF ShapePart
    <2>5. Head(down) = c /\ c \in Cell
      BY <2>2, <2>3, ElementOfSeq
    <2> QED BY <2>1, <2>3, <2>4, <2>5
  <1>2. /\ n \in 1 .. PacketLen /\ rxPtr \in Nat /\ PacketLen \in Nat
        /\ HeadLen \in Nat /\ HeadLen >= 2 /\ HeadLen <= PacketLen
    BY LineAssumption DEF Overrun, ShapePart, PacketLen
  <1>3. /\ b \in [1 .. PacketLen -> Cell] /\ b[n] = c
        /\ \A i \in 1 .. PacketLen : i # n => b[i] = bufs[rxPacket][i]
    BY <1>1, <1>2 DEF ShapePart
  <1>4. /\ bufs' = [bufs EXCEPT ![rxPacket] = b]
        /\ bufs' \in [1 .. 2 -> [1 .. PacketLen -> Cell]]
        /\ bufs'[rxPacket] = b
        /\ HeldBuf \in 1 .. 2 /\ HeldBuf # rxPacket /\ bufs'[HeldBuf] = Held
    <2>1. bufs' = [bufs EXCEPT ![rxPacket] = b]
      BY <1>1 DEF Store
    <2> HIDE DEF b
    <2> QED BY <1>3, <2>1 DEF ShapePart, HeldBuf, Held
  <1>5. b[1].f \in 1 .. Len(frames)
    <2>1. CASE n = 1
      BY <1>1, <1>3, <2>1
    <2>2. CASE n # 1
      BY <1>2, <1>3, <2>2 DEF DecoderPart
    <2> QED BY <2>1, <2>2
  <1>6. /\ n < HeadLen => FullSize(b) = 0
        /\ n >= HeadLen => FullSize(b) = HeadLen + Announced(frames[b[1].f])
        /\ n > HeadLen => HeaderRight(b)
        /\ FullSize(b) \in Nat
    <2>1. n < HeadLen => FullSize(b) = 0
      BY <1>2 DEF FullSize, DecoderPart
    <2>2. ASSUME n > HeadLen
          PROVE  FullSize(b) = HeadLen + Announced(frames[b[1].f]) /\ HeaderRight(b)
      <3>1. b[1] = bufs[rxPacket][1] /\ \A i \in 1 .. HeadLen : b[i] = bufs[rxPacket][i]
        BY <1>2, <1>3, <2>2
      <3>2. rxPtr >= HeadLen /\ rxPtr + 1 # HeadLen
        BY <1>2, <2>2
      <3> QED BY <3>1, <3>2 DEF FullSize, DecoderPart, HeaderRight
    <2>3. n = HeadLen => FullSize(b) = HeadLen + Announced(frames[b[1].f])
      BY DEF FullSize
    <2>4. Announced(frames[b[1].f]) \in Nat
      <3>1. frames[b[1].f] \in FrameT
        BY <1>5, ElementOfSeq DEF ShapePart
      <3> QED BY <3>1 DEF FrameT, Announced
    <2> QED BY <1>2, <2>1, <2>2, <2>3, <2>4
  <1>7. \A k \in 1 .. Len(down') : Before(b[1], down'[k])
    <2> SUFFICES ASSUME NEW k \in 1 .. Len(down') PROVE Before(b[1], down'[k])
      OBVIOUS
    <2>1. CASE n = 1
      <3>1. k + 1 \in 1 .. Len(down) /\ down'[k] = down[k + 1] /\ 1 < k + 1
        BY <1>1, LeftInOrder
      <3>2. Before(down[1], down[k + 1])
        BY <1>1, <3>1 DEF OrderPart
      <3> QED BY <1>3, <2>1, <3>1, <3>2
    <2>2. CASE n # 1
      <3>1. rxPtr > 0 /\ b[1] = bufs[rxPacket][1]
        BY <1>2, <1>3, <2>2
      <3> QED BY <1>1, <3>1, LeftInOrder
    <2> QED BY <2>1, <2>2
  <1>8. Before(First(Last), b[1])
    BY <1>1, <1>2, <1>3 DEF OrderPart
  <1>9. /\ \A k \in 1 .. Len(down') : Before(First(Last), down'[k])
        /\ \A j, k \in 1 .. Len(down') : j < k => Before(down'[j], down'[k])
    BY <1>1, LeftInOrder
  <1> HIDE DEF b, n, c
  <1> DEFINE kept == UNCHANGED <<packetOk, asks, doneOld, rxPacket>>
  <1>10. \/ kept /\ NextPacket
         \/ /\ kept /\ (n = HeadLen => HeaderRight(b))
            /\ rxPtr' = n /\ fullSize' = FullSize(b) /\ n # FullSize(b)
         \/ /\ n = HeadLen => HeaderRight(b)
            /\ n = FullSize(b) /\ NextPacket
            /\ DataRight(frames[b[1].f], b, n) /\ TakePacket(b[1].f)
    BY <1>1 DEF Store, WrongHeader, Handed, b, n, c
  <1>11. ASSUME kept,
                \/ NextPacket
                \/ /\ n = HeadLen => HeaderRight(b)
                   /\ rxPtr' = n /\ fullSize' = FullSize(b) /\ n # FullSize(b)
         PROVE  IInv'
    <2>1. /\ rxPtr' \in {0, n} /\ rxPtr' \in 0 .. PacketLen /\ fullSize' \in Nat
      BY <1>2, <1>6, <1>11 DEF NextPacket
    <2>2. UNCHANGED <<packetOk, asks, doneOld, rxPacket>>
      BY <1>11
    <2>3. /\ ShapePart' /\ HandedPart' /\ Last' = Last /\ HeldF' = HeldF
          /\ ~doneOld => released < HeldF
      BY <1>1, <1>4, <2>1, <2>2, DecodingKeeps
    <2>4. OrderPart' <=>
            /\ \A j, k \in 1 .. Len(down') : j < k => Before(down'[j], down'[k])
            /\ \A k \in 1 .. Len(down') : Before(First(Last), down'[k])
            /\ rxPtr' > 0 => /\ Before(First(Last), b[1])
                             /\ \A k \in 1 .. Len(down') : Before(b[1], down'[k])
            /\ ~doneOld => released < HeldF
      BY <1>4, <2>2, <2>3 DEF OrderPart, First, Before
    <2>5. DecoderPart' <=>
            /\ rxPtr' > 0 => b[1].f \in 1 .. Len(frames)
            /\ rxPtr' < HeadLen => fullSize' = 0
            /\ rxPtr' >= HeadLen => /\ HeaderRight(b)
                                    /\ fullSize' = HeadLen + Announced(frames[b[1].f])
      BY <1>4, <2>2 DEF DecoderPart, HeaderRight, Announced
    <2>6. DecoderPart'
      <3>1. CASE NextPacket
        BY <1>2, <2>5, <3>1 DEF NextPacket
      <3>2. CASE rxPtr' = n /\ fullSize' = FullSize(b) /\ (n = HeadLen => HeaderRight(b))
        BY <1>2, <1>5, <1>6, <2>5, <3>2
      <3> QED BY <1>11, <3>1, <3>2
    <2> QED BY <1>7, <1>8, <1>9, <2>3, <2>4, <2>6
  <1>12. CASE /\ n = HeadLen => HeaderRight(b)
              /\ n = FullSize(b) /\ NextPacket
              /\ DataRight(frames[b[1].f], b, n) /\ TakePacket(b[1].f)
    <2>1. CASE ~doneOld
      BY <1>11, <1>12, <2>1 DEF TakePacket
    <2>2. CASE doneOld
      <3>1. /\ packetOk' = rxPacket /\ doneOld' = FALSE /\ rxPacket' = 3 - rxPacket
            /\ asks' = [asks EXCEPT ![rxPacket] = frames[b[1].f].reply]
            /\ rxPtr' = 0 /\ fullSize' = 0
        BY <1>12, <2>2 DEF TakePacket, Switched, NextPacket
      <3>2. n >= HeadLen /\ HeaderRight(b) /\ n = HeadLen + Announced(frames[b[1].f])
        BY <1>2, <1>6, <1>12
      <3>3. /\ rxPacket \in 1 .. 2 /\ HeldBuf' = rxPacket /\ Held' = b /\ HeldF' = b[1].f
            /\ Last' = b[1].f /\ Last = released
        BY <1>4, <2>2, <3>1 DEF HeldBuf, Held, HeldF, Last, ShapePart
      <3>4. b[1] = First(b[1].f)
        BY <1>2, <3>2 DEF HeaderRight, First
      <3>5. released < b[1].f
        <4>1. ~(b[1].i < 1 \/ 1 < 1)
          BY <3>4 DEF First
        <4>2. First(Last).f = released /\ First(Last).i = 1 /\ b[1].i = 1
          BY <3>3, <3>4 DEF First
        <4> QED BY <1>8, <4>2 DEF Before
      <3>6. ShapePart'
        <4>1. frames[b[1].f].reply \in BOOLEAN
          <5>1. frames[b[1].f] \in FrameT
            BY <1>5, ElementOfSeq DEF ShapePart
          <5> QED BY <5>1 DEF FrameT
        <4>2. asks' \in [1 .. 2 -> BOOLEAN]
          BY <3>1, <3>3, <4>1 DEF ShapePart
        <4>3. \A k \in 1 .. Len(down') : down'[k].f \in 1 .. Len(frames)
          BY <1>1, LeftInOrder
        <4>4. down' \in Seq(Cell) /\ frames' \in Seq(FrameT)
          BY <1>1 DEF Shrinks, ShapePart
        <4>5. /\ rxPacket' \in 1 .. 2 /\ rxPtr' \in 0 .. PacketLen /\ fullSize' \in Nat
              /\ packetOk' \in 0 .. 2
          <5>1. rxPacket \in 1 .. 2 /\ packetOk' = rxPacket /\ rxPacket' = 3 - rxPacket
            BY <3>1, <3>3
          <5>2. rxPtr' = 0 /\ fullSize' = 0
            BY <3>1
          <5> QED BY <1>2, <5>1, <5>2
        <4>6. doneOld' \in BOOLEAN
          BY <3>1
        <4> QED BY <1>4, <4>2, <4>3, <4>4, <4>5, <4>6 DEF ShapePart
      <3>7. DecoderPart'
        BY <1>2, <3>1 DEF DecoderPart
      <3>8. HandedPart'
        <4>1. pc = "idle"
          BY <2>2 DEF HandedPart
        <4>2. DataRight(frames[HeldF], Held, HeadLen + Announced(frames[HeldF]))'
              = DataRight(frames[b[1].f], b, n)
          BY <3>2, <3>3 DEF DataRight, Announced
        <4>3. HeaderRight(Held)' = HeaderRight(b)
          BY <3>3 DEF HeaderRight
        <4> QED BY <1>5, <1>12, <3>1, <3>2, <3>3, <4>1, <4>2, <4>3, Zenon DEF HandedPart
      <3>9. OrderPart'
        <4>1. OrderPart' <=>
                /\ \A j, k \in 1 .. Len(down') : j < k => Before(down'[j], down'[k])
                /\ \A k \in 1 .. Len(down') : Before(First(b[1].f), down'[k])
                /\ released < b[1].f
          BY <3>1, <3>3 DEF OrderPart, First, Before
        <4> QED BY <1>7, <1>9, <3>4, <3>5, <4>1
      <3> QED BY <3>6, <3>7, <3>8, <3>9
    <2> QED BY <2>1, <2>2
  <1> QED BY <1>10, <1>11, <1>12

\* The receive interrupt: a byte outside a packet, past its end, or of it.
LEMMA RxByteKeeps == IInv /\ RxByte => IInv'
  <1> SUFFICES ASSUME IInv, RxByte PROVE IInv'
    OBVIOUS
  <1>1. /\ down # << >> /\ down' = Tail(down)
        /\ UNCHANGED <<frames, pc, cur, released>>
    BY DEF RxByte, mainVars, hostVars
  <1>2. Shrinks(1)
    BY <1>1, SuffixShrinks DEF IInv
  <1>3. CASE UNCHANGED <<rxVars, packetOk, asks, doneOld, numErrors>>
    BY <1>1, <1>2, <1>3, DropKeeps DEF rxVars
  <1>4. CASE NextPacket /\ UNCHANGED <<bufs, Handed, numErrors>>
    BY <1>1, <1>2, <1>4, DropKeeps DEF Handed
  <1>5. CASE ~Overrun /\ Store(Head(down))
    BY <1>1, <1>5, StoreKeeps
  <1> QED BY <1>3, <1>4, <1>5 DEF RxByte

\* A lost byte is one the decoder does not see.
LEMMA LoseDownKeeps == IInv /\ LoseDown => IInv'
  <1> SUFFICES ASSUME IInv, LoseDown PROVE IInv'
    OBVIOUS
  <1>1. /\ down # << >> /\ down' = Tail(down)
        /\ UNCHANGED <<frames, bufs, rxPacket, rxPtr, fullSize, packetOk, doneOld,
                       asks, pc, cur, released>>
    BY DEF LoseDown, rxVars, mainVars, hostVars
  <1>2. Shrinks(1)
    BY <1>1, SuffixShrinks DEF IInv
  <1> QED BY <1>1, <1>2, DropKeeps

\* Nothing changes but what the proof does not look at.
LEMMA StutterKeeps ==
  ASSUME IInv,
         UNCHANGED <<frames, down, bufs, rxPacket, rxPtr, fullSize, packetOk, doneOld,
                     asks, pc, cur, released>>
  PROVE  IInv'
  <1> USE DEF IInv
  <1>1. ShapePart' /\ DecoderPart'
    BY DEF ShapePart, DecoderPart, HeaderRight
  <1>2. HeldBuf' = HeldBuf /\ Held' = Held /\ HeldF' = HeldF /\ Last' = Last
    BY DEF HeldBuf, Held, HeldF, Last
  <1>3. DataRight(frames[HeldF], Held, HeadLen + Announced(frames[HeldF]))'
        = DataRight(frames[HeldF], Held, HeadLen + Announced(frames[HeldF]))
    BY <1>2 DEF DataRight, Announced
  <1>4. HandedPart'
    BY <1>2, <1>3, Zenon DEF HandedPart, HeaderRight
  <1>5. OrderPart'
    BY <1>2 DEF OrderPart, Before, First
  <1> QED BY <1>1, <1>4, <1>5

\* The host's moves: it sends a frame, or its decoder reads a byte and may ask
\* for the errors.
LEMMA HostMoves ==
  ASSUME Request \/ TxByte
  PROVE  UNCHANGED <<frames, down>> \/ \E r \in Asked : HostSend(r)
  <1>1. CASE Request
    BY <1>1 DEF Request, Asked
  <1>2. CASE TxByte
    <2>1. HostDecode(Head(out))
      BY <1>2 DEF TxByte
    <2>2. UNCHANGED <<frames, down>> \/ HostSend(GetErrors)
      BY <2>1, Zenon DEF HostDecode, hostVars
    <2> QED BY <2>2 DEF Asked
  <1> QED BY <1>1, <1>2

\* The host's moves keep the invariant.
LEMMA HostKeeps == IInv /\ (Request \/ TxByte) => IInv'
  <1> SUFFICES ASSUME IInv, Request \/ TxByte PROVE IInv'
    OBVIOUS
  <1>1. UNCHANGED <<bufs, rxPacket, rxPtr, fullSize, packetOk, doneOld, asks, pc, cur, released>>
    BY DEF Request, TxByte, rxVars, mainVars
  <1>2. UNCHANGED <<frames, down>> \/ \E r \in Asked : HostSend(r)
    BY HostMoves
  <1>3. CASE UNCHANGED <<frames, down>>
    BY <1>1, <1>3, StutterKeeps
  <1>4. CASE \E r \in Asked : HostSend(r)
    <2>1. Grows
      BY <1>4, SendGrows DEF IInv
    <2> QED BY <1>1, <2>1, GrowsKeeps
  <1> QED BY <1>2, <1>3, <1>4

-----------------------------------------------------------------------------
(* The main loop.                                                          *)

\* The steps of send_reply and of the error list.
ReplySteps ==
  \/ SendReply \/ StoreError \/ StoreCode \/ ReadAgain \/ StoreSeq \/ StoredReturn
  \/ ManyErrors \/ ClearErrors \/ BuildReply \/ SerialWrite
Handlers == HandleCounter \/ HandleSetting \/ HandleApp

\* Next, one group of actions at a time.
LEMMA NextIsStep ==
  ASSUME Next
  PROVE  \/ Request \/ TxByte \/ RxByte \/ LoseDown
         \/ Handlers \/ ReplySteps \/ HandleReset \/ Forget \/ Ready
  BY DEF Next, Interrupt, Main, Handlers, ReplySteps

\* The arguments and counts keep their shape.
LEMMA CallInit == Init => CallOK
  BY DEF Init, Boot, CallOK, CallT, NoCall

\* A call returns to its caller.
LEMMA ReturnCall ==
  ASSUME CallOK, Return
  PROVE  /\ call' \in CallT /\ tmp' \in Nat
         /\ pc' = IF call.next = "again" THEN "reply" ELSE call.next
  <1>1. NoCall \in CallT
    BY DEF NoCall, CallT
  <1>2. ASSUME NEW c \in CallT
        PROVE  [c EXCEPT !.error = "error", !.next = "free"] \in CallT
    BY DEF CallT
  <1>3. [NoCall EXCEPT !.error = "error", !.next = "free"] \in CallT
    BY <1>1, <1>2
  <1>4. call' \in CallT
    BY <1>1, <1>3, Zenon DEF Return
  <1>5. tmp' \in Nat
    BY DEF Return
  <1>6. pc' = IF call.next = "again" THEN "reply" ELSE call.next
    BY Zenon DEF Return, Goto
  <1> QED BY <1>4, <1>5, <1>6

\* ... and every step keeps it.
LEMMA CallNext == CallOK /\ [Next]_vars => CallOK'
  <1> SUFFICES ASSUME CallOK, [Next]_vars PROVE CallOK'
    OBVIOUS
  <1>1. CASE UNCHANGED vars
    BY <1>1 DEF vars, mainVars, CallOK
  <1>2. CASE Request \/ TxByte \/ LoseDown
    BY <1>2 DEF Request, TxByte, LoseDown, mainVars, CallOK
  <1>3. CASE RxByte
    <2>1. UNCHANGED <<call, tmp>>
      BY <1>3 DEF RxByte, mainVars
    <2>2. UNCHANGED numErrors \/ AddError
      BY <1>3 DEF RxByte, Store, TakePacket
    <2>3. AddError => numErrors' \in Nat
      BY DEF AddError, CallOK
    <2> QED BY <2>1, <2>2, <2>3 DEF CallOK
  <1>4. CASE Handlers
    <2>1. NumSize \in Nat /\ TimeSize \in Nat /\ AppSize \in Nat
      BY LineAssumption
    <2>2. UNCHANGED <<numErrors, tmp>>
      BY <1>4 DEF Handlers, HandleCounter, HandleSetting, HandleApp, Sees, Reply
    <2>3. call' \in CallT
      BY <1>4, <2>1 DEF Handlers, HandleCounter, HandleSetting, HandleApp, Reply, CallOK, CallT
    <2> QED BY <2>2, <2>3 DEF CallOK
  <1>5. CASE ReplySteps
    <2>1. CASE SendReply
      BY <2>1, ReturnCall DEF SendReply, StoredNext, CallOK, CallT
    <2>2. CASE StoreError \/ StoreCode \/ ReadAgain \/ StoreSeq \/ BuildReply
      BY <2>2 DEF StoreError, StoreCode, ReadAgain, StoreSeq, BuildReply, CallOK
    <2>3. CASE StoredReturn
      BY <2>3, ReturnCall DEF StoredReturn, CallOK
    <2>4. CASE ManyErrors \/ ClearErrors
      <3>1. [call EXCEPT !.size = numErrors] \in CallT
        BY DEF CallOK, CallT
      <3>2. [call EXCEPT !.error = "many", !.size = 0] \in CallT
        BY DEF CallOK, CallT
      <3>3. call' \in CallT
        BY <2>4, <3>1, <3>2 DEF ManyErrors, ClearErrors, CallOK
      <3> QED BY <2>4, <3>3 DEF ManyErrors, ClearErrors, CallOK
    <2>5. CASE SerialWrite
      BY <2>5, ReturnCall DEF SerialWrite, CallOK
    <2> QED BY <1>5, <2>1, <2>2, <2>3, <2>4, <2>5 DEF ReplySteps
  <1>6. CASE HandleReset
    BY <1>6 DEF HandleReset, CallOK, CallT, NoCall
  <1>7. CASE Forget \/ Ready
    BY <1>7 DEF Forget, Ready, FreeUnchanged, CallOK
  <1> QED BY <1>1, <1>2, <1>3, <1>4, <1>5, <1>6, <1>7, NextIsStep

\* The main loop moves on and holds the packet it was given.
LEMMA MainKeeps ==
  ASSUME IInv,
         UNCHANGED <<frames, down, bufs, rxPacket, rxPtr, fullSize, packetOk, doneOld, released>>,
         asks' \in [1 .. 2 -> BOOLEAN], cur' = HeldBuf, packetOk # 0, pc' # "freed"
  PROVE  IInv'
  <1> USE DEF IInv
  <1>1. ShapePart' /\ DecoderPart'
    BY DEF ShapePart, DecoderPart, HeaderRight, HeldBuf
  <1>2. HeldBuf' = HeldBuf /\ Held' = Held /\ HeldF' = HeldF /\ Last' = Last
    BY DEF HeldBuf, Held, HeldF, Last
  <1>3. DataRight(frames[HeldF], Held, HeadLen + Announced(frames[HeldF]))'
        = DataRight(frames[HeldF], Held, HeadLen + Announced(frames[HeldF]))
    BY <1>2 DEF DataRight, Announced
  <1>4. HandedPart'
    BY <1>2, <1>3, Zenon DEF HandedPart, HeaderRight
  <1>5. OrderPart'
    BY <1>2 DEF OrderPart, Before, First
  <1> QED BY <1>1, <1>4, <1>5

\* The packet a handler sees is the one handed over.
LEMMA SeenIsHeld ==
  ASSUME HandedPart, ShapePart, packetOk # 0
  PROVE  ~doneOld /\ packetOk = HeldBuf /\ HeldBuf \in 1 .. 2 /\ bufs[packetOk] = Held
  BY DEF HandedPart, ShapePart, HeldBuf, Held

\* Handlers leave the packet and its buffer alone.
LEMMA HandlersKeep == IInv /\ Handlers => IInv'
  <1> SUFFICES ASSUME IInv, Handlers PROVE IInv'
    OBVIOUS
  <1>1. /\ packetOk # 0 /\ cur' = packetOk
        /\ UNCHANGED <<frames, down, bufs, rxPacket, rxPtr, fullSize, packetOk, doneOld, released>>
    BY DEF Handlers, HandleCounter, HandleSetting, HandleApp, Sees, MainUnchanged,
       rxVars, hostVars
  <1>2. packetOk = HeldBuf /\ HeldBuf \in 1 .. 2
    BY <1>1, SeenIsHeld DEF IInv
  <1>3. asks' = asks \/ asks' = [asks EXCEPT ![packetOk] = TRUE]
    BY DEF Handlers, HandleCounter, HandleSetting, HandleApp
  <1>4. asks' \in [1 .. 2 -> BOOLEAN]
    BY <1>2, <1>3 DEF IInv, ShapePart
  <1>5. pc' # "freed"
    BY DEF Handlers, HandleCounter, HandleSetting, HandleApp, Reply, Goto
  <1> QED BY <1>1, <1>2, <1>4, <1>5, MainKeeps

\* So do the steps of a reply.
LEMMA ReplyKeeps == IInv /\ CallOK /\ ReplySteps => IInv'
  <1> SUFFICES ASSUME IInv, CallOK, ReplySteps PROVE IInv'
    OBVIOUS
  <1>1. /\ pc \notin {"idle", "freed"}
        /\ UNCHANGED <<frames, down, bufs, rxPacket, rxPtr, fullSize, packetOk, doneOld,
                       released, cur>>
    BY DEF ReplySteps, SendReply, StoreError, StoreCode, ReadAgain, StoreSeq, StoredReturn,
       ManyErrors, ClearErrors, BuildReply, SerialWrite, StoreUnchanged, ReplyUnchanged,
       MainUnchanged, rxVars, hostVars
  <1>2. packetOk # 0 /\ cur = HeldBuf
    BY <1>1 DEF IInv, HandedPart
  <1>3. asks' = asks \/ asks' = [asks EXCEPT ![cur] = FALSE]
    BY DEF ReplySteps, SendReply, StoreError, StoreCode, ReadAgain, StoreSeq, StoredReturn,
       ManyErrors, ClearErrors, BuildReply, SerialWrite, StoreUnchanged, Answered
  <1>4. asks' \in [1 .. 2 -> BOOLEAN]
    BY <1>3 DEF IInv, ShapePart
  <1>5. pc' # "freed"
    <2>1. Return => pc' # "freed"
      BY ReturnCall DEF CallOK, CallT
    <2>2. call.stored # "freed"
      BY DEF CallOK, CallT
    <2>3. SerialWrite => pc' = pc \/ Return
      BY DEF SerialWrite
    <2> QED BY <1>1, <2>1, <2>2, <2>3 DEF ReplySteps, SendReply, StoreError, StoreCode,
         ReadAgain, StoreSeq, StoredReturn, ManyErrors, ClearErrors, BuildReply, Goto
  <1> QED BY <1>1, <1>2, <1>4, <1>5, MainKeeps

\* release_old_packet: packet_ok goes first, and the decoder may use the buffer
\* only when done_with_old_packet is set.
LEMMA ReleaseKeeps == IInv /\ (Forget \/ Ready) => IInv'
  <1> SUFFICES ASSUME IInv, Forget \/ Ready PROVE IInv'
    OBVIOUS
  <1> USE DEF IInv
  <1>1. UNCHANGED <<frames, down, bufs, rxPacket, rxPtr, fullSize, asks, cur>>
    BY DEF Forget, Ready, FreeUnchanged, MainUnchanged, rxVars, hostVars
  <1>2. DecoderPart'
    BY <1>1 DEF DecoderPart, HeaderRight
  <1>3. HeldBuf' = HeldBuf /\ Held' = Held /\ HeldF' = HeldF
    BY <1>1 DEF HeldBuf, Held, HeldF
  <1>4. DataRight(frames[HeldF], Held, HeadLen + Announced(frames[HeldF]))'
        = DataRight(frames[HeldF], Held, HeadLen + Announced(frames[HeldF]))
    BY <1>1, <1>3 DEF DataRight, Announced
  <1>5. ~doneOld /\ cur = HeldBuf /\ Frame = HeldF
    BY DEF HandedPart, Forget, Ready, Frame, HeldF, Held
  <1>6. CASE Forget
    <2>1. packetOk' = 0 /\ pc' = "freed" /\ UNCHANGED <<doneOld, released>>
      BY <1>6 DEF Forget, Clears, Goto
    <2>2. ShapePart'
      BY <1>1, <2>1 DEF ShapePart
    <2>3. HandedPart'
      BY <1>1, <1>3, <1>4, <1>5, <2>1, Zenon DEF HandedPart, HeaderRight
    <2>4. Last' = Last
      BY <1>3, <2>1 DEF Last
    <2>5. OrderPart'
      BY <1>1, <1>3, <2>1, <2>4 DEF OrderPart, Before, First
    <2> QED BY <1>2, <2>2, <2>3, <2>5
  <1>7. CASE Ready
    <2>1. packetOk' = packetOk /\ pc = "freed" /\ pc' = "idle" /\ doneOld' = TRUE /\ released' = HeldF
      BY <1>5, <1>7 DEF Ready, Clears, Goto
    <2>2. packetOk = 0
      BY <2>1 DEF HandedPart
    <2>3. released' \in 0 .. Len(frames)
      <3>1. HeldF \in 1 .. Len(frames) /\ Len(frames) \in Nat
        BY <1>5 DEF HandedPart, ShapePart
      <3> QED BY <2>1, <3>1
    <2>4. ShapePart'
      BY <1>1, <2>1, <2>3 DEF ShapePart
    <2>5. HandedPart'
      BY <2>1, <2>2 DEF HandedPart
    <2>6. Last' = Last
      BY <1>5, <2>1 DEF Last
    <2>7. OrderPart'
      BY <1>1, <1>3, <2>1, <2>6 DEF OrderPart, Before, First
    <2> QED BY <1>2, <2>4, <2>5, <2>7
  <1> QED BY <1>6, <1>7

\* A restart of the board: a part of what is on the line is lost.
LEMMA ResetKeeps == IInv /\ HandleReset => IInv'
  <1> SUFFICES ASSUME IInv, HandleReset PROVE IInv'
    OBVIOUS
  <1> USE DEF IInv
  <1>1. PICK n \in 0 .. Len(down) : down' = SubSeq(down, n + 1, Len(down))
    BY DEF HandleReset
  <1>2. Shrinks(n)
    BY <1>1, SuffixShrinks
  <1>3. /\ frames' = frames /\ doneOld' = TRUE /\ packetOk' = 0 /\ pc' = "idle"
        /\ rxPacket' = 1 /\ rxPtr' = 0 /\ fullSize' = 0 /\ cur' = 1
        /\ released' = bufs[packetOk][1].f /\ packetOk # 0
        /\ bufs' = [b \in 1 .. 2 |-> [i \in 1 .. PacketLen |-> Blank]]
        /\ asks' = [b \in 1 .. 2 |-> FALSE]
    BY DEF HandleReset, hostVars
  <1>4. ~doneOld /\ released' = HeldF
    BY <1>3, SeenIsHeld DEF HeldF
  <1>5. HeldF \in 1 .. Len(frames) /\ Len(frames) \in Nat
    BY <1>4 DEF HandedPart, ShapePart
  <1>6. Last' = Last
    BY <1>3, <1>4 DEF Last
  <1>7. /\ \A k \in 1 .. Len(down') : /\ Before(First(Last), down'[k])
                                      /\ down'[k].f \in 1 .. Len(frames)
        /\ \A j, k \in 1 .. Len(down') : j < k => Before(down'[j], down'[k])
    BY <1>2, LeftInOrder
  <1>8. ShapePart'
    <2>1. bufs' \in [1 .. 2 -> [1 .. PacketLen -> Cell]] /\ asks' \in [1 .. 2 -> BOOLEAN]
      BY <1>3 DEF Blank, Cell
    <2>2. rxPtr' \in 0 .. PacketLen
      BY <1>3, LineAssumption DEF PacketLen
    <2>3. released' \in 0 .. Len(frames)
      BY <1>4, <1>5
    <2>4. down' \in Seq(Cell)
      BY <1>2 DEF Shrinks
    <2> QED BY <1>3, <1>7, <2>1, <2>2, <2>3, <2>4 DEF ShapePart
  <1>9. DecoderPart'
    BY <1>3, LineAssumption DEF DecoderPart
  <1>10. HandedPart'
    BY <1>3 DEF HandedPart
  <1>11. OrderPart'
    <2>1. OrderPart' <=>
            /\ \A j, k \in 1 .. Len(down') : j < k => Before(down'[j], down'[k])
            /\ \A k \in 1 .. Len(down') : Before(First(Last), down'[k])
      BY <1>3, <1>6 DEF OrderPart, First, Before
    <2> QED BY <1>7, <2>1
  <1> QED BY <1>8, <1>9, <1>10, <1>11

\* At power on no packet is handed over.
LEMMA HandOverInit == Init => IInv
  <1> SUFFICES ASSUME Init PROVE IInv
    OBVIOUS
  <1> USE DEF Init, Boot
  <1>1. ShapePart
    <2>1. frames \in Seq(FrameT) /\ down \in Seq(Cell) /\ Len(frames) = 0 /\ Len(down) = 0
      BY EmptySeq
    <2>2. bufs \in [1 .. 2 -> [1 .. PacketLen -> Cell]] /\ asks \in [1 .. 2 -> BOOLEAN]
      BY DEF Blank, Cell
    <2>3. rxPtr \in 0 .. PacketLen
      BY LineAssumption DEF PacketLen
    <2> QED BY <2>1, <2>2, <2>3 DEF ShapePart
  <1>2. DecoderPart
    BY LineAssumption DEF DecoderPart
  <1>3. HandedPart
    BY DEF HandedPart
  <1>4. OrderPart
    <2>1. Len(down) = 0
      BY EmptySeq
    <2> QED BY <2>1 DEF OrderPart
  <1> QED BY <1>1, <1>2, <1>3, <1>4 DEF IInv

\* Every step keeps the hand-over.
LEMMA HandOverNext == IInv /\ CallOK /\ [Next]_vars => IInv'
  <1> SUFFICES ASSUME IInv, CallOK, [Next]_vars PROVE IInv'
    OBVIOUS
  <1>1. CASE UNCHANGED vars
    BY <1>1, StutterKeeps DEF vars, rxVars, mainVars, hostVars
  <1>2. CASE Next
    BY <1>2, NextIsStep, HostKeeps, RxByteKeeps, LoseDownKeeps, HandlersKeep, ReplyKeeps,
       ReleaseKeeps, ResetKeeps
  <1> QED BY <1>1, <1>2

\* The hand-over between the two sides: whatever the interrupt receives and
\* wherever the main loop is, the buffer that the decoder does not fill holds
\* the packet that was handed over, and frames leave it in their order.
THEOREM HandOver == Spec => [](IInv /\ CallOK)
  BY CallInit, CallNext, HandOverInit, HandOverNext, PTL DEF Spec

\* The packet the main loop was given stays whole until it is released.
THEOREM PacketStableAlways == Spec => []PacketStable
  <1>1. IInv => PacketStable
    <2> SUFFICES ASSUME IInv, packetOk # 0 PROVE PacketStable
      BY DEF PacketStable
    <2>1. ~doneOld /\ bufs[packetOk] = Held
      BY SeenIsHeld DEF IInv
    <2> QED BY <2>1 DEF IInv, HandedPart, PacketStable, HeldF
  <1> QED BY <1>1, HandOver, PTL

\* The main loop starts on packets in the order the host sent them, and on none
\* that was released.
THEOREM HandledInOrderAlways == Spec => HandledInOrder
  <1>1. IInv /\ [Next]_vars => [pc = "idle" /\ pc' # "idle" => bufs[packetOk][1].f > released]_vars
    <2> SUFFICES ASSUME IInv, Next, pc = "idle", pc' # "idle"
                 PROVE  bufs[packetOk][1].f > released
      BY DEF HandledInOrder
    <2>1. Handlers
      BY NextIsStep DEF Request, TxByte, RxByte, LoseDown, ReplySteps, SendReply, StoreError,
         StoreCode, ReadAgain, StoreSeq, StoredReturn, ManyErrors, ClearErrors, BuildReply,
         SerialWrite, HandleReset, Forget, Ready, mainVars
    <2>2. packetOk # 0
      BY <2>1 DEF Handlers, HandleCounter, HandleSetting, HandleApp, Sees
    <2>3. ~doneOld /\ bufs[packetOk] = Held
      BY <2>2, SeenIsHeld DEF IInv
    <2>4. released < HeldF /\ released \in Int /\ HeldF \in Int
      BY <2>3 DEF IInv, OrderPart, HandedPart, ShapePart
    <2> QED BY <2>3, <2>4 DEF HeldF
  <1> QED BY <1>1, HandOver, PTL DEF Spec, HandledInOrder

-----------------------------------------------------------------------------
(* One answer to a question.                                               *)

ReplyT == [to : Nat, error : {"none", "error", "many"}, quick : BOOLEAN, size : Nat,
           claims : Nat, sum : BOOLEAN, hash : BOOLEAN]
Replied(f) == \E k \in 1 .. Len(replies) : replies[k].to = f

\* The call under way has taken the question and will build its answer.
Storing == {"store", "code", "read", "seq"}
Answering ==
  \/ pc \in {"many", "clear", "build"}
  \/ pc \in Storing /\ call.stored = "many"

\* The types the library always answers, and releases.
Counters == {"PING", "NUM", "ERRORS"}

\* Where the main loop may be, and what its call returns to.
CallPart ==
  /\ pc \in Storing \cup {"idle", "reply", "return", "many", "clear", "build", "write",
                          "free", "freed"}
  /\ pc \in Storing => call.stored \in {"return", "many"}
  /\ pc \notin {"idle", "free", "freed"} /\ call.next = "idle" =>
       frames[HeldF].type \notin Counters

\* Whether the packet at hand has been answered: not as long as its question
\* stands or an answer is on its way, and else it has if it asked for one.
HeldPart ==
  /\ asks[HeldBuf] \/ Answering => ~Replied(HeldF)
  /\ frames[HeldF].reply => asks[HeldBuf] \/ Answering \/ Replied(HeldF)
  /\ packetOk # 0 /\ pc = "idle" /\ frames[HeldF].type \in Counters => ~Replied(HeldF)

AnswerPart ==
  /\ replies \in Seq(ReplyT)
  /\ \A k \in 1 .. Len(replies) : replies[k].to \in 1 .. Last
  /\ AnsweredOnce
  /\ ~doneOld => HeldPart
  /\ pc \notin {"idle", "reply"} => ~asks[HeldBuf]

AInv == CallPart /\ AnswerPart

\* A step that answers nothing and hands nothing over.
LEMMA NoAnswerKeeps ==
  ASSUME AInv, UNCHANGED replies, Last' = Last,
         CallPart', ~doneOld' => HeldPart', pc' \notin {"idle", "reply"} => ~asks'[HeldBuf']
  PROVE  AInv'
  <1>1. AnsweredOnce'
    BY DEF AInv, AnswerPart, AnsweredOnce
  <1>2. AnswerPart'
    BY <1>1 DEF AInv, AnswerPart
  <1> QED BY <1>2 DEF AInv

\* The host and the interrupt, when no packet is handed over.
LEMMA AsideKeeps ==
  ASSUME IInv, AInv,
         UNCHANGED <<pc, call, replies, asks, packetOk, doneOld, released>>,
         HeldBuf' = HeldBuf, HeldF' = HeldF,
         ~doneOld => frames'[HeldF] = frames[HeldF]
  PROVE  AInv'
  <1>1. Last' = Last
    BY DEF Last
  <1>2. CallPart'
    BY DEF AInv, CallPart, IInv, HandedPart
  <1>3. Replied(HeldF)' <=> Replied(HeldF)
    BY DEF Replied
  <1>4. Answering' <=> Answering
    BY DEF Answering
  <1>5. ~doneOld => HeldPart'
    BY <1>3, <1>4 DEF AInv, AnswerPart, HeldPart
  <1> QED BY <1>1, <1>2, <1>5, NoAnswerKeeps DEF AInv, AnswerPart

\* The host answers nothing.
LEMMA HostKeepsAnswers == IInv /\ AInv /\ (Request \/ TxByte) => AInv'
  <1> SUFFICES ASSUME IInv, AInv, Request \/ TxByte PROVE AInv'
    OBVIOUS
  <1>1. /\ UNCHANGED <<pc, call, replies, asks, packetOk, doneOld, released>>
        /\ UNCHANGED <<bufs, rxPacket>>
    BY DEF Request, TxByte, rxVars, mainVars
  <1>2. HeldBuf' = HeldBuf /\ HeldF' = HeldF
    BY <1>1 DEF HeldBuf, HeldF, Held
  <1>3. UNCHANGED <<frames, down>> \/ \E r \in Asked : HostSend(r)
    BY HostMoves
  <1>4. ~doneOld => frames'[HeldF] = frames[HeldF]
    <2>1. ~doneOld => HeldF \in 1 .. Len(frames)
      BY DEF IInv, HandedPart
    <2>2. (\E r \in Asked : HostSend(r)) => Grows
      BY SendGrows DEF IInv
    <2> QED BY <1>3, <2>1, <2>2 DEF Grows
  <1> QED BY <1>1, <1>2, <1>4, AsideKeeps

\* What a received byte does to the hand-over: nothing, or a packet is handed
\* over with the question it asks.
LEMMA RxByteHands ==
  ASSUME IInv, RxByte
  PROVE  /\ UNCHANGED <<frames, pc, call, replies, released>>
         /\ \/ UNCHANGED <<packetOk, asks, doneOld>> /\ HeldBuf' = HeldBuf /\ HeldF' = HeldF
            \/ doneOld /\ ~doneOld' /\ asks'[HeldBuf'] = frames[HeldF'].reply
  <1>1. UNCHANGED <<frames, pc, call, replies, released>>
    BY DEF RxByte, mainVars, hostVars
  <1>2. CASE UNCHANGED <<rxVars, packetOk, asks, doneOld, numErrors>>
    BY <1>1, <1>2 DEF rxVars, HeldBuf, HeldF, Held
  <1>3. CASE UNCHANGED <<bufs, Handed, numErrors>>
    BY <1>1, <1>3 DEF Handed, HeldBuf, HeldF, Held
  <1>4. CASE ~Overrun /\ Store(Head(down))
    <2> DEFINE b == [bufs[rxPacket] EXCEPT ![rxPtr + 1] = Head(down)]
    <2>1. /\ bufs' = [bufs EXCEPT ![rxPacket] = b]
          /\ UNCHANGED Handed \/ TakePacket(b[1].f)
      BY <1>4 DEF Store
    <2> HIDE DEF b
    <2>2. /\ rxPacket \in 1 .. 2 /\ HeldBuf \in 1 .. 2 /\ HeldBuf # rxPacket
          /\ bufs'[rxPacket] = b /\ bufs'[HeldBuf] = Held
      BY <2>1 DEF IInv, ShapePart, HeldBuf, Held
    <2>3. CASE UNCHANGED <<packetOk, asks, doneOld, rxPacket>>
      BY <1>1, <2>2, <2>3 DEF HeldBuf, HeldF, Held
    <2>4. CASE TakePacket(b[1].f) /\ doneOld
      <3>1. /\ ~doneOld' /\ rxPacket' = 3 - rxPacket
            /\ asks' = [asks EXCEPT ![rxPacket] = frames[b[1].f].reply]
        BY <2>4 DEF TakePacket, Switched
      <3>2. HeldBuf' = rxPacket /\ HeldF' = b[1].f
        BY <2>2, <3>1 DEF HeldBuf, HeldF, Held
      <3>3. asks'[rxPacket] = frames[b[1].f].reply
        BY <2>2, <3>1 DEF IInv, ShapePart
      <3> QED BY <1>1, <2>4, <3>1, <3>2, <3>3
    <2> QED BY <2>1, <2>3, <2>4 DEF Handed, TakePacket
  <1> QED BY <1>2, <1>3, <1>4 DEF RxByte

\* A packet handed over has no answer yet.
LEMMA RxByteKeepsAnswers == IInv /\ IInv' /\ AInv /\ RxByte => AInv'
  <1> SUFFICES ASSUME IInv, IInv', AInv, RxByte PROVE AInv'
    OBVIOUS
  <1>1. UNCHANGED <<frames, pc, call, replies, released>>
    BY RxByteHands
  <1>2. CASE UNCHANGED <<packetOk, asks, doneOld>> /\ HeldBuf' = HeldBuf /\ HeldF' = HeldF
    BY <1>1, <1>2, AsideKeeps
  <1>3. CASE doneOld /\ ~doneOld' /\ asks'[HeldBuf'] = frames[HeldF'].reply
    <2>1. pc = "idle" /\ Last = released /\ Last' = HeldF'
      BY <1>3 DEF IInv, HandedPart, Last
    <2>2. released < HeldF' /\ released \in Nat /\ HeldF' \in Nat
      BY <1>1, <1>3 DEF IInv, OrderPart, HandedPart, ShapePart
    <2>3. \A k \in 1 .. Len(replies) : /\ replies[k].to # HeldF'
                                       /\ replies[k].to \in 1 .. HeldF'
      BY <2>1, <2>2 DEF AInv, AnswerPart
    <2>4. ~Replied(HeldF)'
      BY <1>1, <2>3 DEF Replied
    <2>5. HeldPart'
      BY <1>1, <1>3, <2>4 DEF HeldPart
    <2>6. AnsweredOnce'
      BY <1>1 DEF AInv, AnswerPart, AnsweredOnce
    <2>7. AnswerPart'
      BY <1>1, <2>1, <2>3, <2>5, <2>6 DEF AInv, AnswerPart
    <2>8. CallPart'
      BY <1>1, <2>1 DEF AInv, CallPart, Storing
    <2> QED BY <2>7, <2>8 DEF AInv
  <1> QED BY <1>2, <1>3, RxByteHands

\* A lost byte.
LEMMA LoseDownKeepsAnswers == IInv /\ AInv /\ LoseDown => AInv'
  <1> SUFFICES ASSUME IInv, AInv, LoseDown PROVE AInv'
    OBVIOUS
  <1>1. /\ UNCHANGED <<pc, call, replies, asks, packetOk, doneOld, released>>
        /\ UNCHANGED <<bufs, rxPacket, frames>>
    BY DEF LoseDown, rxVars, mainVars, hostVars
  <1>2. HeldBuf' = HeldBuf /\ HeldF' = HeldF
    BY <1>1 DEF HeldBuf, HeldF, Held
  <1> QED BY <1>1, <1>2, AsideKeeps

\* A handler sees the packet at hand: one that the library always answers is
\* asked now, and is not answered yet.
LEMMA HandlersKeepAnswers == IInv /\ AInv /\ Handlers => AInv'
  <1> SUFFICES ASSUME IInv, AInv, Handlers PROVE AInv'
    OBVIOUS
  <1> DEFINE type == frames[HeldF].type
  <1>1. /\ pc = "idle" /\ packetOk # 0
        /\ UNCHANGED <<frames, bufs, rxPacket, packetOk, doneOld, released, replies>>
    BY DEF Handlers, HandleCounter, HandleSetting, HandleApp, Sees, MainUnchanged,
       rxVars, hostVars
  <1>2. ~doneOld /\ packetOk = HeldBuf /\ HeldBuf \in 1 .. 2 /\ bufs[packetOk] = Held
    BY <1>1, SeenIsHeld DEF IInv
  <1>3. HeldBuf' = HeldBuf /\ HeldF' = HeldF /\ Last' = Last /\ frames' = frames
    BY <1>1 DEF HeldBuf, HeldF, Held, Last
  <1>4. Replied(HeldF)' <=> Replied(HeldF)
    BY <1>1, <1>3 DEF Replied
  <1>5. ~Answering
    BY <1>1 DEF Answering, Storing
  <1>6. CASE HandleCounter
    <2>1. type \in Counters /\ pc' = "reply" /\ call'.next = "free"
      BY <1>2, <1>6 DEF HandleCounter, Sees, Reply, Goto, Counters, HeldF
    <2>2. asks'[HeldBuf] = TRUE
      BY <1>2, <1>6 DEF HandleCounter, IInv, ShapePart
    <2>3. ~Replied(HeldF)
      BY <1>1, <1>2, <2>1 DEF AInv, AnswerPart, HeldPart
    <2>4. HeldPart'
      BY <1>3, <1>4, <2>1, <2>2, <2>3 DEF HeldPart
    <2>5. CallPart'
      BY <2>1 DEF CallPart, Storing
    <2> QED BY <1>1, <1>3, <2>1, <2>4, <2>5, NoAnswerKeeps
  <1>7. CASE HandleSetting \/ HandleApp
    <2>1. asks' = asks /\ pc' \in {"reply", "free"}
      BY <1>7 DEF HandleSetting, HandleApp, Reply, Goto
    <2>2. pc' = "free" => ~asks[HeldBuf]
      BY <1>2, <1>7 DEF HandleSetting, HandleApp, Reply, Goto
    <2>3. type \notin Counters
      BY <1>2, <1>7 DEF HandleSetting, HandleApp, Sees, Counters, HeldF
    <2>4. ~Answering'
      BY <2>1 DEF Answering, Storing
    <2>5. HeldPart'
      BY <1>2, <1>3, <1>4, <1>5, <2>1, <2>4, Zenon DEF AInv, AnswerPart, HeldPart
    <2>6. CallPart'
      BY <1>3, <2>1, <2>3 DEF CallPart, Storing
    <2> QED BY <1>1, <1>3, <2>1, <2>2, <2>5, <2>6, NoAnswerKeeps
  <1> QED BY <1>6, <1>7 DEF Handlers

\* What the steps of send_reply leave alone.
Kept == <<frames, bufs, rxPacket, packetOk, doneOld, released>>

\* The end of send_reply, when its question is answered or was none.
LEMMA ReturnKeepsAnswers ==
  ASSUME IInv, CallOK, AInv, Return, UNCHANGED Kept, UNCHANGED <<replies, asks>>,
         pc \in {"reply", "return", "write"}, ~asks[HeldBuf]
  PROVE  AInv'
  <1>1. ~doneOld
    BY DEF IInv, HandedPart
  <1>2. HeldBuf' = HeldBuf /\ HeldF' = HeldF /\ Last' = Last /\ frames' = frames
    BY DEF HeldBuf, HeldF, Held, Last, Kept
  <1>3. Replied(HeldF)' <=> Replied(HeldF)
    BY <1>2 DEF Replied
  <1>4. pc' = IF call.next = "again" THEN "reply" ELSE call.next
    BY ReturnCall
  <1>5. call.next \in {"free", "idle", "again"}
    BY DEF CallOK, CallT
  <1>6. ~Answering /\ ~Answering'
    BY <1>4, <1>5 DEF Answering, Storing
  <1>7. pc' = "idle" => frames[HeldF].type \notin Counters
    BY <1>4, <1>5 DEF AInv, CallPart
  <1>8. pc' = "reply" => call'.next = "free"
    BY <1>4, <1>5 DEF Return, NoCall
  <1>9. CallPart'
    BY <1>4, <1>5, <1>8 DEF CallPart, Storing
  <1>10. HeldPart
    BY <1>1 DEF AInv, AnswerPart
  <1>11. HeldPart'
    BY <1>2, <1>3, <1>6, <1>7, <1>10, Zenon DEF HeldPart
  <1>12. ~asks'[HeldBuf']
    BY <1>2
  <1> QED BY <1>2, <1>9, <1>11, <1>12, NoAnswerKeeps

\* A step of send_reply on its way: an answer is due as before.
LEMMA OnTheWayKeeps ==
  ASSUME IInv, AInv, UNCHANGED Kept, UNCHANGED <<replies, asks>>,
         pc \notin {"idle", "free", "freed"}, pc' \notin {"idle", "free", "freed"},
         call'.next = call.next, CallPart', Answering' <=> Answering,
         ~asks[HeldBuf]
  PROVE  AInv'
  <1>1. HeldBuf' = HeldBuf /\ HeldF' = HeldF /\ Last' = Last /\ frames' = frames
    BY DEF HeldBuf, HeldF, Held, Last, Kept
  <1>2. Replied(HeldF)' <=> Replied(HeldF)
    BY <1>1 DEF Replied
  <1>3. ~doneOld
    BY DEF IInv, HandedPart
  <1>4. HeldPart
    BY <1>3 DEF AInv, AnswerPart
  <1>5. HeldPart'
    BY <1>1, <1>2, <1>4, Zenon DEF HeldPart
  <1>6. ~asks'[HeldBuf']
    BY <1>1
  <1> QED BY <1>1, <1>5, <1>6, NoAnswerKeeps

\* send_reply takes the question.
LEMMA SendReplyKeepsAnswers == IInv /\ CallOK /\ AInv /\ SendReply => AInv'
  <1> SUFFICES ASSUME IInv, CallOK, AInv, SendReply PROVE AInv'
    OBVIOUS
  <1>1. pc = "reply" /\ UNCHANGED Kept /\ UNCHANGED replies
    BY DEF SendReply, ReplyUnchanged, MainUnchanged, rxVars, hostVars, Kept
  <1>2. ~doneOld /\ cur = HeldBuf /\ HeldBuf \in 1 .. 2
    BY <1>1 DEF IInv, HandedPart, ShapePart, HeldBuf
  <1>3. ~Answering
    BY <1>1 DEF Answering, Storing
  <1>4. CASE ~asks[cur] /\ Return /\ UNCHANGED asks
    BY <1>1, <1>2, <1>4, ReturnKeepsAnswers
  <1>5. CASE /\ ~asks[cur] /\ UNCHANGED asks
             /\ Goto("store") /\ call' = [call EXCEPT !.stored = StoredNext(FALSE)]
    <2>1. pc' = "store" /\ call'.stored = "return" /\ call'.next = call.next
      BY <1>5 DEF Goto, StoredNext, CallOK, CallT
    <2>2. HeldF' = HeldF /\ frames' = frames
      BY <1>1 DEF HeldBuf, HeldF, Held, Kept
    <2>3. CallPart'
      BY <1>1, <2>1, <2>2 DEF AInv, CallPart, Storing
    <2>4. ~Answering'
      BY <2>1 DEF Answering, Storing
    <2> QED BY <1>1, <1>2, <1>3, <1>5, <2>1, <2>3, <2>4, OnTheWayKeeps
  <1>6. CASE /\ asks[cur] /\ asks' = Answered
             /\ pc' \in {"build", "store", "many"}
             /\ call' = [call EXCEPT !.stored = StoredNext(TRUE)]
    <2>1. call'.stored = "many" /\ call'.next = call.next
      BY <1>6 DEF StoredNext, CallOK, CallT
    <2>2. HeldBuf' = HeldBuf /\ HeldF' = HeldF /\ frames' = frames /\ Last' = Last
      BY <1>1 DEF HeldBuf, HeldF, Held, Kept, Last
    <2>3. Replied(HeldF)' <=> Replied(HeldF)
      BY <1>1, <2>2 DEF Replied
    <2>4. asks[HeldBuf] /\ ~Replied(HeldF)
      BY <1>2, <1>6 DEF AInv, AnswerPart, HeldPart
    <2>5. ~asks'[HeldBuf']
      BY <1>2, <1>6, <2>2 DEF Answered, IInv, ShapePart
    <2>6. Answering'
      BY <1>6, <2>1 DEF Answering, Storing
    <2>7. HeldPart'
      BY <1>6, <2>2, <2>3, <2>4, <2>6 DEF HeldPart
    <2>8. CallPart'
      BY <1>1, <1>6, <2>1, <2>2 DEF AInv, CallPart, Storing
    <2> QED BY <1>1, <2>2, <2>5, <2>7, <2>8, NoAnswerKeeps
  <1> QED BY <1>4, <1>5, <1>6 DEF SendReply, Goto

\* The error list, then the answer that is due.
LEMMA StoringKeepsAnswers ==
  ASSUME IInv, CallOK, AInv,
         StoreError \/ StoreCode \/ ReadAgain \/ StoreSeq \/ ManyErrors \/ ClearErrors
  PROVE  AInv'
  <1>1. UNCHANGED Kept /\ UNCHANGED <<replies, asks>>
    BY DEF StoreError, StoreCode, ReadAgain, StoreSeq, ManyErrors, ClearErrors,
       StoreUnchanged, ReplyUnchanged, MainUnchanged, rxVars, hostVars, Kept
  <1>2. HeldF' = HeldF /\ frames' = frames
    BY <1>1 DEF HeldBuf, HeldF, Held, Kept
  <1>3. CASE StoreError \/ StoreCode \/ ReadAgain \/ StoreSeq
    <2>1. /\ pc \in Storing /\ UNCHANGED call
          /\ pc' \in Storing \/ pc' = call.stored
      BY <1>3 DEF StoreError, StoreCode, ReadAgain, StoreSeq, Goto, Storing
    <2>2. call.stored \in {"return", "many"}
      BY <2>1 DEF AInv, CallPart
    <2>3. CallPart'
      BY <1>2, <2>1, <2>2 DEF AInv, CallPart, Storing
    <2>4. Answering' <=> Answering
      BY <2>1, <2>2 DEF Answering, Storing
    <2>5. pc \notin {"idle", "free", "freed", "reply"} /\ pc' \notin {"idle", "free", "freed"}
      BY <2>1, <2>2 DEF Storing
    <2>6. ~asks[HeldBuf]
      BY <2>5 DEF AInv, AnswerPart
    <2> QED BY <1>1, <2>1, <2>3, <2>4, <2>5, <2>6, OnTheWayKeeps
  <1>4. CASE ManyErrors \/ ClearErrors
    <2>1. pc \in {"many", "clear"} /\ pc' \in {"clear", "build"}
      BY <1>4 DEF ManyErrors, ClearErrors, Goto
    <2>2. call'.next = call.next
      BY <1>4 DEF ManyErrors, ClearErrors, CallOK, CallT
    <2>3. CallPart'
      BY <1>2, <2>1, <2>2 DEF AInv, CallPart, Storing
    <2>4. Answering' <=> Answering
      BY <2>1 DEF Answering
    <2>5. ~asks[HeldBuf]
      BY <2>1 DEF AInv, AnswerPart
    <2> QED BY <1>1, <2>1, <2>2, <2>3, <2>4, <2>5, OnTheWayKeeps
  <1> QED BY <1>3, <1>4

\* The answer is built: the one answer to the packet at hand.
LEMMA BuildKeepsAnswers == IInv /\ CallOK /\ AInv /\ BuildReply => AInv'
  <1> SUFFICES ASSUME IInv, CallOK, AInv, BuildReply PROVE AInv'
    OBVIOUS
  <1>1. pc = "build" /\ pc' = "write" /\ UNCHANGED Kept /\ UNCHANGED <<asks, call, cur>>
    BY DEF BuildReply, Goto, ReplyUnchanged, MainUnchanged, rxVars, hostVars, Kept
  <1>2. /\ ~doneOld /\ cur = HeldBuf
        /\ HeldF \in 1 .. Len(frames) /\ Len(frames) \in Nat
    BY <1>1 DEF IInv, HandedPart, ShapePart
  <1>3. HeldBuf' = HeldBuf /\ HeldF' = HeldF /\ frames' = frames /\ Last' = Last /\ Last = HeldF
    BY <1>1, <1>2 DEF HeldBuf, HeldF, Held, Kept, Last
  <1>4. PICK r \in Built : replies' = Append(replies, r)
    BY DEF BuildReply
  <1>5. r.to = HeldF /\ r \in ReplyT
    <2>1. Frame = HeldF
      BY <1>2 DEF Frame, HeldF, Held
    <2>2. /\ call.error \in {"none", "error", "many"} /\ call.size \in Nat /\ HeldF \in Nat
          /\ \A g \in Garbage : g.claims \in Nat /\ g.sum \in BOOLEAN
      BY <1>2, DataAssumption DEF CallOK, CallT
    <2>3. PICK quick \in BOOLEAN, size \in Nat, claims \in Nat, sum \in BOOLEAN, hash \in BOOLEAN :
            r = [to |-> Frame, error |-> call.error, quick |-> quick, size |-> size,
                 claims |-> claims, sum |-> sum, hash |-> hash]
      BY <1>4, <2>2 DEF Built
    <2> QED BY <2>1, <2>2, <2>3 DEF ReplyT
  <1>6. /\ replies' \in Seq(ReplyT) /\ Len(replies') = Len(replies) + 1 /\ Len(replies) \in Nat
        /\ \A k \in 1 .. Len(replies) : replies'[k] = replies[k]
        /\ replies'[Len(replies) + 1] = r
    BY <1>4, <1>5 DEF AInv, AnswerPart
  <1>7. \A k \in 1 .. Len(replies) : replies[k].to # HeldF /\ replies[k].to \in 1 .. Last
    <2>1. ~Replied(HeldF)
      BY <1>1, <1>2 DEF Answering, AInv, AnswerPart, HeldPart
    <2> QED BY <2>1 DEF Replied, AInv, AnswerPart
  <1>8. \A k \in 1 .. Len(replies') : replies'[k].to \in 1 .. Last'
    BY <1>2, <1>3, <1>5, <1>6, <1>7
  <1>9. AnsweredOnce'
    <2>1. SUFFICES ASSUME NEW j \in 1 .. Len(replies'), NEW k \in 1 .. Len(replies'),
                          replies'[j].to = replies'[k].to
                   PROVE  j = k
      BY DEF AnsweredOnce
    <2>2. AnsweredOnce
      BY DEF AInv, AnswerPart
    <2> QED BY <1>5, <1>6, <1>7, <2>1, <2>2 DEF AnsweredOnce
  <1>10. Replied(HeldF)'
    <2>1. Len(replies) + 1 \in 1 .. Len(replies') /\ replies'[Len(replies) + 1].to = HeldF'
      BY <1>3, <1>5, <1>6
    <2> QED BY <2>1 DEF Replied
  <1>11. ~asks[HeldBuf]
    BY <1>1 DEF AInv, AnswerPart
  <1>12. HeldPart'
    BY <1>1, <1>3, <1>10, <1>11 DEF HeldPart, Answering, Storing
  <1>13. CallPart'
    BY <1>1, <1>3 DEF AInv, CallPart, Storing
  <1>14. AnswerPart'
    BY <1>1, <1>3, <1>6, <1>8, <1>9, <1>11, <1>12 DEF AnswerPart
  <1> QED BY <1>13, <1>14 DEF AInv

\* The copy into the output buffer, in as many pieces as it takes.
LEMMA WriteKeepsAnswers == IInv /\ CallOK /\ AInv /\ (StoredReturn \/ SerialWrite) => AInv'
  <1> SUFFICES ASSUME IInv, CallOK, AInv, StoredReturn \/ SerialWrite PROVE AInv'
    OBVIOUS
  <1>1. /\ pc \in {"return", "write"} /\ UNCHANGED Kept /\ UNCHANGED <<replies, asks>>
        /\ Return \/ UNCHANGED <<pc, call, tmp>>
    BY DEF StoredReturn, SerialWrite, StoreUnchanged, ReplyUnchanged, MainUnchanged,
       rxVars, hostVars, Kept
  <1>2. ~asks[HeldBuf]
    BY <1>1 DEF AInv, AnswerPart
  <1>3. CASE Return
    BY <1>1, <1>2, <1>3, ReturnKeepsAnswers
  <1>4. CASE UNCHANGED <<pc, call, tmp>>
    <2>1. HeldF' = HeldF /\ frames' = frames
      BY <1>1 DEF HeldBuf, HeldF, Held, Kept
    <2>2. CallPart'
      BY <1>4, <2>1 DEF AInv, CallPart
    <2>3. Answering' <=> Answering
      BY <1>4 DEF Answering
    <2> QED BY <1>1, <1>2, <1>4, <2>2, <2>3, OnTheWayKeeps
  <1> QED BY <1>1, <1>3, <1>4

\* The release leaves the packet at hand until its second assignment, and a
\* restart forgets it.
LEMMA ReleaseKeepsAnswers == IInv /\ AInv /\ (Forget \/ Ready \/ HandleReset) => AInv'
  <1> SUFFICES ASSUME IInv, AInv, Forget \/ Ready \/ HandleReset PROVE AInv'
    OBVIOUS
  <1>1. CASE Forget
    <2>1. /\ pc = "free" /\ pc' = "freed" /\ packetOk' = 0
          /\ UNCHANGED <<frames, bufs, rxPacket, doneOld, released, asks, replies, call>>
      BY <1>1 DEF Forget, Clears, Goto, FreeUnchanged, MainUnchanged, rxVars, hostVars
    <2>2. HeldBuf' = HeldBuf /\ HeldF' = HeldF /\ frames' = frames /\ Last' = Last
      BY <2>1 DEF HeldBuf, HeldF, Held, Last
    <2>3. Replied(HeldF)' <=> Replied(HeldF)
      BY <2>1, <2>2 DEF Replied
    <2>4. ~Answering /\ ~Answering'
      BY <2>1 DEF Answering, Storing
    <2>5. ~doneOld => HeldPart'
      BY <2>1, <2>2, <2>3, <2>4 DEF AInv, AnswerPart, HeldPart
    <2>6. CallPart'
      BY <2>1 DEF CallPart, Storing
    <2>7. ~asks'[HeldBuf']
      BY <2>1, <2>2 DEF AInv, AnswerPart
    <2> QED BY <2>1, <2>2, <2>5, <2>6, <2>7, NoAnswerKeeps
  <1>2. CASE Ready \/ HandleReset
    <2>1. /\ doneOld' = TRUE /\ pc' = "idle" /\ replies' = replies
          /\ released' = IF pc = "freed" THEN Frame ELSE bufs[packetOk][1].f
          /\ pc = "freed" \/ packetOk # 0
      BY <1>2 DEF Ready, HandleReset, Clears, Goto, FreeUnchanged
    <2>2. ~doneOld /\ released' = HeldF
      <3>1. CASE pc = "freed"
        BY <2>1, <3>1 DEF IInv, HandedPart, Frame, HeldF, Held
      <3>2. CASE pc # "freed"
        BY <2>1, <3>2, SeenIsHeld DEF IInv, HeldF
      <3> QED BY <3>1, <3>2
    <2>3. Last' = Last
      BY <2>1, <2>2 DEF Last
    <2>4. CallPart'
      BY <2>1 DEF CallPart, Storing
    <2> QED BY <2>1, <2>3, <2>4, NoAnswerKeeps
  <1> QED BY <1>1, <1>2

\* At power on there are no answers.
LEMMA AnswersInit == Init => AInv
  <1> SUFFICES ASSUME Init PROVE AInv
    OBVIOUS
  <1>1. pc = "idle" /\ doneOld = TRUE /\ replies = <<>>
    BY DEF Init, Boot
  <1>2. replies \in Seq(ReplyT) /\ Len(replies) = 0
    BY <1>1, EmptySeq
  <1>3. AnswerPart
    BY <1>1, <1>2 DEF AnswerPart, AnsweredOnce
  <1>4. CallPart
    BY <1>1 DEF CallPart, Storing
  <1> QED BY <1>3, <1>4 DEF AInv

\* Every step keeps what is known of the answers.
LEMMA AnswersNext == IInv /\ IInv' /\ CallOK /\ AInv /\ [Next]_vars => AInv'
  <1> SUFFICES ASSUME IInv, IInv', CallOK, AInv, [Next]_vars PROVE AInv'
    OBVIOUS
  <1>1. CASE UNCHANGED vars
    <2>1. /\ UNCHANGED <<pc, call, replies, asks, packetOk, doneOld, released>>
          /\ UNCHANGED <<bufs, rxPacket, frames>>
      BY <1>1 DEF vars, rxVars, mainVars, hostVars
    <2>2. HeldBuf' = HeldBuf /\ HeldF' = HeldF
      BY <2>1 DEF HeldBuf, HeldF, Held
    <2> QED BY <2>1, <2>2, AsideKeeps
  <1>2. CASE ReplySteps
    BY <1>2, SendReplyKeepsAnswers, StoringKeepsAnswers, BuildKeepsAnswers, WriteKeepsAnswers
       DEF ReplySteps
  <1>3. CASE Next /\ ~ReplySteps
    BY <1>3, NextIsStep, HostKeepsAnswers, RxByteKeepsAnswers, LoseDownKeepsAnswers,
       HandlersKeepAnswers, ReleaseKeepsAnswers
  <1> QED BY <1>1, <1>2, <1>3

\* No packet is answered twice, wherever errors are stored and however often
\* its handler calls send_reply.
THEOREM AnsweredOnceAlways == Spec => []AnsweredOnce
  <1>1. AInv => AnsweredOnce
    BY DEF AInv, AnswerPart
  <1> QED BY <1>1, HandOver, AnswersInit, AnswersNext, PTL DEF Spec

-----------------------------------------------------------------------------
(* The answer comes before the release.                                    *)

\* A packet that restarts the board gets no answer (slave.c resets before any
\* reply), so this is for hosts that do not ask for one with it.
ResetsAskNothing == \A r \in Requests : r.type \in {"RESET", "USER"} => ~r.reply
ResetsQuiet ==
  \A f \in 1 .. Len(frames) : frames[f].type \in {"RESET", "USER"} => ~frames[f].reply

\* The host sends a frame or none.
LEMMA FramesMove ==
  ASSUME [Next]_vars
  PROVE  frames' = frames \/ \E r \in Asked : HostSend(r)
  <1>1. CASE UNCHANGED vars
    BY <1>1 DEF vars, hostVars
  <1>2. CASE Request \/ TxByte
    BY <1>2, HostMoves
  <1>3. CASE RxByte \/ LoseDown
    BY <1>3 DEF RxByte, LoseDown, hostVars
  <1>4. CASE Handlers
    BY <1>4 DEF Handlers, HandleCounter, HandleSetting, HandleApp, Sees, MainUnchanged, hostVars
  <1>5. CASE ReplySteps
    BY <1>5 DEF ReplySteps, SendReply, StoreError, StoreCode, ReadAgain, StoreSeq,
       StoredReturn, ManyErrors, ClearErrors, BuildReply, SerialWrite, StoreUnchanged,
       ReplyUnchanged, MainUnchanged, hostVars
  <1>6. CASE HandleReset \/ Forget \/ Ready
    BY <1>6 DEF HandleReset, Forget, Ready, FreeUnchanged, MainUnchanged, hostVars
  <1> QED BY <1>1, <1>2, <1>3, <1>4, <1>5, <1>6, NextIsStep

\* Nothing that restarts the board asks for an answer.
LEMMA QuietNext ==
  ASSUME ResetsAskNothing, IInv, ResetsQuiet, [Next]_vars
  PROVE  /\ ResetsQuiet'
         /\ Len(frames) <= Len(frames')
         /\ \A f \in 1 .. Len(frames) : frames'[f] = frames[f]
  <1>1. frames' = frames \/ \E r \in Asked : HostSend(r)
    BY FramesMove
  <1>2. frames \in Seq(FrameT) /\ Len(frames) \in Nat
    BY DEF IInv, ShapePart
  <1>3. CASE frames' = frames
    BY <1>2, <1>3 DEF ResetsQuiet
  <1>4. CASE \E r \in Asked : HostSend(r)
    <2>1. PICK r \in Asked : HostSend(r)
      BY <1>4
    <2>2. PICK p \in Frames(r) : frames' = Append(frames, p)
      BY <2>1 DEF HostSend
    <2>3. p.type = r.type /\ p.reply = r.reply
      BY <2>2 DEF Frames
    <2>4. r.type \in {"RESET", "USER"} => ~r.reply
      BY DEF ResetsAskNothing, Asked, GetErrors
    <2>5. p \in FrameT
      BY <2>2, FramesAreFrames
    <2>6. /\ Len(frames') = Len(frames) + 1 /\ frames'[Len(frames) + 1] = p
          /\ \A f \in 1 .. Len(frames) : frames'[f] = frames[f]
      BY <1>2, <2>2, <2>5
    <2> QED BY <1>2, <2>3, <2>4, <2>6 DEF ResetsQuiet
  <1> QED BY <1>1, <1>3, <1>4

\* Only one step of send_reply builds a reply.
LEMMA RepliesGrow ==
  ASSUME [Next]_vars
  PROVE  UNCHANGED replies \/ BuildReply
  <1>1. CASE UNCHANGED vars
    BY <1>1 DEF vars
  <1>2. CASE Request \/ TxByte \/ RxByte \/ LoseDown
    BY <1>2 DEF Request, TxByte, RxByte, LoseDown
  <1>3. CASE Handlers
    BY <1>3 DEF Handlers, HandleCounter, HandleSetting, HandleApp, Sees
  <1>4. CASE ReplySteps
    BY <1>4 DEF ReplySteps, SendReply, StoreError, StoreCode, ReadAgain, StoreSeq,
       StoredReturn, ManyErrors, ClearErrors, SerialWrite, StoreUnchanged
  <1>5. CASE HandleReset \/ Forget \/ Ready
    BY <1>5 DEF HandleReset, Forget, Ready, FreeUnchanged
  <1> QED BY <1>1, <1>2, <1>3, <1>4, <1>5, NextIsStep

\* Answers stay.
LEMMA RepliesStay ==
  ASSUME AInv, [Next]_vars
  PROVE  \A f : Replied(f) => Replied(f)'
  <1>1. replies' = replies \/ \E r : replies' = Append(replies, r)
    BY RepliesGrow DEF BuildReply
  <1>2. replies \in Seq(ReplyT)
    BY DEF AInv, AnswerPart
  <1>3. /\ Len(replies) \in Nat /\ Len(replies') \in Nat /\ Len(replies) <= Len(replies')
        /\ \A k \in 1 .. Len(replies) : replies'[k] = replies[k]
    BY <1>1, <1>2, AppendProperties
  <1> SUFFICES ASSUME NEW f, Replied(f) PROVE Replied(f)'
    OBVIOUS
  <1>4. PICK k \in 1 .. Len(replies) : replies[k].to = f
    BY DEF Replied
  <1>5. k \in 1 .. Len(replies') /\ replies'[k].to = f
    BY <1>3, <1>4
  <1> QED BY <1>5 DEF Replied

\* What was released has its answer, and every step keeps that.
LEMMA ReleasedNext ==
  ASSUME ResetsAskNothing, IInv, AInv, ResetsQuiet, AnsweredWhenReleased, [Next]_vars
  PROVE  AnsweredWhenReleased'
  <1>1. /\ Len(frames) \in Nat /\ released \in 0 .. Len(frames)
        /\ \A f \in 1 .. Len(frames) : frames'[f] = frames[f]
    BY QuietNext DEF IInv, ShapePart
  <1>2. CASE released' = released
    <2>1. released > 0 /\ frames[released].reply => Replied(released)
      BY DEF AnsweredWhenReleased, Replied
    <2>2. ASSUME NEW f, f = released, released > 0, frames[released].reply
          PROVE  Replied(f)'
      BY <2>1, <2>2, RepliesStay
    <2>3. released > 0 => frames'[released] = frames[released]
      BY <1>1
    <2> QED BY <1>2, <2>2, <2>3 DEF AnsweredWhenReleased, Replied
  <1>3. CASE Ready
    <2>1. pc = "freed" /\ released' = HeldF /\ replies' = replies /\ ~doneOld
      BY <1>3 DEF Ready, FreeUnchanged, IInv, HandedPart, Frame, HeldF, Held
    <2>2. HeldF \in 1 .. Len(frames)
      BY <2>1 DEF IInv, HandedPart
    <2>3. frames[HeldF].reply => Replied(HeldF)
      BY <2>1 DEF AInv, AnswerPart, HeldPart, Answering, Storing
    <2>4. frames'[HeldF] = frames[HeldF]
      BY <1>1, <2>2
    <2> QED BY <2>1, <2>3, <2>4 DEF AnsweredWhenReleased, Replied
  <1>4. CASE HandleReset
    <2>1. packetOk # 0 /\ released' = bufs[packetOk][1].f
          /\ frames[bufs[packetOk][1].f].type \in {"RESET", "USER"}
      BY <1>4 DEF HandleReset
    <2>2. bufs[packetOk][1].f = HeldF /\ HeldF \in 1 .. Len(frames)
      BY <2>1, SeenIsHeld DEF IInv, HandedPart, HeldF
    <2>3. ~frames'[released'].reply
      BY <1>1, <2>1, <2>2 DEF ResetsQuiet
    <2> QED BY <2>3 DEF AnsweredWhenReleased
  <1>5. released' = released \/ Ready \/ HandleReset
    <2>1. CASE UNCHANGED vars
      BY <2>1 DEF vars
    <2>2. CASE Request \/ TxByte \/ RxByte \/ LoseDown \/ Forget
      BY <2>2 DEF Request, TxByte, RxByte, LoseDown, Forget
    <2>3. CASE Handlers
      BY <2>3 DEF Handlers, HandleCounter, HandleSetting, HandleApp, Sees
    <2>4. CASE ReplySteps
      BY <2>4 DEF ReplySteps, SendReply, StoreError, StoreCode, ReadAgain, StoreSeq,
         StoredReturn, ManyErrors, ClearErrors, BuildReply, SerialWrite, StoreUnchanged,
         ReplyUnchanged
    <2> QED BY <2>1, <2>2, <2>3, <2>4, NextIsStep
  <1> QED BY <1>2, <1>3, <1>4, <1>5

\* Every question gets one answer, and gets it before its packet is released,
\* when no packet that restarts the board asks for one.
THEOREM AnsweredOnceEachAlways ==
  ASSUME ResetsAskNothing
  PROVE  Spec => []AnsweredOnceEach
  <1>1. Init => ResetsQuiet /\ AnsweredWhenReleased
    <2> SUFFICES ASSUME Init PROVE ResetsQuiet /\ AnsweredWhenReleased
      OBVIOUS
    <2>1. frames = <<>> /\ released = 0
      BY DEF Init
    <2> QED BY <2>1 DEF ResetsQuiet, AnsweredWhenReleased
  <1>2. IInv /\ ResetsQuiet /\ [Next]_vars => ResetsQuiet'
    BY QuietNext
  <1>3. /\ IInv /\ AInv /\ ResetsQuiet /\ AnsweredWhenReleased /\ [Next]_vars
        => AnsweredWhenReleased'
    BY ReleasedNext
  <1>4. AInv /\ AnsweredWhenReleased => AnsweredOnceEach
    BY DEF AInv, AnswerPart, AnsweredOnceEach
  <1> QED BY <1>1, <1>2, <1>3, <1>4, HandOver, AnswersInit, AnswersNext, PTL DEF Spec

-----------------------------------------------------------------------------
(* What the host hears of the replies.                                     *)

\* The counts: the list of errors holds two bytes more than its limit at the
\* worst (the interrupt stores an error between the two halves of another).
CountPart ==
  /\ numErrors <= MaxErrors * 2 + 2
  /\ pc = "code" => tmp < MaxErrors * 2
  /\ pc = "read" => numErrors <= MaxErrors * 2 + 1
  /\ pc = "seq" => tmp <= MaxErrors * 2 + 1
  /\ call.size <= DataLen

\* Replies fit in a packet.
SizePart ==
  \A k \in 1 .. Len(replies) :
    /\ replies[k].size <= DataLen
    /\ replies[k].error # "none" \/ replies[k].quick => replies[k].size = 0

\* The cells of packet m, those after the first n of them.
IsRun(q, m, n) ==
  q \in Seq(Cell) /\ \A k \in 1 .. Len(q) : q[k] = [f |-> m, i |-> n + k]
Full(k) == HeadLen + replies[k].size

\* The host is at reply m: it has decoded those before, holds the start of it,
\* and the output buffer and the piece still to be copied hold the rest, or
\* the buffer holds the rest and the reply after it has just been built.
LastReply(m) ==
  /\ m = Len(replies)
  /\ Len(hostRx) + Len(out) + Len(todo) = Full(m)
  /\ IsRun(todo, m, Len(hostRx) + Len(out))
LastButOne(m) ==
  /\ m + 1 = Len(replies)
  /\ Len(hostRx) + Len(out) = Full(m)
  /\ Len(todo) = Full(m + 1) /\ IsRun(todo, m + 1, 0)
Hearing(m) ==
  /\ got = 1 .. m - 1
  /\ IsRun(hostRx, m, 0) /\ IsRun(out, m, Len(hostRx))
  /\ \/ m = Len(replies) + 1 /\ hostRx = <<>> /\ out = <<>> /\ todo = <<>>
     \/ m >= 1 /\ Len(hostRx) < Full(m) /\ (LastReply(m) \/ LastButOne(m))
HeardPart == ~Spoiled => \E m \in 1 .. Len(replies) + 1 : Hearing(m)

RInv == CountPart /\ SizePart /\ (pc # "write" => todo = <<>>) /\ HeardPart

\* Room for the whole list of errors in a reply (8 errors of 2 bytes and 2 more
\* in 64: slave.h:33 and PACKET_DATA_SIZE).
ListFits == MaxErrors * 2 + 2 <= DataLen

\* The frames of the host stay.
LEMMA FramesStay ==
  ASSUME IInv, [Next]_vars
  PROVE  /\ Len(frames) \in Nat /\ Len(frames') \in Nat /\ Len(frames) <= Len(frames')
         /\ \A f \in 1 .. Len(frames) : frames'[f] = frames[f]
  <1>1. Len(frames) \in Nat
    BY DEF IInv, ShapePart
  <1>2. (\E r \in Asked : HostSend(r)) => Grows
    BY SendGrows DEF IInv
  <1> QED BY <1>1, <1>2, FramesMove DEF Grows

\* What a reply that is built looks like.
LEMMA BuiltShape ==
  ASSUME CallOK, CountPart, Frame \in Nat, NEW r \in Built
  PROVE  /\ r \in ReplyT
         /\ r.size <= DataLen
         /\ r.error # "none" \/ r.quick => r.size = 0
  <1>1. /\ call.error \in {"none", "error", "many"} /\ call.size \in Nat
        /\ call.size <= DataLen /\ DataLen \in Nat
        /\ \A g \in Garbage : g.claims \in Nat /\ g.sum \in BOOLEAN
    BY DataAssumption, LineAssumption DEF CallOK, CallT, CountPart
  <1> DEFINE b(quick, size, claims, sum, hash) ==
        [to |-> Frame, error |-> call.error, quick |-> quick, size |-> size,
         claims |-> claims, sum |-> sum, hash |-> hash]
  <1>2. CASE call.error # "none"
    <2>1. Built = {b(FALSE, 0, 0, TRUE, FALSE)}
      BY <1>2, Zenon DEF Built
    <2>2. r = b(FALSE, 0, 0, TRUE, FALSE)
      BY <2>1
    <2> QED BY <1>1, <2>2 DEF ReplyT
  <1>3. CASE call.error = "none" /\ call.size = 0
    <2>1. PICK g \in Garbage : r = b(FALSE, 0, g.claims, g.sum, FALSE)
      BY <1>3 DEF Built
    <2> QED BY <1>1, <2>1 DEF ReplyT
  <1>4. CASE call.error = "none" /\ call.size \in {1, 2}
    <2>1. r = b(TRUE, 0, 0, TRUE, FALSE)
      BY <1>4 DEF Built
    <2> QED BY <1>1, <2>1 DEF ReplyT
  <1>5. CASE call.error = "none" /\ call.size \notin {0, 1, 2}
    <2>1. PICK h \in BOOLEAN : r = b(FALSE, call.size, call.size, TRUE, h)
      BY <1>5 DEF Built
    <2> QED BY <1>1, <1>5, <2>1 DEF ReplyT
  <1> QED BY <1>2, <1>3, <1>4, <1>5

\* The replies and their shape after one more is built.
LEMMA BuildGrows ==
  ASSUME IInv, CallOK, AInv, CountPart, BuildReply
  PROVE  \E r \in ReplyT :
           /\ r.size <= DataLen
           /\ r.error # "none" \/ r.quick => r.size = 0
           /\ replies' = Append(replies, r)
           /\ todo' = Cells(Len(replies) + 1, r.size)
           /\ replies' \in Seq(ReplyT) /\ Len(replies') = Len(replies) + 1
           /\ \A k \in 1 .. Len(replies) : replies'[k] = replies[k]
           /\ replies'[Len(replies) + 1] = r
  <1>1. Frame \in Nat
    BY DEF BuildReply, IInv, HandedPart, ShapePart, Frame, HeldF, Held
  <1>2. PICK r \in Built : /\ replies' = Append(replies, r)
                           /\ todo' = Cells(Len(replies) + 1, r.size)
    BY DEF BuildReply
  <1>3. r \in ReplyT /\ r.size <= DataLen /\ (r.error # "none" \/ r.quick => r.size = 0)
    BY <1>1, BuiltShape
  <1>4. replies \in Seq(ReplyT)
    BY DEF AInv, AnswerPart
  <1>5. /\ replies' \in Seq(ReplyT) /\ Len(replies') = Len(replies) + 1
        /\ \A k \in 1 .. Len(replies) : replies'[k] = replies[k]
        /\ replies'[Len(replies) + 1] = r
    BY <1>2, <1>3, <1>4, AppendProperties
  <1> QED BY <1>2, <1>3, <1>5

\* What spoils the hearing stays.
LEMMA SpoiledStays ==
  ASSUME IInv, CallOK, AInv, CountPart, [Next]_vars, ~Spoiled'
  PROVE  ~Spoiled
  <1>1. ASSUME NEW f \in 1 .. Len(frames) PROVE frames[f].type \notin {"RESET", "USER"}
    BY FramesStay DEF Spoiled
  <1>2. /\ Len(replies) \in Nat /\ Len(replies') \in Nat /\ Len(replies) <= Len(replies')
        /\ \A k \in 1 .. Len(replies) : replies'[k] = replies[k]
    <2>1. CASE UNCHANGED replies
      BY <2>1 DEF AInv, AnswerPart
    <2>2. CASE BuildReply
      <3>1. Len(replies) \in Nat
        BY DEF AInv, AnswerPart
      <3>2. /\ Len(replies') = Len(replies) + 1
            /\ \A k \in 1 .. Len(replies) : replies'[k] = replies[k]
        BY <2>2, BuildGrows
      <3> QED BY <3>1, <3>2
    <2> QED BY <2>1, <2>2, RepliesGrow
  <1>3. ASSUME NEW k \in 1 .. Len(replies) PROVE Honest(replies[k])
    <2>1. k \in 1 .. Len(replies') /\ replies'[k] = replies[k]
      BY <1>2
    <2>2. Honest(replies'[k])
      BY <2>1, Zenon DEF Spoiled, Honest
    <2> QED BY <2>1, <2>2
  <1> QED BY <1>1, <1>3 DEF Spoiled

\* Back from a call: its arguments are gone.
LEMMA ReturnCounts ==
  ASSUME CallOK, Return
  PROVE  call'.size = 0 /\ tmp' = 0 /\ (pc' = "reply" \/ pc' = call.next)
  <1> DEFINE again == [NoCall EXCEPT !.error = "error", !.next = "free"]
  <1>1. \A c \in CallT : [c EXCEPT !.error = "error", !.next = "free"].size = c.size
    BY DEF CallT
  <1>2. NoCall \in CallT /\ NoCall.size = 0
    BY DEF NoCall, CallT
  <1>3. again.size = 0
    BY <1>1, <1>2
  <1>4. (call' = again \/ call' = NoCall) /\ tmp' = 0
    BY Zenon DEF Return
  <1>5. pc' = "reply" \/ pc' = call.next
    BY Zenon, ReturnCall
  <1> HIDE DEF again
  <1> QED BY <1>2, <1>3, <1>4, <1>5

\* Every step keeps the counts.
LEMMA CountNext == ListFits /\ CallOK /\ CallPart /\ CountPart /\ [Next]_vars => CountPart'
  <1> SUFFICES ASSUME ListFits, CallOK, CallPart, CountPart, [Next]_vars PROVE CountPart'
    OBVIOUS
  <1>0. /\ MaxErrors \in Nat /\ DataLen \in Nat /\ numErrors \in Nat /\ tmp \in Nat
        /\ call.size \in Nat
    BY LineAssumption DEF CallOK, CallT
  <1>1. CASE UNCHANGED vars
    BY <1>1 DEF vars, mainVars, CountPart
  <1>2. CASE Request \/ TxByte \/ LoseDown
    BY <1>2 DEF Request, TxByte, LoseDown, mainVars, CountPart
  <1>3. CASE RxByte
    <2>1. UNCHANGED <<call, tmp, pc>>
      BY <1>3 DEF RxByte, mainVars
    <2>2. UNCHANGED numErrors \/ AddError
      BY <1>3 DEF RxByte, Store, TakePacket
    <2>3. AddError => IF numErrors < MaxErrors * 2 THEN numErrors' = numErrors + 2
                      ELSE numErrors' = numErrors
      BY DEF AddError
    <2> QED BY <1>0, <2>1, <2>2, <2>3 DEF CountPart
  <1>4. CASE Handlers
    <2>1. NumSize \in 0 .. DataLen /\ TimeSize \in 0 .. DataLen /\ AppSize \in 0 .. DataLen
      BY LineAssumption
    <2>2. UNCHANGED numErrors /\ pc' \in {"reply", "free"}
      BY <1>4 DEF Handlers, HandleCounter, HandleSetting, HandleApp, Sees, Reply, Goto
    <2>3. call'.size <= DataLen
      <3>1. \A error, size, next : Reply(error, size, next) => call'.size = size
        BY DEF Reply
      <3> QED BY <1>0, <1>4, <2>1, <3>1 DEF Handlers, HandleCounter, HandleSetting, HandleApp, CountPart
    <2> QED BY <2>2, <2>3 DEF CountPart
  <1>5. CASE SendReply
    <2>1. numErrors' = numErrors
      BY <1>5 DEF SendReply
    <2>2. CASE Return
      BY <2>1, <2>2, <1>0, ReturnCounts, ReturnCall DEF CountPart, CallOK, CallT
    <2>3. CASE ~Return
      <3>1. pc' \in {"store", "build", "many"}
        BY <1>5, <2>3 DEF SendReply, Goto
      <3>2. \E x : call' = [call EXCEPT !.stored = x]
        BY <1>5, <2>3 DEF SendReply
      <3>3. call'.size = call.size
        BY <3>2 DEF CallOK, CallT
      <3> QED BY <2>1, <3>1, <3>3 DEF CountPart
    <2> QED BY <2>2, <2>3
  <1>6. CASE StoreError
    <2>1. call.stored \in {"build", "return", "many"}
      BY DEF CallOK, CallT
    <2> QED BY <1>6, <2>1, <1>0 DEF StoreError, Goto, CountPart
  <1>7. CASE StoreCode \/ ReadAgain
    BY <1>7, <1>0 DEF StoreCode, ReadAgain, Goto, CountPart
  <1>8. CASE StoreSeq
    <2>1. call.stored \in {"build", "return", "many"}
      BY DEF CallOK, CallT
    <2> QED BY <1>8, <2>1, <1>0 DEF StoreSeq, Goto, CountPart
  <1>9. CASE StoredReturn
    <2>1. numErrors' = numErrors /\ Return
      BY <1>9 DEF StoredReturn
    <2> QED BY <2>1, <1>0, ReturnCounts, ReturnCall DEF CountPart, CallOK, CallT
  <1>10. CASE ManyErrors
    <2>1. numErrors' = numErrors /\ tmp' = tmp /\ pc' \in {"clear", "build"}
      BY <1>10 DEF ManyErrors, Goto
    <2>2. /\ [call EXCEPT !.size = numErrors].size = numErrors
          /\ [call EXCEPT !.error = "many", !.size = 0].size = 0
      BY DEF CallOK, CallT
    <2>3. call'.size \in {numErrors, 0}
      BY <1>10, <2>2, Zenon DEF ManyErrors
    <2> QED BY <2>1, <2>3, <1>0 DEF CountPart, ListFits
  <1>11. CASE ClearErrors
    BY <1>11, <1>0 DEF ClearErrors, Goto, CountPart
  <1>12. CASE BuildReply
    BY <1>12, <1>0 DEF BuildReply, Goto, CountPart
  <1>13. CASE SerialWrite
    <2>1. numErrors' = numErrors /\ (Return \/ UNCHANGED <<pc, call, tmp>>)
      BY <1>13 DEF SerialWrite
    <2> QED BY <2>1, <1>0, ReturnCounts, ReturnCall DEF CountPart, CallOK, CallT
  <1>14. CASE HandleReset
    BY <1>14, <1>0 DEF HandleReset, NoCall, CountPart
  <1>15. CASE Forget \/ Ready
    BY <1>15, <1>0 DEF Forget, Ready, FreeUnchanged, Goto, CountPart
  <1> QED BY <1>1, <1>2, <1>3, <1>4, <1>5, <1>6, <1>7, <1>8, <1>9, <1>10, <1>11, <1>12, <1>13,
             <1>14, <1>15, NextIsStep DEF ReplySteps

-----------------------------------------------------------------------------
(* Runs of cells.                                                          *)

\* The first cell of a run, and what it leaves.
LEMMA RunHead ==
  ASSUME NEW q, NEW m \in Nat, NEW n \in Nat, IsRun(q, m, n), q # << >>
  PROVE  /\ Head(q) = [f |-> m, i |-> n + 1]
         /\ IsRun(Tail(q), m, n + 1) /\ Len(Tail(q)) = Len(q) - 1
         /\ Len(q) \in Nat /\ Len(q) >= 1
  <1>1. q \in Seq(Cell) /\ Len(q) \in Nat /\ \A k \in 1 .. Len(q) : q[k] = [f |-> m, i |-> n + k]
    BY DEF IsRun
  <1>2. /\ Head(q) = q[1] /\ Tail(q) \in Seq(Cell) /\ Len(Tail(q)) = Len(q) - 1
        /\ \A k \in 1 .. Len(Tail(q)) : Tail(q)[k] = q[k + 1]
    BY <1>1, HeadTailProperties
  <1>3. Len(q) >= 1
    BY <1>1, EmptySeq
  <1> DEFINE t == Tail(q)
             g == Len(q)
  <1>4. t \in Seq(Cell) /\ Len(t) = g - 1 /\ g \in Nat /\ \A k \in 1 .. Len(t) : t[k] = q[k + 1]
    BY <1>1, <1>2
  <1>5. \A k \in 1 .. g : q[k] = [f |-> m, i |-> n + k]
    BY <1>1
  <1> HIDE DEF t, g
  <1>6. ASSUME NEW k \in 1 .. Len(t) PROVE t[k] = [f |-> m, i |-> (n + 1) + k]
    <2>1. k + 1 \in 1 .. g /\ t[k] = q[k + 1] /\ n + (k + 1) = (n + 1) + k
      BY <1>4
    <2> QED BY <1>5, <2>1
  <1>7. IsRun(t, m, n + 1)
    BY <1>4, <1>6 DEF IsRun
  <1> QED BY <1>1, <1>2, <1>3, <1>7 DEF t

\* A run grows by its next cell.
LEMMA RunAppend ==
  ASSUME NEW q, NEW m \in Nat, IsRun(q, m, 0)
  PROVE  LET b == Append(q, [f |-> m, i |-> Len(q) + 1])
         IN  IsRun(b, m, 0) /\ Len(b) = Len(q) + 1
  <1> DEFINE g == Len(q)
             c == [f |-> m, i |-> g + 1]
             b == Append(q, c)
  <1>1. q \in Seq(Cell) /\ g \in Nat /\ \A k \in 1 .. g : q[k] = [f |-> m, i |-> 0 + k]
    BY DEF IsRun
  <1>2. c \in Cell
    BY <1>1 DEF Cell
  <1>3. /\ b \in Seq(Cell) /\ Len(b) = g + 1
        /\ \A k \in 1 .. g : b[k] = q[k]
        /\ b[g + 1] = c
    BY <1>1, <1>2, AppendProperties
  <1>4. c = [f |-> m, i |-> 0 + (g + 1)]
    BY <1>1
  <1> HIDE DEF g, c, b
  <1>5. ASSUME NEW k \in 1 .. Len(b) PROVE b[k] = [f |-> m, i |-> 0 + k]
    <2>1. k \in 1 .. g \/ k = g + 1
      BY <1>1, <1>3
    <2> QED BY <1>1, <1>3, <1>4, <2>1
  <1>6. IsRun(b, m, 0) /\ Len(b) = g + 1
    BY <1>3, <1>5 DEF IsRun
  <1> QED BY <1>6 DEF b, c, g

\* A packet is a run from its first cell on.
LEMMA RunCells ==
  ASSUME NEW m \in Nat, NEW size \in Nat
  PROVE  IsRun(Cells(m, size), m, 0) /\ Len(Cells(m, size)) = HeadLen + size
  <1> DEFINE n == HeadLen + size
             new == Cells(m, size)
  <1>1. n \in Nat
    BY LineAssumption
  <1>2. new \in [1 .. n -> Cell] /\ \A k \in 1 .. n : new[k] = [f |-> m, i |-> k]
    BY <1>1 DEF Cells, Cell
  <1>3. new \in Seq(Cell)
    BY <1>1, <1>2, SeqDef, Zenon
  <1>4. DOMAIN new = 1 .. n /\ DOMAIN new = 1 .. Len(new) /\ Len(new) \in Nat
    BY <1>2, <1>3, LenProperties
  <1>5. Len(new) = n
    BY <1>1, <1>4
  <1> HIDE DEF new
  <1> QED BY <1>1, <1>2, <1>3, <1>5 DEF IsRun, new

\* A run cut in two.
LEMMA RunCut ==
  ASSUME NEW q, NEW m \in Nat, NEW a \in Nat, IsRun(q, m, a), NEW n \in 0 .. Len(q)
  PROVE  /\ IsRun(SubSeq(q, 1, n), m, a) /\ Len(SubSeq(q, 1, n)) = n
         /\ IsRun(SubSeq(q, n + 1, Len(q)), m, a + n)
         /\ Len(SubSeq(q, n + 1, Len(q))) = Len(q) - n
  <1> DEFINE g == Len(q)
             s == SubSeq(q, 1, n)
             t == SubSeq(q, n + 1, g)
  <1>1. q \in Seq(Cell) /\ g \in Nat /\ n \in Nat /\ n <= g
        /\ \A k \in 1 .. g : q[k] = [f |-> m, i |-> a + k]
    BY DEF IsRun
  <1>2. \A k \in 1 .. g : q[k] \in Cell
    BY <1>1, ElementOfSeq
  <1>3. /\ s \in Seq(Cell)
        /\ Len(s) = IF 1 <= n THEN n - 1 + 1 ELSE 0
        /\ \A k \in 1 .. n - 1 + 1 : s[k] = q[1 + k - 1]
    <2>1. \A k \in 1 .. n : q[k] \in Cell
      BY <1>1, <1>2
    <2> QED BY <1>1, <2>1, SubSeqProperties
  <1>4. /\ t \in Seq(Cell)
        /\ Len(t) = IF n + 1 <= g THEN g - (n + 1) + 1 ELSE 0
        /\ \A k \in 1 .. g - (n + 1) + 1 : t[k] = q[n + 1 + k - 1]
    <2>1. \A k \in n + 1 .. g : q[k] \in Cell
      BY <1>1, <1>2
    <2> QED BY <1>1, <2>1, SubSeqProperties
  <1> HIDE DEF g, s, t
  <1>5. IsRun(s, m, a) /\ Len(s) = n
    <2>1. Len(s) = n
      BY <1>1, <1>3
    <2>2. ASSUME NEW k \in 1 .. Len(s) PROVE s[k] = [f |-> m, i |-> a + k]
      <3>1. k \in 1 .. g /\ s[k] = q[k]
        BY <1>1, <1>3, <2>1
      <3> QED BY <1>1, <3>1
    <2> QED BY <1>3, <2>1, <2>2 DEF IsRun
  <1>6. IsRun(t, m, a + n) /\ Len(t) = g - n
    <2>1. Len(t) = g - n
      BY <1>1, <1>4
    <2>2. ASSUME NEW k \in 1 .. Len(t) PROVE t[k] = [f |-> m, i |-> (a + n) + k]
      <3>1. n + k \in 1 .. g /\ t[k] = q[n + k] /\ a + (n + k) = (a + n) + k
        BY <1>1, <1>4, <2>1
      <3> QED BY <1>1, <3>1
    <2> QED BY <1>4, <2>1, <2>2 DEF IsRun
  <1> QED BY <1>5, <1>6 DEF s, t, g

\* No cells are a run of any packet.
LEMMA RunEmpty ==
  ASSUME NEW m, NEW n
  PROVE  IsRun(<< >>, m, n) /\ Len(<< >>) = 0 /\ \A q : IsRun(q, m, n) /\ Len(q) = 0 => q = << >>
  BY EmptySeq DEF IsRun

-----------------------------------------------------------------------------
(* The host's reception.                                                   *)

\* What a step that touches neither replies nor their way does.
LEMMA HearingStays ==
  ASSUME SizePart, HeardPart, UNCHANGED <<replies, got, hostRx, out, todo>>,
         ~Spoiled' => ~Spoiled
  PROVE  SizePart' /\ HeardPart'
  <1>1. SizePart'
    BY DEF SizePart
  <1>2. \A m : Hearing(m) => Hearing(m)'
    BY DEF Hearing, LastReply, LastButOne, IsRun, Full
  <1>3. HeardPart'
    BY <1>2 DEF HeardPart
  <1> QED BY <1>1, <1>3

\* The sizes of a reply that spoils nothing.
LEMMA HonestFull ==
  ASSUME AInv, SizePart, ~Spoiled, NEW m \in 1 .. Len(replies)
  PROVE  /\ replies[m] \in ReplyT /\ Full(m) \in HeadLen .. PacketLen
         /\ HeadLen + HostAnnounced(replies[m]) = Full(m)
         /\ \A b : (\A k \in 1 .. Full(m) : b[k] = [f |-> m, i |-> k]) =>
              replies[m].error # "none" \/ DataRight(replies[m], b, Full(m))
  <1> DEFINE p == replies[m]
  <1>1. p \in ReplyT
    BY DEF AInv, AnswerPart
  <1>2. Honest(p)
    BY DEF Spoiled
  <1>3. p.size <= DataLen /\ (p.error # "none" \/ p.quick => p.size = 0)
    BY DEF SizePart
  <1>4. HeadLen \in Nat /\ HeadLen >= 2 /\ DataLen \in Nat /\ p.size \in Nat
    BY <1>1, LineAssumption DEF ReplyT
  <1>5. Full(m) \in HeadLen .. PacketLen
    BY <1>3, <1>4 DEF Full, PacketLen
  <1>6. HostAnnounced(p) = p.size
    BY <1>1, <1>2, <1>3 DEF HostAnnounced, Announced, Honest, ReplyT
  <1>7. ASSUME NEW b, \A k \in 1 .. Full(m) : b[k] = [f |-> m, i |-> k],
               p.error = "none"
        PROVE  DataRight(p, b, Full(m))
    <2>1. 1 \in 1 .. Full(m)
      BY <1>4, <1>5
    <2>0. b[1] = [f |-> m, i |-> 1]
      BY <1>7, <2>1, Zenon
    <2>2. b[1].f = m
      BY <2>0
    <2>3. CASE p.quick
      BY <2>3, Zenon DEF DataRight
    <2>4. CASE ~p.quick
      <3>1. p.sum /\ p.claims = p.size
        BY <1>2, <2>4, Zenon DEF Honest
      <3>2. \A k \in 1 .. Full(m) : b[k] = [f |-> b[1].f, i |-> k]
        BY <1>7, <2>2
      <3> QED BY <3>1, <3>2, Zenon DEF DataRight
    <2> QED BY <2>3, <2>4
  <1> QED BY <1>1, <1>5, <1>6, <1>7 DEF Full

\* The host takes the next cell of the reply it is at.
LEMMA HostTakes ==
  ASSUME AInv, SizePart, ~Spoiled, NEW m \in 1 .. Len(replies),
         IsRun(hostRx, m, 0), Len(hostRx) < Full(m),
         HostDecode([f |-> m, i |-> Len(hostRx) + 1])
  PROVE  \/ /\ Len(hostRx) + 1 < Full(m) /\ got' = got
            /\ IsRun(hostRx', m, 0) /\ Len(hostRx') = Len(hostRx) + 1
         \/ /\ Len(hostRx) + 1 = Full(m) /\ got' = got \cup {m} /\ hostRx' = << >>
  <1> DEFINE g == Len(hostRx)
             c == [f |-> m, i |-> g + 1]
             b == Append(hostRx, c)
             p == replies[m]
  <1>1. IsRun(b, m, 0) /\ Len(b) = g + 1
    <2>1. m \in Nat
      OBVIOUS
    <2> QED BY <2>1, RunAppend
  <1>2. g \in Nat /\ hostRx \in Seq(Cell) /\ m \in Nat
    BY DEF IsRun
  <1>3. /\ p \in ReplyT /\ Full(m) \in HeadLen .. PacketLen
        /\ HeadLen + HostAnnounced(p) = Full(m)
    BY HonestFull
  <1>4. HeadLen \in Nat /\ HeadLen >= 2 /\ DataLen \in Nat /\ PacketLen \in Nat
    BY LineAssumption DEF PacketLen
  <1>5. \A k \in 1 .. g + 1 : b[k] = [f |-> m, i |-> k]
    <2> HIDE DEF b
    <2>1. \A k \in 1 .. Len(b) : b[k] = [f |-> m, i |-> 0 + k]
      BY <1>1 DEF IsRun
    <2> QED BY <1>1, <1>2, <2>1
  <1>6. hostRx = << >> => IsStart(replies[c.f], c)
    <2>1. hostRx = << >> => g = 0
      BY EmptySeq
    <2> QED BY <2>1 DEF IsStart
  <1>7. b[1].f = m
    <2>1. 1 \in 1 .. g + 1
      BY <1>2
    <2> HIDE DEF b
    <2>2. b[1] = [f |-> m, i |-> 1]
      BY <1>5, <2>1, Zenon
    <2> QED BY <2>2
  <1>8. g + 1 >= HeadLen => HeaderRight(b)
    <2> HIDE DEF b
    <2> QED BY <1>2, <1>4, <1>5, <1>7 DEF HeaderRight
  <1>9. g + 1 = Full(m) => p.error # "none" \/ DataRight(p, b, Full(m))
    <2> HIDE DEF b
    <2>1. g + 1 = Full(m) => \A k \in 1 .. Full(m) : b[k] = [f |-> m, i |-> k]
      BY <1>5
    <2> QED BY <2>1, HonestFull
  <1> DEFINE full == HeadLen + HostAnnounced(replies[b[1].f])
             complete == Len(b) = full /\ (replies[b[1].f].error # "none"
                                            \/ DataRight(replies[b[1].f], b, full))
  <1>10. /\ hostRx' = IF \/ Len(b) < HeadLen
                         \/ HeaderRight(b) /\ full <= PacketLen /\ Len(b) < full
                      THEN b ELSE << >>
         /\ IF Len(b) >= HeadLen /\ HeaderRight(b) /\ complete
            THEN got' = got \cup {b[1].f}
            ELSE got' = got
    BY <1>6, Zenon DEF HostDecode
  <1>11. full = Full(m) /\ (complete <=> g + 1 = Full(m))
    <2>1. replies[b[1].f] = p
      BY <1>7
    <2>2. full = Full(m)
      BY <1>3, <2>1
    <2> QED BY <1>1, <1>9, <2>1, <2>2
  <1> HIDE DEF full, complete, b, p
  <1>12. CASE g + 1 < Full(m)
    <2>1. hostRx' = b /\ got' = got
      BY <1>1, <1>2, <1>3, <1>4, <1>8, <1>10, <1>11, <1>12
    <2> QED BY <1>1, <1>12, <2>1
  <1>13. CASE ~(g + 1 < Full(m))
    <2>1. g + 1 = Full(m)
      BY <1>2, <1>3, <1>4, <1>13
    <2>2. hostRx' = << >> /\ got' = got \cup {m}
      BY <1>1, <1>2, <1>3, <1>4, <1>7, <1>8, <1>10, <1>11, <2>1
    <2> QED BY <2>1, <2>2
  <1> QED BY <1>12, <1>13

\* The transmit interrupt: the host hears the next byte.
LEMMA TxByteHears ==
  ASSUME AInv, SizePart, HeardPart, TxByte, ~Spoiled' => ~Spoiled
  PROVE  SizePart' /\ HeardPart'
  <1>1. /\ out # << >> /\ out' = Tail(out) /\ HostDecode(Head(out))
        /\ UNCHANGED <<replies, todo>>
    BY DEF TxByte, mainVars
  <1>2. SizePart'
    BY <1>1 DEF SizePart
  <1> SUFFICES ASSUME ~Spoiled' PROVE \E m \in 1 .. Len(replies) + 1 : Hearing(m)'
    BY <1>1, <1>2 DEF HeardPart
  <1>3. Len(replies) \in Nat
    BY DEF AInv, AnswerPart
  <1>4. PICK m \in 1 .. Len(replies) + 1 : Hearing(m)
    BY DEF HeardPart
  <1>5. /\ got = 1 .. m - 1
        /\ IsRun(hostRx, m, 0) /\ IsRun(out, m, Len(hostRx))
        /\ m >= 1 /\ Len(hostRx) < Full(m) /\ (LastReply(m) \/ LastButOne(m))
    BY <1>1, <1>4 DEF Hearing
  <1>6. m \in 1 .. Len(replies) /\ m \in Nat
    BY <1>3, <1>5 DEF LastReply, LastButOne
  <1>7. Len(hostRx) \in Nat
    BY <1>5 DEF IsRun
  <1>8. /\ Head(out) = [f |-> m, i |-> Len(hostRx) + 1]
        /\ IsRun(out', m, Len(hostRx) + 1) /\ Len(out') = Len(out) - 1
        /\ Len(out) \in Nat /\ Len(out) >= 1
    BY <1>1, <1>5, <1>6, <1>7, RunHead
  <1>9. Full(m)' = Full(m) /\ Full(m + 1)' = Full(m + 1)
    BY <1>1 DEF Full
  <1>10. Full(m) \in Nat
    BY <1>6, HonestFull, LineAssumption DEF PacketLen
  <1>11. CASE /\ Len(hostRx) + 1 < Full(m) /\ got' = got
              /\ IsRun(hostRx', m, 0) /\ Len(hostRx') = Len(hostRx) + 1
    <2>1. Len(hostRx') + Len(out') = Len(hostRx) + Len(out)
      BY <1>7, <1>8, <1>11
    <2>2. LastReply(m) => LastReply(m)'
      BY <1>1, <1>9, <2>1 DEF LastReply, IsRun
    <2>3. LastButOne(m) => LastButOne(m)'
      BY <1>1, <1>9, <2>1 DEF LastButOne, IsRun
    <2>4. IsRun(hostRx, m, 0)' /\ IsRun(out, m, Len(hostRx))'
      BY <1>8, <1>11 DEF IsRun
    <2>5. Hearing(m)'
      BY <1>5, <1>9, <1>11, <2>2, <2>3, <2>4 DEF Hearing
    <2> QED BY <2>5
  <1>12. CASE Len(hostRx) + 1 = Full(m) /\ got' = got \cup {m} /\ hostRx' = << >>
    <2>1. got' = 1 .. (m + 1) - 1
      BY <1>5, <1>6, <1>12
    <2>2. Len(hostRx') = 0 /\ (Len(out') = 0 => out' = << >>)
      BY <1>12, <1>8, RunEmpty
    <2>3. IsRun(hostRx, m + 1, 0)'
      BY <1>12, RunEmpty DEF IsRun
    <2>4. Len(out') = 0 => IsRun(out, m + 1, Len(hostRx))'
      BY <2>2, RunEmpty DEF IsRun
    <2>5. CASE LastReply(m)
      <3>1. Len(todo) \in Nat /\ IsRun(todo, m, Len(hostRx) + Len(out))
        BY <2>5 DEF LastReply, IsRun
      <3>2. Len(out') = 0 /\ Len(todo) = 0
        BY <1>7, <1>8, <1>12, <2>5, <3>1 DEF LastReply
      <3>3. todo' = << >>
        BY <1>1, <3>1, <3>2, RunEmpty
      <3>4. m + 1 = Len(replies') + 1
        BY <1>1, <2>5 DEF LastReply
      <3>5. Hearing(m + 1)'
        BY <1>12, <2>1, <2>2, <2>3, <2>4, <3>2, <3>3, <3>4 DEF Hearing
      <3> QED BY <1>3, <1>6, <3>5
    <2>6. CASE LastButOne(m)
      <3>1. Len(out') = 0
        BY <1>7, <1>8, <1>12, <2>6 DEF LastButOne
      <3>2. m + 1 \in 1 .. Len(replies) /\ Len(todo) = Full(m + 1) /\ IsRun(todo, m + 1, 0)
        BY <1>3, <1>6, <2>6 DEF LastButOne
      <3>3. Full(m + 1) \in Nat /\ Full(m + 1) >= 2
        BY <3>2, HonestFull, LineAssumption DEF PacketLen
      <3>4. Len(hostRx') + Len(out') = 0
        BY <2>2, <3>1
      <3>5. IsRun(todo', m + 1, Len(hostRx') + Len(out'))
        BY <1>1, <3>2, <3>4
      <3>6. Len(hostRx') + Len(out') + Len(todo') = Full(m + 1)'
        BY <1>1, <1>9, <3>2, <3>3, <3>4
      <3>7. LastReply(m + 1)'
        <4>1. m + 1 = Len(replies')
          BY <1>1, <2>6 DEF LastButOne
        <4> QED BY <3>5, <3>6, <4>1 DEF LastReply, IsRun
      <3>8. Len(hostRx') < Full(m + 1)'
        BY <1>9, <2>2, <3>3
      <3>9. Hearing(m + 1)'
        BY <1>6, <2>1, <2>3, <2>4, <3>1, <3>7, <3>8 DEF Hearing
      <3> QED BY <3>2, <3>9
    <2> QED BY <1>5, <2>5, <2>6
  <1> QED BY <1>1, <1>5, <1>6, <1>8, <1>11, <1>12, HostTakes

\* A reply is built.
LEMMA BuildHears ==
  ASSUME IInv, CallOK, AInv, CountPart, SizePart, HeardPart, BuildReply,
         pc # "write" => todo = << >>, ~Spoiled' => ~Spoiled
  PROVE  SizePart' /\ HeardPart'
  <1>1. PICK r \in ReplyT :
           /\ r.size <= DataLen
           /\ r.error # "none" \/ r.quick => r.size = 0
           /\ replies' = Append(replies, r)
           /\ todo' = Cells(Len(replies) + 1, r.size)
           /\ replies' \in Seq(ReplyT) /\ Len(replies') = Len(replies) + 1
           /\ \A k \in 1 .. Len(replies) : replies'[k] = replies[k]
           /\ replies'[Len(replies) + 1] = r
    BY BuildGrows
  <1>2. Len(replies) \in Nat /\ r.size \in Nat
    BY DEF AInv, AnswerPart, ReplyT
  <1>3. todo = << >> /\ UNCHANGED <<got, hostRx, out>>
    BY DEF BuildReply, ReplyUnchanged, MainUnchanged, hostVars
  <1>4. SizePart'
    <2> SUFFICES ASSUME NEW k \in 1 .. Len(replies')
                 PROVE  /\ replies'[k].size <= DataLen
                        /\ replies'[k].error # "none" \/ replies'[k].quick => replies'[k].size = 0
      BY DEF SizePart
    <2>1. CASE k \in 1 .. Len(replies)
      BY <1>1, <2>1 DEF SizePart
    <2>2. CASE k = Len(replies) + 1
      BY <1>1, <2>2
    <2> QED BY <1>1, <1>2, <2>1, <2>2
  <1> SUFFICES ASSUME ~Spoiled' PROVE \E m \in 1 .. Len(replies') + 1 : Hearing(m)'
    BY <1>4 DEF HeardPart
  <1>n. PICK n \in Nat : n = Len(replies)
    BY <1>2
  <1>5. PICK m \in 1 .. n + 1 : Hearing(m)
    BY <1>n DEF HeardPart
  <1>6. /\ IsRun(todo', n + 1, 0) /\ Len(todo') = HeadLen + r.size
        /\ Full(n + 1)' = HeadLen + r.size
    <2>1. Full(n + 1)' = HeadLen + r.size
      BY <1>1, <1>2, <1>n DEF Full
    <2>2. n + 1 \in Nat /\ todo' = Cells(n + 1, r.size)
      BY <1>1, <1>n
    <2>3. \A k, size \in Nat :
            IsRun(Cells(k, size), k, 0) /\ Len(Cells(k, size)) = HeadLen + size
      BY RunCells
    <2> QED BY <1>2, <2>1, <2>2, <2>3, Zenon
  <1>7. HeadLen \in Nat /\ HeadLen >= 2
    BY LineAssumption
  <1>8. CASE m = n + 1 /\ hostRx = << >> /\ out = << >>
    <2>1. Len(hostRx) = 0 /\ Len(out) = 0
      BY <1>8, EmptySeq
    <2>2. LastReply(m)'
      BY <1>1, <1>n, <1>2, <1>3, <1>6, <1>7, <1>8, <2>1 DEF LastReply, IsRun
    <2>3. Hearing(m)'
      BY <1>n, <1>2, <1>3, <1>5, <1>6, <1>7, <1>8, <2>1, <2>2 DEF Hearing, IsRun
    <2> QED BY <1>1, <1>2, <1>n, <2>3
  <1>9. CASE m >= 1 /\ Len(hostRx) < Full(m) /\ LastReply(m)
    <2>1. m = n /\ Len(hostRx) + Len(out) = Full(m)
      <3>1. Len(todo) = 0
        BY <1>3, EmptySeq
      <3>2. Len(hostRx) \in Nat /\ Len(out) \in Nat
        BY <1>5 DEF Hearing, IsRun
      <3> QED BY <1>n, <1>9, <3>1, <3>2 DEF LastReply
    <2>2. Full(m)' = Full(m)
      BY <1>1, <1>2, <1>9, <1>n, <2>1 DEF Full
    <2>3. LastButOne(m)'
      BY <1>1, <1>n, <1>2, <1>3, <1>6, <2>1, <2>2 DEF LastButOne, IsRun
    <2>4. Hearing(m)'
      BY <1>n, <1>3, <1>5, <1>9, <2>2, <2>3 DEF Hearing, IsRun
    <2> QED BY <1>1, <1>2, <1>n, <2>4
  <1>10. ~LastButOne(m) \/ m = n + 1
    <2> SUFFICES ASSUME LastButOne(m), m # n + 1 PROVE FALSE
      OBVIOUS
    <2>1. Len(todo) = 0
      BY <1>3, EmptySeq
    <2>2. m + 1 \in 1 .. n /\ Len(todo) = HeadLen + replies[m + 1].size
      BY <1>2, <1>n DEF LastButOne, Full
    <2>3. replies[m + 1].size \in Nat
      <3>1. replies \in Seq(ReplyT) /\ m + 1 \in 1 .. Len(replies)
        BY <1>n, <2>2 DEF AInv, AnswerPart
      <3>2. replies[m + 1] \in ReplyT
        BY <3>1, ElementOfSeq, Zenon
      <3> QED BY <3>2 DEF ReplyT
    <2> QED BY <1>7, <2>1, <2>2, <2>3
  <1> QED BY <1>5, <1>8, <1>9, <1>10, <1>2, <1>n DEF Hearing, LastReply, LastButOne

\* The next piece goes to the output buffer.
LEMMA WriteHears ==
  ASSUME AInv, SizePart, HeardPart, SerialWrite, ~Spoiled' => ~Spoiled
  PROVE  SizePart' /\ HeardPart'
  <1> DEFINE g == IF Len(todo) < OutSize THEN Len(todo) ELSE OutSize
  <1>1. /\ out = << >> /\ UNCHANGED <<replies, got, hostRx>>
        /\ out' = SubSeq(todo, 1, g)
        /\ todo' = SubSeq(todo, g + 1, Len(todo))
    BY DEF SerialWrite, UartFree, ReplyUnchanged, MainUnchanged, hostVars
  <1>2. SizePart'
    BY <1>1 DEF SizePart
  <1> SUFFICES ASSUME ~Spoiled' PROVE \E m \in 1 .. Len(replies) + 1 : Hearing(m)'
    BY <1>1, <1>2 DEF HeardPart
  <1>3. Len(replies) \in Nat /\ OutSize \in Nat
    BY LineAssumption DEF AInv, AnswerPart
  <1>4. PICK m \in 1 .. Len(replies) + 1 : Hearing(m)
    BY DEF HeardPart
  <1>5. Len(out) = 0
    BY <1>1, EmptySeq
  <1>6. IsRun(hostRx, m, 0) /\ Len(hostRx) \in Nat /\ got = 1 .. m - 1
    BY <1>4 DEF Hearing, IsRun
  <1>7. ASSUME IsRun(todo, m, Len(hostRx))
        PROVE  /\ IsRun(out', m, Len(hostRx')) /\ IsRun(hostRx', m, 0)
               /\ IsRun(todo', m, Len(hostRx') + Len(out'))
               /\ Len(out') + Len(todo') = Len(todo) /\ Len(out') \in Nat /\ Len(todo') \in Nat
    <2>1. Len(todo) \in Nat
      BY <1>7 DEF IsRun
    <2>2. g \in 0 .. Len(todo) /\ m \in Nat
      BY <1>3, <2>1
    <2> HIDE DEF g
    <2>3. /\ IsRun(out', m, Len(hostRx)) /\ Len(out') = g
          /\ IsRun(todo', m, Len(hostRx) + g) /\ Len(todo') = Len(todo) - g
      <3>1. \A q : IsRun(q, m, Len(hostRx)) =>
              \A k \in 0 .. Len(q) :
                /\ IsRun(SubSeq(q, 1, k), m, Len(hostRx)) /\ Len(SubSeq(q, 1, k)) = k
                /\ IsRun(SubSeq(q, k + 1, Len(q)), m, Len(hostRx) + k)
                /\ Len(SubSeq(q, k + 1, Len(q))) = Len(q) - k
        BY <1>6, <2>2, RunCut
      <3> QED BY <1>1, <1>7, <2>2, <3>1, Zenon
    <2>4. Len(hostRx') = Len(hostRx) /\ Len(hostRx') + Len(out') = Len(hostRx) + g
      BY <1>1, <2>3
    <2>5. Len(out') + Len(todo') = Len(todo) /\ Len(out') \in Nat /\ Len(todo') \in Nat
      BY <2>1, <2>2, <2>3
    <2> QED BY <1>1, <1>6, <2>3, <2>4, <2>5, Zenon
  <1>8. CASE m = Len(replies) + 1 /\ hostRx = << >> /\ todo = << >>
    <2>1. Len(hostRx) = 0 /\ Len(todo) = 0 /\ IsRun(todo, m, Len(hostRx))
      BY <1>8, RunEmpty
    <2>2. Len(out') = 0 /\ Len(todo') = 0
      BY <1>7, <2>1
    <2>3. out' = << >> /\ todo' = << >>
      BY <1>7, <2>1, <2>2, RunEmpty
    <2>4. Hearing(m)'
      BY <1>1, <1>6, <1>7, <1>8, <2>1, <2>3 DEF Hearing, IsRun
    <2> QED BY <2>4
  <1>9. CASE m >= 1 /\ Len(hostRx) < Full(m) /\ LastReply(m)
    <2>1. IsRun(todo, m, Len(hostRx)) /\ Len(todo) \in Nat /\ Len(hostRx) + Len(todo) = Full(m)
          /\ m = Len(replies)
      <3>1. Len(todo) \in Nat
        BY <1>9 DEF LastReply, IsRun
      <3>2. Len(hostRx) + Len(out) = Len(hostRx)
        BY <1>5, <1>6
      <3> QED BY <1>9, <3>1, <3>2 DEF LastReply
    <2>2. Full(m)' = Full(m)
      BY <1>1 DEF Full
    <2>3. Len(hostRx') + Len(out') + Len(todo') = Full(m)
      <3>1. Len(hostRx') = Len(hostRx)
        BY <1>1
      <3>2. Len(out') + Len(todo') = Len(todo) /\ Len(out') \in Nat /\ Len(todo') \in Nat
        BY <1>7, <2>1, Zenon
      <3> QED BY <1>6, <2>1, <3>1, <3>2
    <2>4. LastReply(m)'
      BY <1>1, <1>7, <2>1, <2>2, <2>3 DEF LastReply, IsRun
    <2>5. Hearing(m)'
      BY <1>1, <1>6, <1>7, <1>9, <2>1, <2>2, <2>4 DEF Hearing, IsRun
    <2> QED BY <2>5
  <1>10. CASE m >= 1 /\ Len(hostRx) < Full(m) /\ LastButOne(m)
    <2>1. Len(hostRx) + Len(out) = Full(m) /\ Len(hostRx) + Len(out) = Len(hostRx)
      BY <1>5, <1>6, <1>10 DEF LastButOne
    <2> QED BY <1>6, <1>10, <2>1
  <1> QED BY <1>4, <1>8, <1>9, <1>10 DEF Hearing

\* Nothing else touches the replies and their way to the host.
LEMMA OthersHear ==
  ASSUME Next, ~TxByte, ~BuildReply, ~SerialWrite, ~HandleReset
  PROVE  UNCHANGED <<replies, got, hostRx, out, todo>>
  <1>1. CASE Request \/ RxByte \/ LoseDown
    BY <1>1 DEF Request, RxByte, LoseDown, mainVars, hostVars
  <1>2. CASE Handlers
    BY <1>2 DEF Handlers, HandleCounter, HandleSetting, HandleApp, Sees, Reply, MainUnchanged, hostVars
  <1>3. CASE ReplySteps
    BY <1>3 DEF ReplySteps, SendReply, StoreError, StoreCode, ReadAgain, StoreSeq,
       StoredReturn, ManyErrors, ClearErrors, StoreUnchanged, ReplyUnchanged, MainUnchanged, hostVars
  <1>4. CASE Forget \/ Ready
    BY <1>4 DEF Forget, Ready, FreeUnchanged, MainUnchanged, hostVars
  <1> QED BY <1>1, <1>2, <1>3, <1>4, NextIsStep

\* The main loop has a piece left to copy only while it writes.
LEMMA TodoNext ==
  ASSUME [Next]_vars, pc # "write" => todo = << >>
  PROVE  pc' # "write" => todo' = << >>
  <1>1. CASE UNCHANGED vars
    BY <1>1 DEF vars, mainVars
  <1>2. CASE Request \/ TxByte \/ RxByte \/ LoseDown
    BY <1>2 DEF Request, TxByte, RxByte, LoseDown, mainVars
  <1>3. CASE BuildReply
    BY <1>3 DEF BuildReply, Goto
  <1>4. CASE SerialWrite
    BY <1>4 DEF SerialWrite
  <1>5. CASE HandleReset
    BY <1>5 DEF HandleReset
  <1>6. CASE Next /\ ~TxByte /\ ~BuildReply /\ ~SerialWrite /\ ~HandleReset /\ pc # "write"
    BY <1>6, OthersHear
  <1>7. ASSUME pc = "write", Handlers \/ ReplySteps \/ Forget \/ Ready PROVE SerialWrite
    BY <1>7 DEF Handlers, HandleCounter, HandleSetting, HandleApp, Sees, ReplySteps, SendReply,
       StoreError, StoreCode, ReadAgain, StoreSeq, StoredReturn, ManyErrors, ClearErrors,
       BuildReply, Forget, Ready
  <1> QED BY <1>1, <1>2, <1>3, <1>4, <1>5, <1>6, <1>7, NextIsStep

\* Every step keeps what is known of the replies.
LEMMA HearingNext ==
  ListFits /\ IInv /\ CallOK /\ AInv /\ RInv /\ [Next]_vars => RInv'
  <1> SUFFICES ASSUME ListFits, IInv, CallOK, AInv, RInv, [Next]_vars PROVE RInv'
    OBVIOUS
  <1>1. CountPart /\ SizePart /\ HeardPart /\ (pc # "write" => todo = << >>)
    BY DEF RInv
  <1>2. CountPart' /\ (pc' # "write" => todo' = << >>) /\ (~Spoiled' => ~Spoiled)
    BY <1>1, CountNext, TodoNext, SpoiledStays DEF AInv
  <1>3. SizePart' /\ HeardPart'
    <2>1. CASE UNCHANGED vars
      BY <1>1, <1>2, <2>1, HearingStays DEF vars, mainVars, hostVars
    <2>2. CASE TxByte
      BY <1>1, <1>2, <2>2, TxByteHears
    <2>3. CASE BuildReply
      BY <1>1, <1>2, <2>3, BuildHears
    <2>4. CASE SerialWrite
      BY <1>1, <1>2, <2>4, WriteHears
    <2>5. CASE HandleReset
      <3>1. Spoiled
        <4>1. packetOk # 0 /\ frames[bufs[packetOk][1].f].type \in {"RESET", "USER"}
          BY <2>5 DEF HandleReset
        <4>2. bufs[packetOk][1].f \in 1 .. Len(frames)
          BY <4>1, SeenIsHeld DEF IInv, HandedPart, HeldF
        <4> QED BY <4>1, <4>2 DEF Spoiled
      <3>2. SizePart'
        BY <1>1, <2>5 DEF HandleReset, SizePart
      <3> QED BY <1>2, <3>1, <3>2 DEF HeardPart
    <2>6. CASE Next /\ ~TxByte /\ ~BuildReply /\ ~SerialWrite /\ ~HandleReset
      BY <1>1, <1>2, <2>6, OthersHear, HearingStays
    <2> QED BY <2>1, <2>2, <2>3, <2>4, <2>5, <2>6
  <1> QED BY <1>2, <1>3 DEF RInv

\* At power on nothing is on the way.
LEMMA HearingInit == Init => RInv
  <1> SUFFICES ASSUME Init PROVE RInv
    OBVIOUS
  <1>1. /\ replies = << >> /\ hostRx = << >> /\ out = << >> /\ todo = << >> /\ got = {}
        /\ numErrors = 0 /\ tmp = 0 /\ call = NoCall /\ pc = "idle"
    BY DEF Init, Boot
  <1>2. CountPart
    BY <1>1, LineAssumption DEF CountPart, NoCall
  <1>3. Len(replies) = 0
    BY <1>1, EmptySeq
  <1>4. Hearing(1)
    BY <1>1, <1>3, RunEmpty DEF Hearing
  <1> QED BY <1>1, <1>2, <1>3, <1>4 DEF RInv, SizePart, HeardPart

\* When everything has left, the host is past the last reply.
LEMMA AllHeard == AInv /\ RInv => RepliesHeard
  <1> SUFFICES ASSUME AInv, RInv, out = << >>, todo = << >>, ~Spoiled
               PROVE  got = 1 .. Len(replies)
    BY DEF RepliesHeard
  <1>1. Len(replies) \in Nat
    BY DEF AInv, AnswerPart
  <1>2. PICK m \in 1 .. Len(replies) + 1 : Hearing(m)
    BY DEF RInv, HeardPart
  <1>3. Len(out) = 0 /\ Len(todo) = 0 /\ Len(hostRx) \in Nat
    BY <1>2, EmptySeq DEF Hearing, IsRun
  <1>4. CASE LastReply(m) /\ Len(hostRx) < Full(m)
    BY <1>3, <1>4 DEF LastReply
  <1>5. CASE LastButOne(m) /\ Len(hostRx) < Full(m)
    BY <1>3, <1>5 DEF LastButOne
  <1>6. CASE m = Len(replies) + 1
    BY <1>1, <1>2, <1>6 DEF Hearing
  <1> QED BY <1>2, <1>4, <1>5, <1>6 DEF Hearing

\* When the last byte of a reply has left, the host has decoded it and every
\* one before it, though serial_write cuts it in pieces and the next reply may
\* be built while the last piece is being sent.
THEOREM RepliesHeardAlways ==
  ASSUME ListFits
  PROVE  Spec => []RepliesHeard
  <1>1. IInv /\ CallOK /\ AInv /\ RInv /\ [Next]_vars => RInv'
    BY HearingNext
  <1> QED BY <1>1, AllHeard, HearingInit, HandOver, AnswersInit, AnswersNext, PTL DEF Spec

-----------------------------------------------------------------------------
(* What a lost byte costs.                                                 *)

\* The frames LossIsLocal speaks of.
Good(p) == Honest(p) /\ ~p.hash /\ p.type \notin {"RESET", "USER"}
AllGood == \A f \in 1 .. Len(frames) : Good(frames[f])

\* Frames fit in a packet, and losses are counted down.
FramePart ==
  /\ \A f \in 1 .. Len(frames) : /\ frames[f].size <= DataLen
                                 /\ frames[f].quick => frames[f].size = 0
  /\ losses \in 0 .. MaxLosses

\* The length of a frame, the cell sent after a cell, and the one that leaves
\* the line next.
Long(f) == HeadLen + frames[f].size
Succ(c) == IF c.i < Long(c.f) THEN [f |-> c.f, i |-> c.i + 1] ELSE First(c.f + 1)
NextCell == IF down = << >> THEN First(Len(frames) + 1) ELSE Head(down)

\* The line holds all that was sent from the next cell on.
DownPart ==
  \A k \in 1 .. Len(down) :
    /\ down[k].i \in 1 .. Long(down[k].f)
    /\ Succ(down[k]) = IF k = Len(down) THEN First(Len(frames) + 1) ELSE down[k + 1]

\* What the property promises of a frame that has left the line.
Okay(f) == f \in decoded \/ f \in hit \/ f - 1 \in hit

\* The decoder is between packets and n leaves the line next: all is well up
\* to n, and the frame of n is only skipped because of a loss.
Between(n) ==
  /\ \A f \in 1 .. n.f - 1 : Okay(f)
  /\ n.i > 1 => n.f \in hit \/ n.f - 1 \in hit

\* The decoder has rxPtr cells of a packet in b: either no cell of it is lost,
\* and it has them all, or as many cells have gone by since its start as it
\* has, and no more than the lost ones besides.
Ahead(g, n) == IF n.f = g THEN n.i - 1 ELSE Long(g) + n.i - 1
Whole(b, n) ==
  /\ n = [f |-> b[1].f, i |-> rxPtr + 1]
  /\ \A k \in 1 .. rxPtr : b[k] = [f |-> b[1].f, i |-> k]
Mixed(b, n) ==
  /\ n.f \in {b[1].f, b[1].f + 1}
  /\ Ahead(b[1].f, n) <= rxPtr + (MaxLosses - losses)
Inside(b, n) ==
  /\ b[1].i = 1 /\ rxPtr < Long(b[1].f)
  /\ \A f \in 1 .. b[1].f - 1 : Okay(f)
  /\ b[1].f \notin hit => Whole(b, n)
  /\ b[1].f \in hit => Mixed(b, n)

LossPart ==
  /\ DownPart
  /\ rxPtr = 0 => Between(NextCell)
  /\ rxPtr > 0 => Inside(bufs[rxPacket], NextCell)
LInv == FramePart /\ (AllGood => LossPart)

\* The line does not lose more than a header.
FewLosses == MaxLosses <= HeadLen

\* The numbers of a frame of the host.
LEMMA LongIs ==
  ASSUME IInv, FramePart, NEW f \in 1 .. Len(frames)
  PROVE  /\ frames[f] \in FrameT /\ f \in Nat
         /\ Long(f) \in Nat /\ Long(f) >= HeadLen /\ Long(f) <= PacketLen
         /\ HeadLen \in Nat /\ HeadLen >= 2 /\ PacketLen \in Nat /\ PacketLen > 0
  <1>1. frames \in Seq(FrameT)
    BY DEF IInv, ShapePart
  <1>2. frames[f] \in FrameT
    BY <1>1, ElementOfSeq
  <1>3. frames[f].size \in Nat /\ frames[f].size <= DataLen
    BY <1>2 DEF FrameT, FramePart
  <1> QED BY <1>2, <1>3, LineAssumption DEF Long, PacketLen

\* Where the line is.
LEMMA NextCellIs ==
  ASSUME IInv, FramePart, DownPart
  PROVE  /\ NextCell \in Cell /\ NextCell.f \in 1 .. Len(frames) + 1
         /\ Len(frames) \in Nat
         /\ down = << >> => NextCell = First(Len(frames) + 1)
         /\ down # << >> => /\ NextCell = Head(down)
                            /\ NextCell.f \in 1 .. Len(frames)
                            /\ NextCell.i \in 1 .. Long(NextCell.f)
  <1>1. down \in Seq(Cell) /\ Len(frames) \in Nat
    BY DEF IInv, ShapePart
  <1>2. CASE down = << >>
    BY <1>1, <1>2 DEF NextCell, First, Cell
  <1>3. CASE down # << >>
    <2>1. 1 \in 1 .. Len(down) /\ Head(down) = down[1]
      BY <1>1, <1>3, EmptySeq, HeadTailProperties
    <2>2. down[1] \in Cell
      BY <1>1, <2>1, ElementOfSeq
    <2>3. down[1].f \in 1 .. Len(frames) /\ down[1].i \in 1 .. Long(down[1].f)
      BY <2>1 DEF DownPart, IInv, ShapePart
    <2> QED BY <1>1, <1>3, <2>1, <2>2, <2>3 DEF NextCell
  <1> QED BY <1>2, <1>3

\* The next cell leaves the line.
LEMMA NextCellMoves ==
  ASSUME IInv, FramePart, DownPart, down # << >>, down' = Tail(down), UNCHANGED frames
  PROVE  NextCell' = Succ(NextCell) /\ DownPart'
  <1>1. down \in Seq(Cell) /\ Len(down) \in Nat /\ Shrinks(1)
    BY SuffixShrinks DEF IInv, ShapePart
  <1>2. /\ down' \in Seq(Cell) /\ Len(down') = Len(down) - 1
        /\ \A k \in 1 .. Len(down') : down'[k] = down[k + 1]
    BY <1>1 DEF Shrinks
  <1>3. \A c : Succ(c)' = Succ(c) /\ Long(c.f)' = Long(c.f)
    BY DEF Succ, Long
  <1>4. Len(down) >= 1 /\ NextCell = down[1]
    BY <1>1, EmptySeq, HeadTailProperties DEF NextCell
  <1>5. NextCell' = Succ(NextCell)
    <2>1. Succ(down[1]) = IF 1 = Len(down) THEN First(Len(frames) + 1) ELSE down[2]
      <3>1. 1 \in 1 .. Len(down) /\ 1 + 1 = 2
        BY <1>1, <1>4
      <3> QED BY <3>1 DEF DownPart
    <2>2. CASE Len(down) = 1
      <3>1. Len(down') = 0
        BY <1>2, <2>2
      <3>2. down' = << >>
        BY <1>2, <3>1, EmptySeq
      <3> QED BY <1>4, <2>1, <2>2, <3>2 DEF NextCell, First
    <2>3. CASE Len(down) # 1
      <3>1. Len(down') >= 1
        BY <1>1, <1>2, <1>4, <2>3
      <3>2. down'[1] = down[1 + 1]
        <4>1. 1 \in 1 .. Len(down')
          BY <1>1, <1>2, <3>1
        <4> QED BY <1>2, <4>1, Zenon
      <3>3. down' # << >> /\ Head(down') = down'[1]
        <4>1. down' # << >>
          BY <3>1, EmptySeq
        <4> QED BY <1>2, <4>1, HeadTailProperties
      <3> QED BY <1>4, <2>1, <2>3, <3>2, <3>3 DEF NextCell
    <2> QED BY <2>2, <2>3
  <1>6. DownPart'
    <2> SUFFICES ASSUME NEW k \in 1 .. Len(down')
                 PROVE  /\ down'[k].i \in 1 .. Long(down'[k].f)
                        /\ Succ(down'[k]) = IF k = Len(down') THEN First(Len(frames) + 1)
                                            ELSE down'[k + 1]
      BY <1>3 DEF DownPart, Succ, Long, First
    <2>1. k + 1 \in 1 .. Len(down) /\ down'[k] = down[k + 1] /\ (k + 1 = Len(down) <=> k = Len(down'))
      BY <1>1, <1>2
    <2>2. /\ down[k + 1].i \in 1 .. Long(down[k + 1].f)
          /\ Succ(down[k + 1]) = IF k + 1 = Len(down) THEN First(Len(frames) + 1)
                                 ELSE down[(k + 1) + 1]
      BY <2>1 DEF DownPart
    <2>3. ASSUME k # Len(down') PROVE down'[k + 1] = down[(k + 1) + 1]
      <3>1. k + 1 \in 1 .. Len(down')
        <4>0. Len(down') \in Nat
          BY <1>2, LenProperties, Zenon
        <4>1. PICK h \in Nat : h = Len(down')
          BY <4>0
        <4>2. k \in 1 .. h /\ k # h
          BY <2>3, <4>1
        <4> QED BY <4>1, <4>2
      <3> QED BY <1>2, <3>1, Zenon
    <2> QED BY <2>1, <2>2, <2>3
  <1> QED BY <1>5, <1>6

\* A frame is sent.
LEMMA NextCellStays ==
  ASSUME IInv, FramePart, DownPart, Grows
  PROVE  /\ NextCell' = NextCell /\ DownPart'
         /\ \A f \in 1 .. Len(frames) : Long(f)' = Long(f)
  <1>1. down \in Seq(Cell) /\ Len(down) \in Nat /\ Len(frames) \in Nat
    BY DEF IInv, ShapePart
  <1>2. PICK n \in Nat, l \in Nat, size \in Nat :
           n = Len(frames) /\ l = Len(down) /\ size = frames'[n + 1].size
    BY <1>1, LineAssumption DEF Grows
  <1>3. /\ Len(frames') = n + 1 /\ \A f \in 1 .. n : frames'[f] = frames[f]
        /\ down' \in Seq(Cell)
        /\ \A k \in 1 .. l : down'[k] = down[k]
        /\ \A k \in l + 1 .. Len(down') : down'[k] = [f |-> n + 1, i |-> k - l]
    BY <1>2 DEF Grows
  <1>4. Len(down') = l + HeadLen + size /\ HeadLen \in Nat /\ HeadLen >= 2
    BY <1>2, LineAssumption DEF Grows
  <1>5. \A f \in 1 .. n : Long(f)' = Long(f)
    BY <1>3 DEF Long
  <1>6. Long(n + 1)' = HeadLen + size
    BY <1>2 DEF Long
  <1>7. l + 1 \in 1 .. Len(down') /\ down'[l + 1] = First(n + 1)
    <2>1. l + 1 \in l + 1 .. Len(down') /\ (l + 1) - l = 1
      BY <1>4
    <2>2. down'[l + 1] = [f |-> n + 1, i |-> (l + 1) - l]
      BY <1>3, <2>1
    <2> QED BY <1>4, <2>1, <2>2 DEF First
  <1>8. NextCell' = NextCell
    <2>0. down' # << >> /\ Head(down') = down'[1]
      BY <1>3, <1>7, EmptySeq, HeadTailProperties
    <2>1. CASE down = << >>
      <3>1. l = 0
        BY <1>2, <2>1, EmptySeq
      <3>2. down'[1] = First(n + 1)
        BY <1>7, <3>1
      <3> QED BY <1>2, <2>0, <2>1, <3>2 DEF NextCell
    <2>2. CASE down # << >>
      <3>1. 1 \in 1 .. l /\ Head(down) = down[1]
        BY <1>1, <1>2, <2>2, EmptySeq, HeadTailProperties
      <3> QED BY <1>3, <2>0, <2>2, <3>1 DEF NextCell
    <2> QED BY <2>1, <2>2
  <1> DEFINE LN(f) == HeadLen + frames'[f].size
             SN(c) == IF c.i < LN(c.f) THEN [f |-> c.f, i |-> c.i + 1] ELSE First(c.f + 1)
  <1>10. LN(n + 1) = HeadLen + size /\ \A f \in 1 .. n : LN(f) = Long(f)
    BY <1>2, <1>3 DEF Long
  <1>9. DownPart'
    <2> SUFFICES ASSUME NEW k \in 1 .. Len(down')
                 PROVE  /\ down'[k].i \in 1 .. LN(down'[k].f)
                        /\ SN(down'[k]) = IF k = Len(down') THEN First(n + 2)
                                             ELSE down'[k + 1]
      <3>1. First(Len(frames) + 1)' = First(n + 2)
        <4>1. Len(frames') + 1 = n + 2
          BY <1>3
        <4> QED BY <4>1 DEF First
      <3> QED BY <3>1, Zenon DEF DownPart, Succ, Long, First
    <2>1. SN(down'[k]) = IF down'[k].i < LN(down'[k].f)
                            THEN [f |-> down'[k].f, i |-> down'[k].i + 1]
                            ELSE First(down'[k].f + 1)
      OBVIOUS
    <2>2. CASE k <= l
      <3>1. k \in 1 .. l /\ down'[k] = down[k] /\ k # Len(down') /\ k + 1 \in 1 .. Len(down')
        BY <1>3, <1>4, <2>2
      <3>2. down[k].f \in 1 .. n
        BY <1>2, <3>1 DEF IInv, ShapePart
      <3>3. /\ down[k].i \in 1 .. Long(down[k].f)
            /\ Succ(down[k]) = IF k = l THEN First(n + 1) ELSE down[k + 1]
        BY <1>2, <3>1 DEF DownPart
      <3>4. SN(down'[k]) = Succ(down[k])
        BY <1>10, <2>1, <3>1, <3>2 DEF Succ
      <3>5. k # l => down'[k + 1] = down[k + 1]
        <4>1. k # l => k + 1 \in 1 .. l
          BY <3>1
        <4> QED BY <1>3, <4>1
      <3> QED BY <1>10, <1>7, <3>1, <3>2, <3>3, <3>4, <3>5
    <2>3. CASE k > l
      <3>1. k \in l + 1 .. Len(down')
        BY <1>4, <2>3
      <3>2. down'[k].f = n + 1 /\ down'[k].i = k - l
        <4>1. down'[k] = [f |-> n + 1, i |-> k - l]
          BY <1>3, <3>1, Zenon
        <4> QED BY <4>1
      <3>3. k - l \in 1 .. HeadLen + size /\ (k = Len(down') <=> k - l = HeadLen + size)
        BY <1>4, <2>3
      <3>4. CASE k = Len(down')
        <4>1. SN(down'[k]) = First(n + 2)
          BY <1>10, <2>1, <3>2, <3>3, <3>4
        <4> QED BY <1>10, <3>2, <3>3, <3>4, <4>1
      <3>5. CASE k # Len(down')
        <4>1. SN(down'[k]) = [f |-> n + 1, i |-> (k + 1) - l]
          <5>1. k - l < HeadLen + size /\ (k - l) + 1 = (k + 1) - l
            BY <1>4, <3>3, <3>5
          <5> QED BY <1>10, <2>1, <3>2, <5>1
        <4>2. k + 1 \in l + 1 .. Len(down')
          BY <1>4, <3>1, <3>5
        <4>3. down'[k + 1] = [f |-> n + 1, i |-> (k + 1) - l]
          BY <1>3, <4>2
        <4> QED BY <1>10, <3>2, <3>3, <3>5, <4>1, <4>3
      <3> QED BY <3>4, <3>5
    <2> QED BY <1>2, <2>2, <2>3, <1>4
  <1> QED BY <1>2, <1>5, <1>8, <1>9

\* A step of the line from a frame into the next one.
LEMMA AheadMoves ==
  ASSUME IInv, FramePart, NEW g \in 1 .. Len(frames), NEW n \in Cell,
         n.f \in 1 .. Len(frames), n.f \in {g, g + 1}, n.i \in 1 .. Long(n.f)
  PROVE  /\ Succ(n) \in Cell /\ Ahead(g, n) \in Nat
         /\ \/ /\ Succ(n).f \in {g, g + 1}
               /\ Ahead(g, Succ(n)) = Ahead(g, n) + 1
            \/ /\ n.f = g + 1 /\ Succ(n) = First(g + 2)
               /\ Ahead(g, n) + 1 = Long(g) + Long(g + 1)
  <1>1. /\ Long(g) \in Nat /\ Long(n.f) \in Nat /\ g \in Nat /\ n.f \in Nat /\ n.i \in Nat
        /\ Long(g) >= 1
    BY LongIs DEF Cell
  <1>2. CASE n.i < Long(n.f)
    <2>1. Succ(n) = [f |-> n.f, i |-> n.i + 1]
      BY <1>2 DEF Succ
    <2>2. Succ(n).f = n.f /\ Succ(n).i = n.i + 1 /\ Succ(n) \in Cell
      BY <1>1, <2>1 DEF Cell
    <2>3. Succ(n).f \in {g, g + 1} /\ Ahead(g, Succ(n)) = Ahead(g, n) + 1
      <3>1. CASE n.f = g
        BY <1>1, <2>2, <3>1 DEF Ahead
      <3>2. CASE n.f = g + 1
        <4>1. Ahead(g, n) = Long(g) + n.i - 1
          BY <1>1, <3>2 DEF Ahead
        <4>2. Ahead(g, Succ(n)) = Long(g) + (n.i + 1) - 1
          BY <1>1, <2>2, <3>2 DEF Ahead
        <4> QED BY <1>1, <2>2, <3>2, <4>1, <4>2
      <3> QED BY <3>1, <3>2
    <2>4. Ahead(g, n) \in Nat
      BY <1>1 DEF Ahead
    <2> QED BY <2>2, <2>3, <2>4
  <1>3. CASE n.i = Long(n.f) /\ n.f = g
    <2>1. Succ(n) = [f |-> g + 1, i |-> 1]
      BY <1>1, <1>3 DEF Succ, First
    <2> QED BY <1>1, <1>3, <2>1 DEF Ahead, Cell
  <1>4. CASE n.i = Long(n.f) /\ n.f = g + 1
    <2>1. Succ(n) = First(g + 2) /\ First(g + 2) \in Cell
      BY <1>1, <1>4 DEF Succ, First, Cell
    <2> QED BY <1>1, <1>4, <2>1 DEF Ahead
  <1> QED BY <1>1, <1>2, <1>3, <1>4

\* The step of a cell of any frame.
LEMMA SuccIs ==
  ASSUME IInv, FramePart, NEW n \in Cell, n.f \in 1 .. Len(frames), n.i \in 1 .. Long(n.f)
  PROVE  /\ Succ(n) \in Cell
         /\ \/ Succ(n) = [f |-> n.f, i |-> n.i + 1] /\ n.i < Long(n.f)
            \/ Succ(n) = First(n.f + 1) /\ n.i = Long(n.f)
  <1>1. Long(n.f) \in Nat /\ n.f \in Nat /\ n.i \in Nat
    BY LongIs DEF Cell
  <1> QED BY <1>1 DEF Succ, First, Cell

\* A packet that a loss has spoilt ends: the decoder is between packets again,
\* at most one frame further.
LEMMA Ends ==
  ASSUME NEW g \in Nat, NEW n \in Cell,
         \A f \in 1 .. g - 1 : Okay(f)', g \in hit',
         n.f \in {g, g + 1} \/ n = First(g + 2)
  PROVE  Between(n)'
  <1>1. CASE n = First(g + 2)
    <2>1. n.f = g + 2 /\ n.i = 1
      BY <1>1 DEF First
    <2>2. \A f \in 1 .. n.f - 1 : f \in 1 .. g - 1 \/ f = g \/ f - 1 = g
      BY <2>1
    <2> QED BY <2>1, <2>2 DEF Between, Okay
  <1>2. CASE n.f \in {g, g + 1}
    <2>1. \A f \in 1 .. n.f - 1 : f \in 1 .. g - 1 \/ f = g
      BY <1>2
    <2>2. n.f \in hit' \/ n.f - 1 \in hit'
      BY <1>2
    <2> QED BY <2>1, <2>2 DEF Between, Okay
  <1> QED BY <1>1, <1>2

\* What is known of a state, from its next cell and its buffer.
LEMMA LossParts ==
  ASSUME NEW m, NEW b, NextCell' = m, DownPart',
         rxPtr' = 0 => Between(m)',
         rxPtr' > 0 => bufs'[rxPacket'] = b /\ Inside(b, m)'
  PROVE  LossPart'
  <1>1. rxPtr' = 0 => Between(NextCell)'
    BY DEF Between, Okay
  <1>2. rxPtr' > 0 => Inside(bufs[rxPacket], NextCell)'
    BY DEF Inside, Whole, Mixed, Ahead, Long, Okay
  <1> QED BY <1>1, <1>2 DEF LossPart

\* Marks stay.
LEMMA MarksStay ==
  ASSUME decoded \subseteq decoded', hit \subseteq hit'
  PROVE  \A f : Okay(f) => Okay(f)'
  BY DEF Okay

\* The receive interrupt, when every frame is good: a cell is skipped, starts
\* a packet or is stored in one.
LEMMA RxByteIs ==
  ASSUME IInv, FramePart, AllGood, LossPart, RxByte
  PROVE  /\ down # << >> /\ down' = Tail(down) /\ UNCHANGED <<frames, hit, losses>>
         /\ \/ rxPtr = 0 /\ Head(down).i # 1 /\ UNCHANGED rxVars
            \/ rxPtr = 0 /\ Head(down).i = 1 /\ Store(Head(down))
            \/ rxPtr > 0 /\ Store(Head(down))
  <1>1. down # << >> /\ down' = Tail(down) /\ UNCHANGED <<frames, hit, losses>>
    BY DEF RxByte, hostVars, lineVars
  <1> DEFINE c == Head(down)
  <1>2. NextCell = c /\ c.f \in 1 .. Len(frames) /\ c.i \in 1 .. Long(c.f)
    BY <1>1, NextCellIs DEF LossPart
  <1>3. IsStart(frames[c.f], c) <=> c.i = 1
    BY <1>2, Zenon DEF AllGood, Good, IsStart
  <1>4. rxPtr \in Nat /\ ~Overrun
    <2>1. rxPtr \in 0 .. PacketLen /\ PacketLen \in Nat /\ PacketLen > 0
      BY <1>2, LongIs DEF IInv, ShapePart
    <2>2. CASE rxPtr = 0
      BY <2>1, <2>2 DEF Overrun
    <2>3. CASE rxPtr > 0
      <3>1. bufs[rxPacket][1].f \in 1 .. Len(frames)
        BY <2>3 DEF IInv, DecoderPart
      <3>2. rxPtr < Long(bufs[rxPacket][1].f)
        BY <2>3 DEF LossPart, Inside
      <3>3. Long(bufs[rxPacket][1].f) <= PacketLen /\ Long(bufs[rxPacket][1].f) \in Nat
        BY <3>1, LongIs
      <3> QED BY <2>1, <3>2, <3>3 DEF Overrun
    <2> QED BY <2>1, <2>2, <2>3
  <1> HIDE DEF c
  <1>5. \/ rxPtr = 0 /\ ~IsStart(frames[c.f], c) /\ UNCHANGED rxVars
        \/ (rxPtr # 0 \/ IsStart(frames[c.f], c)) /\ Store(c)
    BY <1>4, Zenon DEF RxByte, c
  <1> QED BY <1>1, <1>3, <1>4, <1>5 DEF c

\* What storing a cell in a packet does.
Stored(n) == [bufs[rxPacket] EXCEPT ![rxPtr + 1] = n]
LEMMA StoreIs ==
  ASSUME IInv, FramePart, AllGood, LossPart, rxPtr > 0, NEW n \in Cell, Store(n),
         NEW b, b = Stored(n),
         NEW g, g = bufs[rxPacket][1].f
  PROVE  /\ b[1] = bufs[rxPacket][1] /\ b[rxPtr + 1] = n
         /\ \A k \in 1 .. rxPtr : b[k] = bufs[rxPacket][k]
         /\ \/ rxPtr' = 0 /\ decoded' = decoded /\ ~HeaderRight(b) /\ rxPtr + 1 = HeadLen
            \/ /\ rxPtr' = rxPtr + 1 /\ rxPtr + 1 < Long(g)
               /\ bufs'[rxPacket'] = b /\ decoded' = decoded
            \/ /\ rxPtr' = 0 /\ rxPtr + 1 = Long(g) /\ decoded \subseteq decoded'
               /\ DataRight(frames[g], b, Long(g)) => g \in decoded'
  <1>1. /\ g \in 1 .. Len(frames) /\ rxPtr \in Nat /\ rxPtr < Long(g)
        /\ rxPacket \in 1 .. 2 /\ bufs \in [1 .. 2 -> [1 .. PacketLen -> Cell]]
    BY DEF IInv, DecoderPart, ShapePart, LossPart, Inside
  <1>2. /\ frames[g] \in FrameT /\ Long(g) \in Nat /\ Long(g) >= HeadLen /\ Long(g) <= PacketLen
        /\ HeadLen \in Nat /\ HeadLen >= 2 /\ PacketLen \in Nat
    BY <1>1, LongIs
  <1>3. HeadLen + Announced(frames[g]) = Long(g)
    <2>1. Honest(frames[g]) /\ (frames[g].quick => frames[g].size = 0)
      BY <1>1 DEF AllGood, Good, FramePart
    <2>2. CASE frames[g].quick
      BY <2>1, <2>2 DEF Announced, Long
    <2>3. CASE ~frames[g].quick
      <3>1. frames[g].claims = frames[g].size
        BY <2>1, <2>3, Zenon DEF Honest
      <3> QED BY <2>3, <3>1 DEF Announced, Long
    <2> QED BY <2>2, <2>3
  <1>4. /\ rxPtr + 1 \in 1 .. PacketLen /\ 1 # rxPtr + 1 /\ 1 \in 1 .. PacketLen
        /\ \A k \in 1 .. rxPtr : k \in 1 .. PacketLen /\ k # rxPtr + 1
    BY <1>1, <1>2
  <1>5. /\ b[1] = bufs[rxPacket][1] /\ b[rxPtr + 1] = n
        /\ \A k \in 1 .. rxPtr : b[k] = bufs[rxPacket][k]
    <2>1. bufs[rxPacket] \in [1 .. PacketLen -> Cell]
      BY <1>1
    <2>2. \A k \in 1 .. PacketLen : b[k] = IF k = rxPtr + 1 THEN n ELSE bufs[rxPacket][k]
      BY <2>1 DEF Stored
    <2> QED BY <1>4, <2>2
  <1>6. /\ rxPtr + 1 < HeadLen => FullSize(b) = 0
        /\ rxPtr + 1 >= HeadLen => FullSize(b) = Long(g)
    <2>1. FullSize(b) = IF rxPtr + 1 = HeadLen THEN Long(g) ELSE fullSize
      BY <1>3, <1>5 DEF FullSize
    <2>2. rxPtr < HeadLen => fullSize = 0
      BY DEF IInv, DecoderPart
    <2>3. rxPtr >= HeadLen => fullSize = Long(g)
      BY <1>3 DEF IInv, DecoderPart
    <2> QED BY <1>1, <1>2, <2>1, <2>2, <2>3
  <1>7. bufs' = [bufs EXCEPT ![rxPacket] = b]
    BY Zenon DEF Store, Stored
  <1>8. bufs'[rxPacket] = b
    BY <1>1, <1>7
  <1>9. CASE rxPtr + 1 = HeadLen /\ ~HeaderRight(b)
    <2>1. WrongHeader /\ UNCHANGED Handed
      BY <1>9, Zenon DEF Store, Stored
    <2> QED BY <1>5, <1>9, <2>1 DEF WrongHeader, NextPacket, Handed
  <1>10. CASE ~(rxPtr + 1 = HeadLen /\ ~HeaderRight(b)) /\ rxPtr + 1 # FullSize(b)
    <2>1. rxPtr' = rxPtr + 1 /\ UNCHANGED Handed
      BY <1>10, Zenon DEF Store, Stored
    <2>2. rxPtr + 1 < Long(g)
      BY <1>1, <1>2, <1>6, <1>10
    <2> QED BY <1>5, <1>8, <2>1, <2>2 DEF Handed
  <1>11. CASE ~(rxPtr + 1 = HeadLen /\ ~HeaderRight(b)) /\ rxPtr + 1 = FullSize(b)
    <2>1. rxPtr + 1 = Long(g)
      BY <1>1, <1>2, <1>6, <1>11
    <2>2. /\ NextPacket
          /\ IF DataRight(frames[b[1].f], b, rxPtr + 1) THEN TakePacket(b[1].f)
             ELSE AddError /\ UNCHANGED Handed
      BY <1>11, Zenon DEF Store, Stored
    <2>3. b[1].f = g
      BY <1>5
    <2>4. IF DataRight(frames[g], b, Long(g)) THEN decoded' = decoded \cup {g}
          ELSE decoded' = decoded
      BY <2>1, <2>2, <2>3 DEF TakePacket, Handed
    <2> QED BY <1>5, <2>1, <2>2, <2>4 DEF NextPacket
  <1> QED BY <1>5, <1>9, <1>10, <1>11

\* The first cell of a packet.
LEMMA StartLoses ==
  ASSUME IInv, FramePart, AllGood, LossPart, rxPtr = 0, NEW n \in Cell, n = NextCell,
         n.f \in 1 .. Len(frames), n.i = 1, Store(n),
         UNCHANGED <<frames, hit, losses>>, NextCell' = Succ(n), DownPart'
  PROVE  LossPart'
  <1>1. /\ rxPacket \in 1 .. 2 /\ bufs \in [1 .. 2 -> [1 .. PacketLen -> Cell]]
        /\ Long(n.f) \in Nat /\ Long(n.f) >= HeadLen /\ n.f \in Nat
        /\ HeadLen \in Nat /\ HeadLen >= 2 /\ PacketLen \in Nat /\ PacketLen > 0
    BY LongIs DEF IInv, ShapePart
  <1>2. PICK b : b = [bufs[rxPacket] EXCEPT ![rxPtr + 1] = n]
    OBVIOUS
  <1>3. b[1] = n
    <2>1. bufs[rxPacket] \in [1 .. PacketLen -> Cell] /\ 1 \in 1 .. PacketLen /\ rxPtr + 1 = 1
      BY <1>1
    <2> QED BY <1>2, <2>1
  <1>4. fullSize = 0 /\ rxPtr + 1 # HeadLen
    BY <1>1 DEF IInv, DecoderPart
  <1>5. FullSize(b) = 0
    BY <1>4, Zenon DEF FullSize
  <1>6. rxPtr + 1 # FullSize(b)
    BY <1>5
  <1>7. bufs' = [bufs EXCEPT ![rxPacket] = b] /\ rxPtr' = rxPtr + 1 /\ UNCHANGED Handed
    BY <1>2, <1>4, <1>6, Zenon DEF Store
  <1>8. bufs'[rxPacket'] = b /\ rxPtr' = 1 /\ decoded' = decoded
    BY <1>1, <1>7 DEF Handed
  <1>9. Succ(n) = [f |-> n.f, i |-> 2]
    BY <1>1 DEF Succ
  <1>10. \A f \in 1 .. n.f - 1 : Okay(f)'
    <2>1. Between(n)
      BY DEF LossPart
    <2> QED BY <1>8, <2>1, MarksStay DEF Between
  <1>11. Long(n.f)' = Long(n.f)
    BY DEF Long
  <1>12. PICK m : m = Succ(n)
    OBVIOUS
  <1>13. Whole(b, m)'
    <2>1. \A k \in 1 .. 1 : b[k] = [f |-> n.f, i |-> k]
      <3>1. n = [f |-> n.f, i |-> 1]
        BY DEF Cell
      <3> QED BY <1>3, <3>1
    <2> QED BY <1>3, <1>8, <1>9, <1>12, <2>1 DEF Whole
  <1>14. Mixed(b, m)'
    <2>1. losses' \in 0 .. MaxLosses /\ MaxLosses \in Nat
      BY LineAssumption DEF FramePart
    <2>2. m.f = n.f /\ m.i = 2
      BY <1>9, <1>12
    <2> QED BY <1>3, <1>8, <2>1, <2>2 DEF Mixed, Ahead
  <1>15. Inside(b, m)'
    BY <1>1, <1>3, <1>8, <1>10, <1>11, <1>13, <1>14 DEF Inside
  <1> QED BY <1>8, <1>12, <1>15, LossParts

\* The next cell of a packet.
LEMMA StoreLoses ==
  ASSUME IInv, FramePart, AllGood, LossPart, FewLosses, rxPtr > 0, NEW n \in Cell, n = NextCell,
         n.f \in 1 .. Len(frames), n.i \in 1 .. Long(n.f), Store(n),
         UNCHANGED <<frames, hit, losses>>, NextCell' = Succ(n), DownPart'
  PROVE  LossPart'
  <1>1. PICK b, g, m : /\ b = Stored(n)
                       /\ g = bufs[rxPacket][1].f
                       /\ m = Succ(n)
    OBVIOUS
  <1>2. /\ g \in 1 .. Len(frames) /\ g \in Nat /\ rxPtr \in Nat /\ rxPtr < Long(g)
        /\ Inside(bufs[rxPacket], n)
    BY <1>1, LongIs DEF IInv, DecoderPart, ShapePart, LossPart, Inside
  <1>3. /\ b[1] = bufs[rxPacket][1] /\ b[rxPtr + 1] = n
        /\ \A k \in 1 .. rxPtr : b[k] = bufs[rxPacket][k]
        /\ \/ rxPtr' = 0 /\ decoded' = decoded /\ ~HeaderRight(b) /\ rxPtr + 1 = HeadLen
           \/ /\ rxPtr' = rxPtr + 1 /\ rxPtr + 1 < Long(g)
              /\ bufs'[rxPacket'] = b /\ decoded' = decoded
           \/ /\ rxPtr' = 0 /\ rxPtr + 1 = Long(g) /\ decoded \subseteq decoded'
              /\ DataRight(frames[g], b, Long(g)) => g \in decoded'
    BY <1>1, StoreIs
  <1>4. /\ Long(g) \in Nat /\ Long(g) >= HeadLen /\ HeadLen \in Nat /\ HeadLen >= 2
        /\ losses \in 0 .. MaxLosses /\ MaxLosses \in Nat /\ MaxLosses <= HeadLen
    BY <1>2, LongIs, LineAssumption DEF FramePart, FewLosses
  <1>5. b[1].f = g /\ b[1].i = 1
    BY <1>1, <1>2, <1>3 DEF Inside
  <1>6. \A f \in 1 .. g - 1 : Okay(f)'
    BY <1>1, <1>2, <1>3, MarksStay DEF Inside
  <1>7. Long(g)' = Long(g) /\ m \in Cell
    BY <1>1, SuccIs DEF Long
  <1>8. CASE g \notin hit
    <2>1. n = [f |-> g, i |-> rxPtr + 1] /\ \A k \in 1 .. rxPtr : b[k] = [f |-> g, i |-> k]
      BY <1>1, <1>2, <1>3, <1>8 DEF Inside, Whole
    <2>2. \A k \in 1 .. rxPtr + 1 : b[k] = [f |-> b[1].f, i |-> k]
      <3>1. \A k \in 1 .. rxPtr + 1 : k \in 1 .. rxPtr \/ k = rxPtr + 1
        BY <1>2
      <3> QED BY <1>3, <1>5, <2>1, <3>1
    <2>3. n.f = g /\ n.i = rxPtr + 1
      BY <2>1
    <2>4. CASE rxPtr' = 0 /\ ~HeaderRight(b) /\ rxPtr + 1 = HeadLen
      BY <2>2, <2>4 DEF HeaderRight
    <2>5. CASE rxPtr' = rxPtr + 1 /\ rxPtr + 1 < Long(g) /\ bufs'[rxPacket'] = b
      <3>1. m = [f |-> g, i |-> (rxPtr + 1) + 1]
        BY <1>1, <2>3, <2>5 DEF Succ
      <3>2. Whole(b, m)'
        BY <1>5, <2>2, <2>5, <3>1 DEF Whole
      <3>3. Inside(b, m)'
        BY <1>5, <1>6, <1>7, <1>8, <2>5, <3>2 DEF Inside
      <3> QED BY <1>1, <1>2, <2>5, <3>3, LossParts
    <2>6. CASE /\ rxPtr' = 0 /\ rxPtr + 1 = Long(g)
               /\ DataRight(frames[g], b, Long(g)) => g \in decoded'
      <3>1. DataRight(frames[g], b, Long(g))
        <4>1. Honest(frames[g])
          BY <1>2 DEF AllGood, Good
        <4> QED BY <2>2, <2>6, <4>1, Zenon DEF Honest, DataRight
      <3>2. m = First(g + 1)
        BY <1>1, <1>2, <2>3, <2>6 DEF Succ
      <3>3. m.f = g + 1 /\ m.i = 1
        BY <3>2 DEF First
      <3>4. \A f \in 1 .. (g + 1) - 1 : f \in 1 .. g - 1 \/ f = g
        BY <1>2
      <3>5. Okay(g)'
        BY <2>6, <3>1 DEF Okay
      <3>6. Between(m)'
        BY <1>6, <3>3, <3>4, <3>5 DEF Between
      <3> QED BY <1>1, <2>6, <3>6, LossParts
    <2> QED BY <1>3, <2>4, <2>5, <2>6
  <1>9. CASE g \in hit
    <2>1. n.f \in {g, g + 1} /\ Ahead(g, n) <= rxPtr + (MaxLosses - losses)
      BY <1>1, <1>2, <1>9 DEF Inside, Mixed
    <2>2. /\ Ahead(g, n) \in Nat
          /\ \/ m.f \in {g, g + 1} /\ Ahead(g, m) = Ahead(g, n) + 1
             \/ n.f = g + 1 /\ m = First(g + 2) /\ Ahead(g, n) + 1 = Long(g) + Long(g + 1)
      BY <1>1, <1>2, <2>1, AheadMoves
    <2>3. CASE rxPtr' = 0
      <3>1. Between(m)'
        BY <1>2, <1>6, <1>7, <1>9, <2>2, Ends
      <3> QED BY <1>1, <2>3, <3>1, LossParts
    <2>4. CASE rxPtr' = rxPtr + 1 /\ rxPtr + 1 < Long(g) /\ bufs'[rxPacket'] = b
      <3>1. n.f = g + 1 => Long(g + 1) \in Nat /\ Long(g + 1) >= HeadLen
        BY LongIs
      <3>2. m.f \in {g, g + 1} /\ Ahead(g, m) = Ahead(g, n) + 1
        BY <1>2, <1>4, <2>1, <2>2, <2>4, <3>1
      <3>3. Ahead(g, m)' = Ahead(g, m)
        BY <1>7 DEF Ahead
      <3>4. Mixed(b, m)'
        BY <1>2, <1>4, <1>5, <2>1, <2>2, <2>4, <3>2, <3>3 DEF Mixed
      <3>5. Inside(b, m)'
        BY <1>5, <1>6, <1>7, <1>9, <2>4, <3>4 DEF Inside
      <3> QED BY <1>1, <1>2, <2>4, <3>5, LossParts
    <2> QED BY <1>3, <2>3, <2>4
  <1> QED BY <1>8, <1>9

\* The receive interrupt keeps what a loss may cost.
LEMMA RxByteLoses ==
  ASSUME IInv, FramePart, AllGood, LossPart, FewLosses, RxByte
  PROVE  LossPart'
  <1>1. /\ down # << >> /\ down' = Tail(down) /\ UNCHANGED <<frames, hit, losses>>
        /\ \/ rxPtr = 0 /\ Head(down).i # 1 /\ UNCHANGED rxVars
           \/ rxPtr = 0 /\ Head(down).i = 1 /\ Store(Head(down))
           \/ rxPtr > 0 /\ Store(Head(down))
    BY RxByteIs
  <1>2. PICK n \in Cell : /\ n = NextCell /\ n = Head(down)
                          /\ n.f \in 1 .. Len(frames) /\ n.i \in 1 .. Long(n.f)
    BY <1>1, NextCellIs DEF LossPart
  <1>3. NextCell' = Succ(n) /\ DownPart'
    BY <1>1, <1>2, NextCellMoves DEF LossPart
  <1>4. CASE rxPtr = 0 /\ n.i # 1 /\ UNCHANGED rxVars
    <2>1. rxPtr' = 0 /\ decoded' = decoded /\ hit' = hit
      BY <1>1, <1>4 DEF rxVars
    <2>2. Between(n) /\ n.i > 1 /\ n.f \in Nat
      BY <1>2, <1>4, LongIs DEF LossPart
    <2>3. n.f \in hit \/ n.f - 1 \in hit
      BY <2>2 DEF Between
    <2>4. \A f \in 1 .. n.f - 1 : Okay(f)'
      BY <2>1, <2>2, MarksStay DEF Between
    <2>5. PICK m \in Cell : m = Succ(n)
      BY <1>2, SuccIs
    <2>6. Between(m)'
      <3>1. CASE m = [f |-> n.f, i |-> n.i + 1]
        BY <2>1, <2>3, <2>4, <3>1 DEF Between
      <3>2. CASE m = First(n.f + 1)
        <4>1. m.f = n.f + 1 /\ m.i = 1
          BY <3>2 DEF First
        <4>2. Okay(n.f)'
          BY <2>1, <2>3 DEF Okay
        <4>3. \A f \in 1 .. (n.f + 1) - 1 : f \in 1 .. n.f - 1 \/ f = n.f
          BY <2>2
        <4> QED BY <2>4, <4>1, <4>2, <4>3 DEF Between
      <3> QED BY <1>2, <2>5, <3>1, <3>2, SuccIs
    <2> QED BY <1>3, <2>1, <2>5, <2>6, LossParts
  <1>5. CASE rxPtr = 0 /\ n.i = 1 /\ Store(n)
    BY <1>1, <1>2, <1>3, <1>5, StartLoses
  <1>6. CASE rxPtr > 0 /\ Store(n)
    BY <1>1, <1>2, <1>3, <1>6, StoreLoses
  <1> QED BY <1>1, <1>2, <1>4, <1>5, <1>6

\* A byte is lost.
LEMMA LoseLoses ==
  ASSUME IInv, FramePart, AllGood, LossPart, FewLosses, LoseDown
  PROVE  LossPart'
  <1>1. /\ down # << >> /\ down' = Tail(down) /\ hit' = hit \cup {Head(down).f}
        /\ losses > 0 /\ losses' = losses - 1
        /\ UNCHANGED <<frames, bufs, rxPacket, rxPtr, decoded>>
    BY DEF LoseDown, rxVars, hostVars
  <1>2. PICK n \in Cell : /\ n = NextCell /\ n = Head(down)
                          /\ n.f \in 1 .. Len(frames) /\ n.i \in 1 .. Long(n.f)
    BY <1>1, NextCellIs DEF LossPart
  <1>3. NextCell' = Succ(n) /\ DownPart'
    BY <1>1, <1>2, NextCellMoves DEF LossPart
  <1>4. PICK m \in Cell : m = Succ(n)
    BY <1>2, SuccIs
  <1>5. n.f \in Nat /\ n.f \in hit' /\ hit \subseteq hit' /\ \A f : Okay(f) => Okay(f)'
    BY <1>1, <1>2, MarksStay DEF Cell
  <1>6. CASE rxPtr = 0
    <2>1. \A f \in 1 .. n.f - 1 : Okay(f)'
      BY <1>2, <1>5, <1>6 DEF LossPart, Between
    <2>2. m.f \in {n.f, n.f + 1}
      BY <1>2, <1>4, SuccIs DEF First
    <2>3. Between(m)'
      BY <1>5, <2>1, <2>2, Ends
    <2> QED BY <1>1, <1>3, <1>4, <1>6, <2>3, LossParts
  <1>7. CASE rxPtr > 0
    <2>1. PICK b, g : b = bufs[rxPacket] /\ g = b[1].f
      OBVIOUS
    <2>2. /\ g \in 1 .. Len(frames) /\ g \in Nat /\ rxPtr \in Nat /\ Inside(b, n)
      BY <1>2, <1>7, <2>1, LongIs DEF IInv, DecoderPart, ShapePart, LossPart
    <2>3. /\ Long(g) \in Nat /\ Long(g) >= HeadLen /\ HeadLen \in Nat
          /\ losses \in 0 .. MaxLosses /\ MaxLosses \in Nat /\ MaxLosses <= HeadLen
          /\ rxPtr < Long(g)
      BY <2>1, <2>2, LongIs, LineAssumption DEF FramePart, FewLosses, Inside
    <2>4. \A f \in 1 .. g - 1 : Okay(f)'
      BY <1>5, <2>1, <2>2 DEF Inside
    <2>5. n.f \in {g, g + 1} /\ Ahead(g, n) <= rxPtr + (MaxLosses - losses) /\ g \in hit'
      <3>1. CASE g \in hit
        BY <1>5, <2>1, <2>2, <3>1 DEF Inside, Mixed
      <3>2. CASE g \notin hit
        <4>1. n = [f |-> g, i |-> rxPtr + 1]
          BY <2>1, <2>2, <3>2 DEF Inside, Whole
        <4>2. n.f = g /\ n.i = rxPtr + 1
          BY <4>1
        <4> QED BY <1>5, <2>2, <2>3, <4>2 DEF Ahead
      <3> QED BY <3>1, <3>2
    <2>6. /\ Ahead(g, n) \in Nat
          /\ \/ m.f \in {g, g + 1} /\ Ahead(g, m) = Ahead(g, n) + 1
             \/ n.f = g + 1 /\ m = First(g + 2) /\ Ahead(g, n) + 1 = Long(g) + Long(g + 1)
      BY <1>2, <1>4, <2>2, <2>5, AheadMoves
    <2>7. n.f = g + 1 => Long(g + 1) \in Nat /\ Long(g + 1) >= HeadLen
      BY <1>2, LongIs
    <2>8. m.f \in {g, g + 1} /\ Ahead(g, m) = Ahead(g, n) + 1
      BY <1>1, <2>2, <2>3, <2>5, <2>6, <2>7
    <2>9. Ahead(g, m)' = Ahead(g, m) /\ Long(g)' = Long(g)
      BY <1>1 DEF Ahead, Long
    <2>10. Mixed(b, m)'
      BY <1>1, <2>1, <2>2, <2>3, <2>5, <2>6, <2>8, <2>9 DEF Mixed
    <2>11. Inside(b, m)'
      BY <1>1, <2>1, <2>2, <2>3, <2>4, <2>5, <2>9, <2>10 DEF Inside
    <2> QED BY <1>1, <1>3, <1>4, <1>7, <2>1, <2>11, LossParts
  <1>8. rxPtr \in Nat
    BY DEF IInv, ShapePart
  <1> QED BY <1>6, <1>7, <1>8

\* A frame is sent: nothing the host sent before changes.
LEMMA HostLoses ==
  ASSUME IInv, FramePart, LossPart, Grows,
         UNCHANGED <<bufs, rxPacket, rxPtr, decoded, hit, losses>>
  PROVE  LossPart'
  <1>1. NextCell' = NextCell /\ DownPart' /\ \A f \in 1 .. Len(frames) : Long(f)' = Long(f)
    BY NextCellStays DEF LossPart
  <1>2. PICK b, m : b = bufs[rxPacket] /\ m = NextCell
    OBVIOUS
  <1>3. rxPtr' = 0 => Between(m)'
    BY <1>2 DEF LossPart, Between, Okay
  <1>4. ASSUME rxPtr' > 0 PROVE Inside(b, m)'
    <2>1. b[1].f \in 1 .. Len(frames) /\ Inside(b, m)
      BY <1>2, <1>4 DEF LossPart, IInv, DecoderPart
    <2>2. Long(b[1].f)' = Long(b[1].f)
      BY <1>1, <2>1
    <2>3. Ahead(b[1].f, m)' = Ahead(b[1].f, m)
      BY <2>2 DEF Ahead
    <2> QED BY <2>1, <2>2, <2>3 DEF Inside, Whole, Mixed, Okay
  <1> QED BY <1>1, <1>2, <1>3, <1>4, LossParts

\* The main loop and a silent host.
LEMMA OthersLose ==
  ASSUME LossPart, UNCHANGED <<frames, down, bufs, rxPacket, rxPtr, decoded, hit, losses>>
  PROVE  LossPart'
  BY DEF LossPart, DownPart, Succ, First, Long, NextCell, Between, Okay, Inside, Whole, Mixed, Ahead

\* Nothing but the host, the line and the interrupt touches them.
LEMMA MainLoses ==
  ASSUME Next, ~Request, ~TxByte, ~RxByte, ~LoseDown, ~HandleReset
  PROVE  UNCHANGED <<frames, down, bufs, rxPacket, rxPtr, decoded, hit, losses>>
  <1>1. CASE Handlers
    BY <1>1 DEF Handlers, HandleCounter, HandleSetting, HandleApp, Sees, MainUnchanged,
       rxVars, hostVars, lineVars
  <1>2. CASE ReplySteps
    BY <1>2 DEF ReplySteps, SendReply, StoreError, StoreCode, ReadAgain, StoreSeq,
       StoredReturn, ManyErrors, ClearErrors, BuildReply, SerialWrite, StoreUnchanged,
       ReplyUnchanged, MainUnchanged, rxVars, hostVars, lineVars
  <1>3. CASE Forget \/ Ready
    BY <1>3 DEF Forget, Ready, FreeUnchanged, MainUnchanged, rxVars, hostVars, lineVars
  <1> QED BY <1>1, <1>2, <1>3, NextIsStep

\* Sizes and losses keep their range.
LEMMA FramePartNext == IInv /\ FramePart /\ [Next]_vars => FramePart'
  <1> SUFFICES ASSUME IInv, FramePart, [Next]_vars PROVE FramePart'
    OBVIOUS
  <1>1. losses' \in 0 .. MaxLosses
    <2>1. losses' = losses \/ LoseDown
      <3>1. CASE UNCHANGED vars
        BY <3>1 DEF vars, lineVars
      <3>2. CASE Request \/ TxByte \/ RxByte \/ HandleReset
        BY <3>2 DEF Request, TxByte, RxByte, HandleReset, lineVars
      <3> QED BY <3>1, <3>2, MainLoses
    <2>2. LoseDown => losses > 0 /\ losses' = losses - 1
      BY DEF LoseDown
    <2> QED BY <2>1, <2>2, LineAssumption DEF FramePart
  <1>2. CASE frames' = frames
    BY <1>1, <1>2 DEF FramePart
  <1>3. CASE Grows
    <2>1. /\ Len(frames) \in Nat /\ Len(frames') = Len(frames) + 1
          /\ \A f \in 1 .. Len(frames) : frames'[f] = frames[f]
          /\ frames'[Len(frames) + 1].size <= DataLen
          /\ frames'[Len(frames) + 1].quick => frames'[Len(frames) + 1].size = 0
      BY <1>3, LineAssumption DEF Grows, IInv, ShapePart
    <2>2. \A f \in 1 .. Len(frames') : f \in 1 .. Len(frames) \/ f = Len(frames) + 1
      BY <2>1
    <2> QED BY <1>1, <2>1, <2>2 DEF FramePart
  <1> QED BY <1>2, <1>3, FramesMove, SendGrows DEF IInv

\* Every step keeps what a loss may cost.
LEMMA LossNext == FewLosses /\ IInv /\ LInv /\ [Next]_vars => LInv'
  <1> SUFFICES ASSUME FewLosses, IInv, LInv, [Next]_vars PROVE LInv'
    OBVIOUS
  <1>1. FramePart /\ FramePart'
    BY FramePartNext DEF LInv
  <1> SUFFICES ASSUME AllGood' PROVE LossPart'
    BY <1>1 DEF LInv
  <1>2. AllGood
    <2> SUFFICES ASSUME NEW f \in 1 .. Len(frames) PROVE Good(frames[f])
      BY DEF AllGood
    <2>1. f \in 1 .. Len(frames') /\ frames'[f] = frames[f]
      BY FramesStay
    <2>2. Good(frames'[f])
      BY <2>1 DEF AllGood, Good, Honest
    <2> QED BY <2>1, <2>2
  <1>3. LossPart
    BY <1>2 DEF LInv
  <1>4. CASE UNCHANGED vars
    BY <1>3, <1>4, OthersLose DEF vars, rxVars, hostVars, lineVars
  <1>5. CASE Request \/ TxByte
    <2>1. UNCHANGED <<bufs, rxPacket, rxPtr, decoded, hit, losses>>
      BY <1>5 DEF Request, TxByte, rxVars, lineVars
    <2>2. UNCHANGED <<frames, down>> \/ Grows
      BY <1>5, HostMoves, SendGrows DEF IInv
    <2> QED BY <1>1, <1>3, <2>1, <2>2, OthersLose, HostLoses
  <1>6. CASE RxByte
    BY <1>1, <1>2, <1>3, <1>6, RxByteLoses
  <1>7. CASE LoseDown
    BY <1>1, <1>2, <1>3, <1>7, LoseLoses
  <1>8. CASE HandleReset
    <2>1. packetOk # 0 /\ frames[bufs[packetOk][1].f].type \in {"RESET", "USER"}
      BY <1>8 DEF HandleReset
    <2>2. bufs[packetOk][1].f \in 1 .. Len(frames)
      BY <2>1, SeenIsHeld DEF IInv, HandedPart, HeldF
    <2> QED BY <1>2, <2>1, <2>2 DEF AllGood, Good
  <1>9. CASE Next /\ ~Request /\ ~TxByte /\ ~RxByte /\ ~LoseDown /\ ~HandleReset
    BY <1>3, <1>9, MainLoses, OthersLose
  <1> QED BY <1>4, <1>5, <1>6, <1>7, <1>8, <1>9

\* At power on nothing was sent.
LEMMA LossInit == Init => LInv
  <1> SUFFICES ASSUME Init PROVE LInv
    OBVIOUS
  <1>1. frames = << >> /\ down = << >> /\ rxPtr = 0 /\ losses = MaxLosses
    BY DEF Init, Boot
  <1>2. Len(frames) = 0 /\ Len(down) = 0
    BY <1>1, EmptySeq
  <1>3. NextCell.f = 1 /\ NextCell.i = 1
    BY <1>1, <1>2 DEF NextCell, First
  <1>4. Between(NextCell) /\ DownPart
    BY <1>2, <1>3 DEF Between, DownPart
  <1> QED BY <1>1, <1>2, <1>4, LineAssumption DEF LInv, FramePart, LossPart

\* What has left the line is what comes before the next cell.
LEMMA LossCost == IInv /\ LInv => LossIsLocal
  <1> SUFFICES ASSUME IInv, LInv, AllGood, NEW f \in 1 .. Len(frames), Arrived(f)
               PROVE  Okay(f)
    BY DEF LossIsLocal, AllGood, Good, Okay
  <1>1. FramePart /\ LossPart /\ rxPtr \in Nat
    BY DEF LInv, IInv, ShapePart
  <1>2. NextCell \in Cell /\ NextCell.f \in 1 .. Len(frames) + 1 /\ f < NextCell.f
    <2>1. down = << >> => NextCell.f = Len(frames) + 1
      BY <1>1, NextCellIs DEF LossPart, First
    <2>2. down # << >> => NextCell = Head(down)
      BY DEF NextCell
    <2>3. NextCell \in Cell /\ NextCell.f \in 1 .. Len(frames) + 1 /\ Len(frames) \in Nat
      BY <1>1, NextCellIs DEF LossPart
    <2> QED BY <2>1, <2>2, <2>3 DEF Arrived
  <1>3. f \in 1 .. NextCell.f - 1
    BY <1>2
  <1>4. CASE rxPtr = 0
    BY <1>1, <1>3, <1>4 DEF LossPart, Between
  <1>5. CASE rxPtr > 0
    <2>1. PICK g : g = bufs[rxPacket][1].f
      OBVIOUS
    <2>2. g \in 1 .. Len(frames) /\ Inside(bufs[rxPacket], NextCell)
      BY <1>1, <1>5, <2>1 DEF LossPart, IInv, DecoderPart
    <2>3. CASE f < g
      <3>1. f \in 1 .. g - 1
        BY <2>2, <2>3
      <3> QED BY <2>1, <2>2, <3>1 DEF Inside
    <2>4. CASE f >= g
      <3>1. g \notin hit => NextCell.f = g
        BY <2>1, <2>2 DEF Inside, Whole
      <3>2. g \in hit => NextCell.f \in {g, g + 1}
        BY <2>1, <2>2 DEF Inside, Mixed
      <3>3. f = g /\ g \in hit
        BY <1>2, <2>2, <2>4, <3>1, <3>2
      <3> QED BY <3>3 DEF Okay
    <2> QED BY <2>2, <2>3, <2>4
  <1> QED BY <1>1, <1>4, <1>5

\* Lost bytes, no more than a header has, cost the packets they belong to and
\* at most the one after each: the decoder is in step again by then.
THEOREM LossIsLocalAlways ==
  ASSUME FewLosses
  PROVE  Spec => []LossIsLocal
  <1>1. IInv /\ LInv /\ [Next]_vars => LInv'
    BY LossNext
  <1> QED BY <1>1, LossCost, LossInit, HandOver, PTL DEF Spec
=============================================================================
