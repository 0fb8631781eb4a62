----------------------------- MODULE UartProofs -----------------------------
(***************************************************************************)
(* The three users of a UART, for every size of the buffers and any number *)
(* of calls, bytes and lines: what loop() sends is what was typed, what    *)
(* the driver accepted leaves whole and in order, and what a call of the   *)
(* transceiver's driver read is its own reply.                             *)
(***************************************************************************)
EXTENDS MCUart, SequenceTheorems, FiniteSetTheorems, TLAPS

-----------------------------------------------------------------------------
(* The line input: no character leaves twice.                              *)

\* How much was typed.
Typed == Len(input)
Message == [data : Seq(Nat), blocks : Nat]

ShapePart ==
  /\ polite \in BOOLEAN /\ uart_done \in BOOLEAN
  /\ input \in Seq({"char", "eol", "button"})
  /\ uart_buff \in [Slot -> Nat] /\ uart_ptr \in 0 .. BuffLen
  /\ pc \in {"poll", "copy", "send", "wipe", "rewind", "release"}
  /\ nb_bloc \in Nat
  /\ buff \in Seq(Nat) /\ Len(buff) <= BuffLen
  /\ pc = "copy" => Len(buff) < BuffLen
  /\ pc = "send" => Len(buff) = BuffLen
  /\ outbox \in Seq(Message)

\* Nothing is anywhere that was not typed yet.
TypedPart ==
  /\ \A i \in Slot : uart_buff[i] <= Typed
  /\ \A i \in 1 .. Len(buff) : buff[i] <= Typed
  /\ \A m \in 1 .. Len(outbox) : \A i \in 1 .. Len(outbox[m].data) : outbox[m].data[i] <= Typed

\* A character is in one slot of either buffer, and while it is copied in the
\* same slot of both.
BuffersPart ==
  /\ \A i, j \in Slot : uart_buff[i] # 0 /\ uart_buff[i] = uart_buff[j] => i = j
  /\ \A i, j \in 1 .. Len(buff) : buff[i] # 0 /\ buff[i] = buff[j] => i = j
  /\ pc = "copy" =>
       \A i \in 1 .. Len(buff), j \in Slot : buff[i] # 0 /\ buff[i] = uart_buff[j] => i = j + 1

\* A character that has left is not in the buffers any more, but for the time
\* between the sending and the wipe.
LeftPart ==
  \A m \in 1 .. Len(outbox) : \A i \in 1 .. Len(outbox[m].data) :
    outbox[m].data[i] # 0 =>
      /\ pc # "wipe" => \A j \in Slot : uart_buff[j] # outbox[m].data[i]
      /\ pc \in {"copy", "send"} => \A j \in 1 .. Len(buff) : buff[j] # outbox[m].data[i]
      /\ \A n \in 1 .. Len(outbox) : \A j \in 1 .. Len(outbox[n].data) :
           outbox[n].data[j] = outbox[m].data[i] => m = n /\ i = j

CInv == ShapePart /\ TypedPart /\ BuffersPart /\ LeftPart

-----------------------------------------------------------------------------
(* No character leaves twice.                                              *)

\* At power on the buffers are empty.
LEMMA CharsInit == UartAssumption /\ Init => CInv
  BY DEF UartAssumption, Init, CInv, ShapePart, TypedPart, BuffersPart, LeftPart, Slot, Typed, Message

\* An event is typed into a slot: it is new, and nothing else moves.
LEMMA TypedKeeps ==
  ASSUME UartAssumption, CInv,
         NEW c \in {"char", "eol", "button"}, input' = Append(input, c),
         uart_buff' = uart_buff
           \/ \E s \in Slot : uart_buff' = [uart_buff EXCEPT ![s] = Len(input) + 1],
         uart_ptr' \in 0 .. BuffLen, uart_done' \in BOOLEAN,
         UNCHANGED <<polite, pc, nb_bloc, buff, outbox>>
  PROVE  CInv'
  <1>1. input' \in Seq({"char", "eol", "button"}) /\ Typed' = Typed + 1 /\ Typed \in Nat
    BY DEF CInv, ShapePart, Typed
  <1>2. /\ uart_buff' \in [Slot -> Nat]
        /\ \A i \in Slot : uart_buff'[i] = uart_buff[i] \/ uart_buff'[i] = Typed + 1
        /\ \A i, j \in Slot : uart_buff'[i] = Typed + 1 /\ uart_buff'[j] = Typed + 1 => i = j
    <2>1. /\ uart_buff \in [Slot -> Nat]
          /\ \A i \in Slot : uart_buff[i] <= Typed
      BY DEF CInv, ShapePart, TypedPart
    <2>2. CASE uart_buff' = uart_buff
      BY <1>1, <2>1, <2>2
    <2>3. ASSUME NEW s \in Slot, uart_buff' = [uart_buff EXCEPT ![s] = Typed + 1]
          PROVE  /\ uart_buff' \in [Slot -> Nat]
                 /\ \A i \in Slot : uart_buff'[i] = uart_buff[i] \/ uart_buff'[i] = Typed + 1
                 /\ \A i, j \in Slot : uart_buff'[i] = Typed + 1 /\ uart_buff'[j] = Typed + 1 => i = j
      <3>1. \A i \in Slot : uart_buff'[i] = IF i = s THEN Typed + 1 ELSE uart_buff[i]
        BY <2>1, <2>3
      <3>2. uart_buff' \in [Slot -> Nat]
        BY <1>1, <2>1, <2>3
      <3> QED BY <1>1, <2>1, <3>1, <3>2
    <2> QED BY <2>2, <2>3 DEF Typed
  <1>3. ShapePart'
    BY <1>1, <1>2 DEF CInv, ShapePart, Slot
  <1>4. TypedPart'
    <2>1. \A i \in Slot : uart_buff'[i] <= Typed'
      <3> SUFFICES ASSUME NEW i \in Slot PROVE uart_buff'[i] <= Typed'
        OBVIOUS
      <3>1. uart_buff[i] \in Nat /\ uart_buff[i] <= Typed
        BY DEF CInv, TypedPart, ShapePart
      <3> QED BY <1>1, <1>2, <3>1
    <2>2. \A i \in 1 .. Len(buff) : buff[i] <= Typed'
      <3> SUFFICES ASSUME NEW i \in 1 .. Len(buff) PROVE buff[i] <= Typed'
        OBVIOUS
      <3>1. buff[i] \in Nat /\ buff[i] <= Typed
        BY DEF CInv, TypedPart, ShapePart
      <3> QED BY <1>1, <3>1
    <2>3. ASSUME NEW m \in 1 .. Len(outbox), NEW i \in 1 .. Len(outbox[m].data)
          PROVE  outbox[m].data[i] <= Typed'
      <3>1. outbox[m] \in Message
        BY DEF CInv, ShapePart
      <3>2. outbox[m].data[i] \in Nat /\ outbox[m].data[i] <= Typed
        BY <3>1 DEF CInv, TypedPart, Message
      <3> QED BY <1>1, <3>2
    <2>4. Slot' = Slot
      BY DEF Slot
    <2> QED BY <2>1, <2>2, <2>3, <2>4 DEF TypedPart
  <1>5. BuffersPart'
    <2>1. \A i, j \in Slot : uart_buff'[i] # 0 /\ uart_buff'[i] = uart_buff'[j] => i = j
      BY <1>1, <1>2 DEF CInv, BuffersPart, TypedPart, ShapePart
    <2>2. ASSUME pc = "copy", NEW i \in 1 .. Len(buff), NEW j \in Slot,
                 buff[i] # 0, buff[i] = uart_buff'[j]
          PROVE  i = j + 1
      BY <1>1, <1>2, <2>2 DEF CInv, BuffersPart, TypedPart, ShapePart
    <2> QED BY <2>1, <2>2 DEF CInv, BuffersPart, Slot
  <1>6. LeftPart'
    <2> SUFFICES ASSUME NEW m \in 1 .. Len(outbox), NEW i \in 1 .. Len(outbox[m].data),
                        outbox[m].data[i] # 0, pc # "wipe", NEW j \in Slot
                 PROVE  uart_buff'[j] # outbox[m].data[i]
      BY DEF CInv, LeftPart, Slot
    <2>1. uart_buff[j] # outbox[m].data[i] /\ outbox[m].data[i] <= Typed
      BY DEF CInv, LeftPart, TypedPart
    <2>2. outbox[m] \in Message
      BY DEF CInv, ShapePart
    <2>3. outbox[m].data[i] \in Nat
      BY <2>2 DEF Message
    <2> QED BY <1>1, <1>2, <2>1, <2>3
  <1> QED BY <1>3, <1>4, <1>5, <1>6 DEF CInv

\* The two interrupts.
LEMMA InterruptKeepsChars == UartAssumption /\ CInv /\ Interrupt => CInv'
  <1> SUFFICES ASSUME UartAssumption, CInv, Interrupt PROVE CInv'
    OBVIOUS
  <1>1. BuffLen \in Nat \ {0} /\ uart_ptr \in 0 .. BuffLen /\ uart_done \in BOOLEAN
    BY DEF UartAssumption, CInv, ShapePart
  <1>2. ASSUME NEW c \in {"char", "eol"}, handle_uart_cmd(c)
        PROVE  CInv'
    <2>1. UNCHANGED <<polite, pc, nb_bloc, buff, outbox>> /\ input' = Append(input, c)
      BY <1>2 DEF handle_uart_cmd, mainVars
    <2>2. uart_done' \in BOOLEAN
      BY <1>1, <1>2 DEF handle_uart_cmd, RaisesDone
    <2>3. CASE Fits
      <3>1. uart_ptr \in Slot /\ uart_ptr + 1 \in 0 .. BuffLen
        BY <1>1, <2>3 DEF Fits, Slot
      <3>2. uart_buff' = [uart_buff EXCEPT ![uart_ptr] = Len(input) + 1] /\ uart_ptr' = uart_ptr + 1
        BY <1>2, <2>3 DEF handle_uart_cmd
      <3> QED BY <2>1, <2>2, <3>1, <3>2, TypedKeeps
    <2>4. CASE ~Fits
      <3>1. uart_buff' = uart_buff /\ uart_ptr' = uart_ptr
        BY <1>2, <2>4 DEF handle_uart_cmd
      <3> QED BY <1>1, <2>1, <2>2, <3>1, TypedKeeps
    <2> QED BY <2>3, <2>4
  <1>3. ASSUME activate_chenillard
        PROVE  CInv'
    <2>1. 0 \in Slot /\ 1 \in 0 .. BuffLen
      BY <1>1 DEF Slot
    <2> QED BY <1>3, <2>1, TypedKeeps DEF activate_chenillard, mainVars
  <1> QED BY <1>2, <1>3 DEF Interrupt

\* Poll starts a copy, which goes on slot by slot.
LEMMA CopyKeepsChars == UartAssumption /\ CInv /\ (Poll \/ CopySlot) => CInv'
  <1> SUFFICES ASSUME UartAssumption, CInv, Poll \/ CopySlot PROVE CInv'
    OBVIOUS
  <1>1. UNCHANGED <<polite, input, uart_buff, uart_ptr, uart_done, outbox>> /\ Typed' = Typed /\ Slot' = Slot
    BY DEF Poll, CopySlot, Typed, Slot
  <1>2. CASE Poll
    <2>0. uart_ptr \in Nat /\ BlockLen \in Nat \ {0}
      BY DEF CInv, ShapePart, UartAssumption
    <2>1. buff' = <<>> /\ Len(buff') = 0 /\ pc' = "copy" /\ nb_bloc' \in Nat /\ pc = "poll"
      <3>1. uart_ptr \div BlockLen \in Nat
        BY <2>0
      <3> QED BY <1>2, <3>1 DEF Poll
    <2>2. ShapePart'
      BY <1>1, <2>1 DEF CInv, ShapePart, UartAssumption
    <2>3. TypedPart' /\ BuffersPart' /\ LeftPart'
      BY <1>1, <2>1 DEF CInv, TypedPart, BuffersPart, LeftPart
    <2> QED BY <2>2, <2>3 DEF CInv
  <1>3. CASE CopySlot
    <2> DEFINE x == uart_buff[Len(buff)]
    <2>1. pc = "copy" /\ Len(buff) \in Slot /\ x \in Nat /\ x <= Typed
      BY <1>3 DEF CopySlot, CInv, ShapePart, TypedPart, Slot, UartAssumption
    <2>2. /\ buff' \in Seq(Nat) /\ Len(buff') = Len(buff) + 1
          /\ \A i \in 1 .. Len(buff') : buff'[i] = IF i <= Len(buff) THEN buff[i] ELSE x
      BY <1>3, <2>1 DEF CopySlot, CInv, ShapePart
    <2> HIDE DEF x
    <2>3. pc' = IF Len(buff') = BuffLen THEN "send" ELSE "copy"
      BY <1>3 DEF CopySlot
    <2>4. ShapePart'
      BY <1>1, <1>3, <2>1, <2>2, <2>3 DEF CopySlot, CInv, ShapePart, UartAssumption, Slot
    <2>5. TypedPart'
      <3>1. ASSUME NEW i \in 1 .. Len(buff') PROVE buff'[i] <= Typed
        <4>1. i <= Len(buff) => i \in 1 .. Len(buff)
          BY <2>2
        <4> QED BY <2>1, <2>2, <4>1 DEF CInv, TypedPart
      <3> QED BY <1>1, <3>1 DEF CInv, TypedPart
    <2>6. BuffersPart'
      <3>1. ASSUME NEW i \in 1 .. Len(buff), NEW j \in Slot, buff[i] # 0, buff[i] = uart_buff[j]
            PROVE  i = j + 1
        BY <2>1, <3>1 DEF CInv, BuffersPart
      <3>2. \A i \in 1 .. Len(buff) : x # 0 => buff[i] # x
        BY <2>1, <3>1 DEF x, CInv, ShapePart
      <3>3. ASSUME NEW i \in 1 .. Len(buff'), NEW j \in 1 .. Len(buff'),
                   buff'[i] # 0, buff'[i] = buff'[j]
            PROVE  i = j
        <4>1. \A k \in 1 .. Len(buff') : k \in 1 .. Len(buff) \/ (k = Len(buff) + 1 /\ ~(k <= Len(buff)))
          BY <2>2 DEF CInv, ShapePart
        <4>2. CASE i \in 1 .. Len(buff) /\ j \in 1 .. Len(buff)
          <5>1. i <= Len(buff) /\ j <= Len(buff)
            BY <4>1, <4>2
          <5>2. buff[i] # 0 /\ buff[i] = buff[j]
            BY <2>2, <3>3, <5>1
          <5>3. BuffersPart
            BY DEF CInv
          <5> QED BY <4>2, <5>2, <5>3 DEF BuffersPart
        <4>3. CASE i \notin 1 .. Len(buff) /\ j \in 1 .. Len(buff)
          BY <2>2, <3>2, <3>3, <4>1, <4>3
        <4>4. CASE i \in 1 .. Len(buff) /\ j \notin 1 .. Len(buff)
          BY <2>2, <3>2, <3>3, <4>1, <4>4
        <4> QED BY <4>1, <4>2, <4>3, <4>4
      <3>4. ASSUME NEW i \in 1 .. Len(buff'), NEW j \in Slot, buff'[i] # 0, buff'[i] = uart_buff[j]
            PROVE  i = j + 1
        <4>1. CASE i <= Len(buff)
          BY SMTT(30), <2>2, <3>1, <3>4, <4>1 DEF CInv, ShapePart
        <4>2. CASE i = Len(buff) + 1
          <5>1. buff'[i] = x
            BY <2>2, <4>2
          <5>2. uart_buff[Len(buff)] # 0 /\ uart_buff[Len(buff)] = uart_buff[j]
            BY <3>4, <5>1 DEF x
          <5>3. BuffersPart
            BY DEF CInv
          <5>4. Len(buff) = j
            BY <2>1, <5>2, <5>3, Zenon DEF BuffersPart
          <5> QED BY <2>1, <4>2, <5>4 DEF Slot
        <4> QED BY <2>2, <4>1, <4>2 DEF CInv, ShapePart
      <3> QED BY <1>1, <3>3, <3>4 DEF BuffersPart, CInv
    <2>7. LeftPart'
      <3> SUFFICES ASSUME NEW m \in 1 .. Len(outbox), NEW i \in 1 .. Len(outbox[m].data),
                          outbox[m].data[i] # 0, NEW j \in 1 .. Len(buff')
                   PROVE  buff'[j] # outbox[m].data[i]
        BY <1>1, <2>1, <2>3 DEF CInv, LeftPart
      <3>1. /\ \A k \in Slot : uart_buff[k] # outbox[m].data[i]
            /\ \A k \in 1 .. Len(buff) : buff[k] # outbox[m].data[i]
        BY <2>1 DEF CInv, LeftPart
      <3>2. x # outbox[m].data[i]
        BY <2>1, <3>1, Zenon DEF x
      <3>3. j <= Len(buff) => j \in 1 .. Len(buff)
        BY <2>2
      <3> QED BY <2>2, <3>1, <3>2, <3>3
    <2> QED BY <2>4, <2>5, <2>6, <2>7 DEF CInv
  <1> QED BY <1>2, <1>3

\* What Send gives to send_message: the copied slots up to uart_ptr.
LEMMA SentOnce ==
  ASSUME UartAssumption, ShapePart, Send
  PROVE  LET d == SubSeq(buff, 1, uart_ptr)
             M == Len(outbox) + 1
         IN  /\ d \in Seq(Nat) /\ Len(d) = uart_ptr
             /\ \A i \in 1 .. uart_ptr : i \in 1 .. Len(buff) /\ d[i] = buff[i]
             /\ Len(outbox) \in Nat /\ Len(outbox') = M /\ outbox' \in Seq(Message)
             /\ outbox'[M] = [data |-> d, blocks |-> nb_bloc]
             /\ \A m \in 1 .. Len(outbox) : outbox'[m] = outbox[m]
  <1> DEFINE d == SubSeq(buff, 1, uart_ptr)
             new == [data |-> d, blocks |-> nb_bloc]
  <1>1. uart_ptr \in Nat /\ \A i \in 1 .. uart_ptr : i \in 1 .. Len(buff) /\ buff[i] \in Nat
    BY DEF Send, ShapePart, UartAssumption
  <1>2. /\ d \in Seq(Nat) /\ Len(d) = IF 1 <= uart_ptr THEN uart_ptr - 1 + 1 ELSE 0
        /\ \A i \in 1 .. uart_ptr - 1 + 1 : d[i] = buff[1 + i - 1]
    BY <1>1, SubSeqProperties
  <1>3. \A i \in 1 .. uart_ptr : d[i] = buff[i]
    BY <1>1, <1>2
  <1>4. Len(d) = uart_ptr
    BY <1>1, <1>2
  <1> HIDE DEF d
  <1>5. new \in Message
    BY <1>2 DEF Message, ShapePart
  <1>6. outbox' = Append(outbox, new) /\ outbox \in Seq(Message)
    BY DEF Send, ShapePart, d
  <1> HIDE DEF new
  <1>7. /\ outbox' \in Seq(Message) /\ Len(outbox) \in Nat /\ Len(outbox') = Len(outbox) + 1
        /\ outbox'[Len(outbox) + 1] = new /\ \A m \in 1 .. Len(outbox) : outbox'[m] = outbox[m]
    BY <1>5, <1>6
  <1> QED BY <1>1, <1>2, <1>3, <1>4, <1>7 DEF new, d

\* A message is sent: what it holds was in no other, and is in buff but no more
\* to be sent.
LEMMA SendKeepsChars == UartAssumption /\ CInv /\ Send => CInv'
  <1> SUFFICES ASSUME UartAssumption, CInv, Send PROVE CInv'
    OBVIOUS
  <1> DEFINE M == Len(outbox) + 1
             d == SubSeq(buff, 1, uart_ptr)
  <1>1. /\ d \in Seq(Nat) /\ Len(d) = uart_ptr
        /\ \A i \in 1 .. uart_ptr : i \in 1 .. Len(buff) /\ d[i] = buff[i]
        /\ Len(outbox) \in Nat /\ Len(outbox') = M /\ outbox' \in Seq(Message)
        /\ outbox'[M].data = d
        /\ \A m \in 1 .. Len(outbox) : outbox'[m] = outbox[m]
    BY SentOnce DEF CInv
  <1> HIDE DEF d
  <1>2. /\ UNCHANGED <<polite, input, uart_buff, uart_ptr, uart_done, nb_bloc, buff>>
        /\ pc = "send" /\ pc' = "wipe" /\ Typed' = Typed /\ Slot' = Slot
    BY DEF Send, Typed, Slot
  <1>3. ShapePart'
    BY <1>1, <1>2 DEF CInv, ShapePart
  <1>4. \A m \in 1 .. M : m # M => m \in 1 .. Len(outbox)
    BY <1>1
  <1>5. \A i \in 1 .. Len(d) : d[i] <= Typed
    BY <1>1 DEF CInv, TypedPart
  <1>6. TypedPart'
    <2> SUFFICES ASSUME NEW m \in 1 .. M, NEW i \in 1 .. Len(outbox'[m].data)
                 PROVE  outbox'[m].data[i] <= Typed
      BY <1>1, <1>2 DEF CInv, TypedPart
    <2>1. CASE m = M
      BY <1>1, <1>5, <2>1
    <2>2. CASE m # M
      BY <1>1, <1>4, <2>2 DEF CInv, TypedPart
    <2> QED BY <2>1, <2>2
  <1>7. BuffersPart'
    BY <1>2 DEF CInv, BuffersPart
  <1>8. ASSUME NEW m \in 1 .. Len(outbox), NEW i \in 1 .. Len(outbox[m].data), outbox[m].data[i] # 0,
               NEW j \in 1 .. Len(buff)
        PROVE  buff[j] # outbox[m].data[i]
    <2>1. LeftPart /\ pc \in {"copy", "send"}
      BY <1>2 DEF CInv
    <2> QED BY <1>8, <2>1, Zenon DEF LeftPart
  <1>9. LeftPart'
    <2> SUFFICES ASSUME NEW m \in 1 .. M, NEW i \in 1 .. Len(outbox'[m].data),
                        outbox'[m].data[i] # 0,
                        NEW n \in 1 .. M, NEW j \in 1 .. Len(outbox'[n].data),
                        outbox'[n].data[j] = outbox'[m].data[i]
                 PROVE  m = n /\ i = j
      BY <1>1, <1>2 DEF LeftPart
    <2>1. CASE m = M /\ n = M
      BY SMTT(30), <1>1, <2>1 DEF CInv, BuffersPart
    <2>2. CASE m # M /\ n # M
      <3>1. /\ m \in 1 .. Len(outbox) /\ outbox'[m] = outbox[m]
            /\ n \in 1 .. Len(outbox) /\ outbox'[n] = outbox[n]
        BY <1>1, <1>4, <2>2
      <3>2. /\ i \in 1 .. Len(outbox[m].data) /\ outbox[m].data[i] # 0
            /\ j \in 1 .. Len(outbox[n].data) /\ outbox[n].data[j] = outbox[m].data[i]
        BY <3>1
      <3>3. LeftPart
        BY DEF CInv
      <3> QED BY <3>1, <3>2, <3>3, Zenon DEF LeftPart
    <2>3. CASE m # M /\ n = M
      <3>1. m \in 1 .. Len(outbox) /\ outbox'[m] = outbox[m]
        BY <1>1, <1>4, <2>3
      <3>2. outbox'[n].data = d /\ j \in 1 .. Len(d)
        BY <1>1, <2>3
      <3>3. d[j] = buff[j] /\ j \in 1 .. Len(buff)
        BY <1>1, <3>2
      <3>4. /\ i \in 1 .. Len(outbox[m].data) /\ outbox[m].data[i] # 0
            /\ buff[j] = outbox[m].data[i]
        BY <3>1, <3>2, <3>3
      <3> QED BY <1>8, <3>1, <3>3, <3>4, Zenon
    <2>4. CASE m = M /\ n # M
      <3>1. n \in 1 .. Len(outbox) /\ outbox'[n] = outbox[n]
        BY <1>1, <1>4, <2>4
      <3>2. outbox'[m].data = d /\ i \in 1 .. Len(d)
        BY <1>1, <2>4
      <3>3. d[i] = buff[i] /\ i \in 1 .. Len(buff)
        BY <1>1, <3>2
      <3>4. /\ j \in 1 .. Len(outbox[n].data) /\ outbox[n].data[j] # 0
            /\ outbox[n].data[j] = buff[i]
        BY <3>1, <3>2, <3>3
      <3> QED BY <1>8, <3>1, <3>3, <3>4, Zenon
    <2> QED BY <2>1, <2>2, <2>3, <2>4
  <1> QED BY <1>3, <1>6, <1>7, <1>9 DEF CInv

\* The wipe, the rewind and the release: nothing comes back.
LEMMA WipeKeepsChars == UartAssumption /\ CInv /\ (Wipe \/ Rewind \/ Release) => CInv'
  <1> SUFFICES ASSUME UartAssumption, CInv, Wipe \/ Rewind \/ Release PROVE CInv'
    OBVIOUS
  <1>1. UNCHANGED <<polite, input, nb_bloc, buff, outbox>> /\ Typed' = Typed /\ Slot' = Slot
        /\ pc \in {"wipe", "rewind", "release"} /\ pc' \in {"rewind", "release", "poll"}
    BY DEF Wipe, Rewind, Release, Typed, Slot
  <1>2. CASE Wipe
    <2>1. /\ uart_buff' \in [Slot -> Nat] /\ \A i \in Slot : uart_buff'[i] = 0
          /\ UNCHANGED <<uart_ptr, uart_done>>
      BY <1>2 DEF Wipe, Wiped, CInv, ShapePart
    <2>2. Typed \in Nat
      BY DEF Typed, CInv, ShapePart
    <2>3. ShapePart' /\ TypedPart' /\ BuffersPart'
      BY <1>1, <2>1, <2>2 DEF CInv, ShapePart, TypedPart, BuffersPart
    <2>4. LeftPart'
      BY <1>1, <2>1 DEF CInv, LeftPart
    <2> QED BY <2>3, <2>4 DEF CInv
  <1>3. CASE Rewind \/ Release
    <2>0. 0 \in 0 .. BuffLen /\ uart_ptr \in 0 .. BuffLen /\ uart_done \in BOOLEAN
      BY DEF CInv, ShapePart, UartAssumption
    <2>1. uart_buff' = uart_buff /\ uart_ptr' \in 0 .. BuffLen /\ uart_done' \in BOOLEAN
          /\ pc # "wipe"
      BY <1>3, <2>0, Zenon DEF Rewind, Release, Rewound
    <2>2. ShapePart' /\ TypedPart' /\ BuffersPart'
      BY <1>1, <2>1 DEF CInv, ShapePart, TypedPart, BuffersPart
    <2>3. LeftPart'
      BY <1>1, <2>1 DEF CInv, LeftPart
    <2> QED BY <2>2, <2>3 DEF CInv
  <1> QED BY <1>2, <1>3

\* Every step keeps what is known of the characters.
LEMMA CharsNext == UartAssumption /\ CInv /\ [Next]_vars => CInv'
  <1>1. CInv /\ UNCHANGED vars => CInv'
    BY DEF vars, mainVars, CInv, ShapePart, TypedPart, BuffersPart, LeftPart, Typed, Slot
  <1> QED BY <1>1, InterruptKeepsChars, CopyKeepsChars, SendKeepsChars, WipeKeepsChars DEF Next, Loop

\* A character has one place at most.
LEMMA OnePlace == CInv => NoCharTwice
  <1> SUFFICES ASSUME CInv, NEW k \in DOMAIN input PROVE Cardinality(Places(k)) <= 1
    BY DEF NoCharTwice
  <1>1. k # 0
    BY DEF CInv, ShapePart
  <1>2. ASSUME NEW a \in Places(k), NEW b \in Places(k)
        PROVE  a = b
    <2>1. ASSUME NEW at \in Places(k)
          PROVE  /\ at = <<at[1], at[2]>> /\ at[1] \in 1 .. Len(outbox)
                 /\ at[2] \in 1 .. Len(outbox[at[1]].data)
                 /\ outbox[at[1]].data[at[2]] = k
      <3>1. at \in (DOMAIN outbox) \X (1 .. BuffLen) /\ DOMAIN outbox = 1 .. Len(outbox)
        BY <2>1 DEF Places, CInv, ShapePart
      <3>2. outbox[at[1]] \in Message
        BY <3>1 DEF CInv, ShapePart
      <3> QED BY <2>1, <3>1, <3>2 DEF Places, Message
    <2>2. a[1] = b[1] /\ a[2] = b[2]
      BY <1>1, <2>1 DEF CInv, LeftPart
    <2> QED BY <2>1, <2>2
  <1>3. CASE Places(k) = {}
    BY <1>3, FS_EmptySet
  <1>4. CASE Places(k) # {}
    <2>1. PICK a : a \in Places(k)
      BY <1>4
    <2>2. Places(k) = {a}
      BY <1>2, <2>1
    <2> QED BY <2>2, FS_Singleton
  <1> QED BY <1>3, <1>4

\* However the interrupts fall between the copy, the wipe and the rewind, no
\* character leaves in two messages or twice in one.
THEOREM NoCharTwiceAlways == AllSpec => []NoCharTwice
  <1>1. AllInit => Init
    BY DEF AllInit
  <1>2. [AllNext]_allVars => [Next]_vars
    BY DEF AllNext, allVars
  <1>3. UartAssumption
    BY PartAssumptions
  <1> QED BY <1>1, <1>2, <1>3, CharsInit, CharsNext, OnePlace, PTL DEF AllSpec

-----------------------------------------------------------------------------
(* The messages of a polite typist are the lines.                          *)

\* The line that is open or waits to be taken ends with event Open; the line
\* before it ended with event p.
Open == IF uart_done THEN Typed ELSE Typed + 1
IsPrev(k, p) ==
  /\ p \in Ends \cup {0} /\ p < k
  /\ \A e \in Ends : e < k => e <= p

\* What was typed since p is in the buffer, as much of it as fits.
Filled(p) ==
  /\ uart_ptr = IF Typed - p <= BuffLen THEN Typed - p ELSE BuffLen
  /\ \A i \in Slot : i < uart_ptr => uart_buff[i] = p + 1 + i

OpenPart ==
  /\ uart_done => Typed \in Ends
  /\ ~uart_done => pc = "poll"
  /\ pc \in {"poll", "copy", "send"} => \E p \in 0 .. Typed : IsPrev(Open, p) /\ Filled(p)

CopyPart ==
  /\ pc \in {"copy", "send"} =>
       /\ \A i \in 1 .. Len(buff) : buff[i] = uart_buff[i - 1]
       /\ nb_bloc = uart_ptr \div BlockLen
  /\ pc = "release" => uart_ptr = 0

\* A message for each line that was taken.
TakenPart ==
  Len(outbox) = IF uart_done /\ pc \in {"poll", "copy", "send"}
                THEN Cardinality(Ends) - 1 ELSE Cardinality(Ends)

Is(m, k) ==
  /\ Cardinality({e \in Ends : e <= k}) = m
  /\ outbox[m].data = Line(k)
  /\ outbox[m].blocks = Len(Line(k)) \div BlockLen
SentPart == \A m \in 1 .. Len(outbox) : \E k \in Ends : Is(m, k)

LInv == polite => OpenPart /\ CopyPart /\ TakenPart /\ SentPart

\* The smaller of two numbers.
LEMMA MinOfTwo ==
  ASSUME NEW a \in Int, NEW b \in Int
  PROVE  Min({a, b}) = IF a <= b THEN a ELSE b
  <1> DEFINE m == IF a <= b THEN a ELSE b
  <1>1. m \in {a, b} /\ \A y \in {a, b} : m <= y
    OBVIOUS
  <1>2. \A x \in {a, b} : (\A y \in {a, b} : x <= y) => x = m
    OBVIOUS
  <1> QED BY <1>1, <1>2 DEF Min

\* The event before k that ends a line is the greatest.
LEMMA PrevIsMax ==
  ASSUME NEW k \in Nat, NEW p, IsPrev(k, p), Ends \subseteq Nat
  PROVE  Max({e \in Ends : e < k} \cup {0}) = p
  <1> DEFINE before == {e \in Ends : e < k} \cup {0}
  <1>0. p \in Nat
    BY DEF IsPrev
  <1>1. p \in before /\ before \subseteq Nat /\ \A y \in before : p >= y
    <2>1. p \in before /\ before \subseteq Nat
      <3>1. (p \in Ends /\ p < k) \/ p = 0
        BY DEF IsPrev
      <3>2. 0 \in Nat
        OBVIOUS
      <3> QED BY <3>1, <3>2, Zenon
    <2>2. ASSUME NEW y \in before PROVE p >= y
      <3>1. y = 0 \/ (y \in Ends /\ y < k)
        BY <2>2
      <3>2. y \in Ends /\ y < k => y <= p
        BY DEF IsPrev
      <3> HIDE DEF before
      <3> QED BY <1>0, <2>1, <3>1, <3>2
    <2> QED BY <2>1, <2>2
  <1> HIDE DEF before
  <1>2. \A x \in before : (\A y \in before : x >= y) => x = p
    BY <1>1
  <1>3. Max(before) = p
    BY <1>1, <1>2 DEF Max
  <1> QED BY <1>3 DEF before

\* The ends are events, and finitely many.
LEMMA EndsFinite ==
  ASSUME ShapePart
  PROVE  /\ Typed \in Nat /\ Ends \subseteq 1 .. Typed /\ IsFiniteSet(Ends) /\ Cardinality(Ends) \in Nat
         /\ \A k \in Nat : IsFiniteSet({e \in Ends : e <= k})
         /\ {e \in Ends : e <= Typed} = Ends
  <1>1. Typed \in Nat /\ DOMAIN input = 1 .. Typed
    BY DEF ShapePart, Typed
  <1>2. Ends \subseteq 1 .. Typed
    BY <1>1 DEF Ends
  <1>3. IsFiniteSet(1 .. Typed)
    BY <1>1, FS_Interval
  <1>4. IsFiniteSet(Ends) /\ \A k \in Nat : IsFiniteSet({e \in Ends : e <= k})
    BY <1>2, <1>3, FS_Subset
  <1>5. Cardinality(Ends) \in Nat
    BY <1>4, FS_CardinalityType
  <1>6. {e \in Ends : e <= Typed} = Ends
    <2>1. \A e \in Ends : e <= Typed
      BY <1>1, <1>2
    <2> QED BY <2>1, Zenon
  <1> QED BY <1>1, <1>2, <1>4, <1>5, <1>6

\* A new event is the last, and an end or none.
LEMMA EndsGrow ==
  ASSUME ShapePart, NEW c \in {"char", "eol", "button"}, input' = Append(input, c)
  PROVE  /\ Typed' = Typed + 1
         /\ Ends' = IF c = "char" THEN Ends ELSE Ends \cup {Typed + 1}
         /\ Cardinality(Ends') = IF c = "char" THEN Cardinality(Ends) ELSE Cardinality(Ends) + 1
  <1>1. Typed \in Nat /\ DOMAIN input = 1 .. Typed
    BY DEF ShapePart, Typed
  <1>2. Typed' = Typed + 1 /\ DOMAIN input' = 1 .. Typed + 1 /\ input'[Typed + 1] = c
        /\ \A k \in 1 .. Typed : input'[k] = input[k]
    BY DEF ShapePart, Typed
  <1>3. \A k : k \in Ends' <=> k \in 1 .. Typed + 1 /\ input'[k] \in {"eol", "button"}
    BY <1>2 DEF Ends
  <1>4. \A k : k \in Ends <=> k \in 1 .. Typed /\ input[k] \in {"eol", "button"}
    BY <1>1 DEF Ends
  <1>5. \A k : k \in 1 .. Typed + 1 <=> (k \in 1 .. Typed \/ k = Typed + 1)
    BY <1>1
  <1>6. Ends' = IF c = "char" THEN Ends ELSE Ends \cup {Typed + 1}
    BY <1>2, <1>3, <1>4, <1>5, Zenon
  <1>7. Typed + 1 \notin Ends
    BY <1>1, <1>4
  <1>8. Cardinality(Ends \cup {Typed + 1}) = Cardinality(Ends) + 1
    BY <1>7, EndsFinite, FS_AddElement
  <1> QED BY <1>2, <1>6, <1>8

\* What was a line stays that line when more is typed.
LEMMA LinesStay ==
  ASSUME ShapePart, NEW c \in {"char", "eol", "button"}, input' = Append(input, c),
         outbox' = outbox, SentPart
  PROVE  SentPart'
  <1>1. Typed \in Nat /\ Ends \subseteq 1 .. Typed /\ Typed + 1 \notin Ends
    BY EndsFinite
  <1>2. Ends' \subseteq Ends \cup {Typed + 1} /\ Ends \subseteq Ends'
    BY EndsGrow
  <1> SUFFICES ASSUME NEW m \in 1 .. Len(outbox) PROVE \E k \in Ends' : Is(m, k)'
    BY DEF SentPart
  <1>3. PICK k \in Ends : Is(m, k)
    BY DEF SentPart
  <1>4. {e \in Ends' : e < k} = {e \in Ends : e < k} /\ {e \in Ends' : e <= k} = {e \in Ends : e <= k}
    <2>1. ~(Typed + 1 < k) /\ ~(Typed + 1 <= k)
      BY <1>1, <1>3
    <2> QED BY <1>2, <2>1, Zenon
  <1>5. Line(k)' = Line(k)
    BY <1>4 DEF Line
  <1>6. Is(m, k)'
    BY <1>3, <1>4, <1>5 DEF Is
  <1> QED BY <1>2, <1>6

\* At power on there is one line, of no characters, and it is open.
LEMMA LinesInit == UartAssumption /\ Init => LInv
  <1> SUFFICES ASSUME UartAssumption, Init PROVE LInv
    OBVIOUS
  <1>1. Typed = 0 /\ DOMAIN input = {} /\ Len(outbox) = 0 /\ BuffLen \in Nat \ {0}
    BY DEF Init, Typed, UartAssumption
  <1>2. Ends = {}
    BY <1>1 DEF Ends
  <1>3. Cardinality(Ends) = 0
    BY <1>2, FS_EmptySet
  <1>4. IsPrev(1, 0) /\ Filled(0) /\ 0 \in 0 .. Typed
    BY <1>1, <1>2 DEF IsPrev, Filled, Init, Slot
  <1>5. Open = 1 /\ ~uart_done /\ pc = "poll"
    BY <1>1 DEF Open, Init
  <1>6. OpenPart
    BY <1>4, <1>5 DEF OpenPart
  <1>7. CopyPart /\ TakenPart /\ SentPart
    BY <1>1, <1>3, <1>5 DEF CopyPart, TakenPart, SentPart
  <1> QED BY <1>6, <1>7 DEF LInv

\* An event is typed while the line is open: it goes behind what the line has,
\* or nowhere when the buffer is full.
LEMMA EventKeeps ==
  ASSUME UartAssumption, ShapePart, OpenPart, TakenPart, SentPart, ~uart_done,
         NEW c \in {"char", "eol", "button"}, input' = Append(input, c),
         uart_done' <=> c # "char", UNCHANGED <<pc, nb_bloc, buff, outbox>>,
         NEW p \in 0 .. Typed, IsPrev(Open, p), Filled(p)'
  PROVE  OpenPart' /\ CopyPart' /\ TakenPart' /\ SentPart'
  <1>1. Typed \in Nat /\ Ends \subseteq 1 .. Typed /\ Cardinality(Ends) \in Nat
    BY EndsFinite
  <1>2. /\ Typed' = Typed + 1
        /\ Ends' = IF c = "char" THEN Ends ELSE Ends \cup {Typed + 1}
        /\ Cardinality(Ends') = IF c = "char" THEN Cardinality(Ends) ELSE Cardinality(Ends) + 1
    BY EndsGrow
  <1>3. pc = "poll" /\ pc' = "poll" /\ Open = Typed + 1
    BY DEF OpenPart, Open
  <1>4. Open' = IF c = "char" THEN Typed + 2 ELSE Typed + 1
    <2>1. CASE c = "char"
      BY <1>1, <1>2, <2>1 DEF Open
    <2>2. CASE c # "char"
      BY <1>1, <1>2, <2>2 DEF Open
    <2> QED BY <2>1, <2>2
  <1>5. IsPrev(Open, p)'
    <2>1. p \in Ends \cup {0} /\ \A e \in Ends : e <= p
      BY <1>1, <1>3 DEF IsPrev
    <2>2. p \in Ends' \cup {0} /\ p < Open'
      BY <1>1, <1>2, <1>4, <2>1
    <2>3. ASSUME NEW e \in Ends', e < Open'
          PROVE  e <= p
      <3>1. e \in Ends
        BY <1>1, <1>2, <1>4, <2>3
      <3> QED BY <2>1, <3>1
    <2> QED BY <2>2, <2>3 DEF IsPrev
  <1>6. OpenPart'
    <2>1. p \in 0 .. Typed'
      BY <1>1, <1>2
    <2>2. uart_done' => Typed' \in Ends'
      BY <1>2
    <2> QED BY <1>3, <1>5, <2>1, <2>2 DEF OpenPart
  <1>7. CopyPart'
    BY <1>3 DEF CopyPart
  <1>8. TakenPart'
    <2>1. CASE c = "char"
      BY <1>1, <1>2, <1>3, <2>1 DEF TakenPart
    <2>2. CASE c # "char"
      BY <1>1, <1>2, <1>3, <2>2 DEF TakenPart
    <2> QED BY <2>1, <2>2
  <1>9. SentPart'
    BY LinesStay
  <1> QED BY <1>6, <1>7, <1>8, <1>9

\* Both interrupts, of someone who waits.
LEMMA InterruptKeepsLines ==
  ASSUME UartAssumption, ShapePart, LInv, polite, Interrupt
  PROVE  LInv'
  <1>0. OpenPart /\ TakenPart /\ SentPart /\ Typed \in Nat /\ BuffLen \in Nat \ {0}
    BY EndsFinite DEF LInv, UartAssumption
  <1>1. ~uart_done /\ UNCHANGED <<polite, pc, nb_bloc, buff, outbox>>
    BY DEF Interrupt, handle_uart_cmd, activate_chenillard, mainVars
  <1>2. PICK p \in 0 .. Typed : IsPrev(Open, p) /\ Filled(p)
    BY <1>0, <1>1 DEF OpenPart
  <1>3. /\ uart_ptr = IF Typed - p <= BuffLen THEN Typed - p ELSE BuffLen
        /\ \A i \in Slot : i < uart_ptr => uart_buff[i] = p + 1 + i
        /\ p \in Nat /\ p <= Typed /\ uart_ptr \in Nat /\ Slot' = Slot
        /\ uart_buff \in [Slot -> Nat]
    BY <1>0, <1>2 DEF Filled, Slot, ShapePart
  <1>4. ASSUME NEW c \in {"char", "eol"}, handle_uart_cmd(c)
        PROVE  LInv'
    <2>1. input' = Append(input, c) /\ (uart_done' <=> c # "char")
      BY <1>1, <1>4 DEF handle_uart_cmd, RaisesDone
    <2>2. Typed' = Typed + 1
      BY <2>1, EndsGrow
    <2>3. CASE Fits
      <3>1. uart_ptr = Typed - p /\ uart_ptr < BuffLen /\ uart_ptr \in Slot
        BY <1>0, <1>3, <2>3 DEF Fits, Slot
      <3>2. uart_buff' = [uart_buff EXCEPT ![uart_ptr] = Typed + 1] /\ uart_ptr' = uart_ptr + 1
        BY <1>4, <2>3 DEF handle_uart_cmd, Typed
      <3>3. \A i \in Slot : uart_buff'[i] = IF i = uart_ptr THEN Typed + 1 ELSE uart_buff[i]
        BY <1>3, <3>1, <3>2
      <3>4. uart_ptr' = IF Typed' - p <= BuffLen THEN Typed' - p ELSE BuffLen
        <4>1. Typed' - p = Typed - p + 1 /\ Typed - p \in Nat
          BY <1>0, <1>3, <2>2
        <4>2. Typed' - p <= BuffLen
          BY <1>0, <3>1, <4>1
        <4> QED BY <3>1, <3>2, <4>1, <4>2
      <3>5. ASSUME NEW i \in Slot, i < uart_ptr' PROVE uart_buff'[i] = p + 1 + i
        <4>1. i = uart_ptr \/ i < uart_ptr
          BY <1>3, <3>2, <3>5 DEF Slot
        <4> QED BY <1>0, <1>3, <3>1, <3>3, <4>1
      <3>6. Filled(p)'
        BY <1>3, <3>4, <3>5 DEF Filled
      <3> QED BY <1>0, <1>1, <1>2, <2>1, <3>6, EventKeeps DEF LInv
    <2>4. CASE ~Fits
      <3>1. uart_buff' = uart_buff /\ uart_ptr' = uart_ptr
        BY <1>4, <2>4 DEF handle_uart_cmd
      <3>2. uart_ptr = BuffLen /\ Typed - p >= BuffLen
        BY <1>0, <1>3, <2>4 DEF Fits
      <3>3. uart_ptr' = IF Typed' - p <= BuffLen THEN Typed' - p ELSE BuffLen
        BY <1>0, <1>3, <2>2, <3>1, <3>2
      <3>4. Filled(p)'
        BY <1>3, <3>1, <3>3 DEF Filled
      <3> QED BY <1>0, <1>1, <1>2, <2>1, <3>4, EventKeeps DEF LInv
    <2> QED BY <2>3, <2>4
  <1>5. ASSUME activate_chenillard
        PROVE  LInv'
    <2>1. /\ uart_ptr = 0 /\ input' = Append(input, "button") /\ uart_done' = TRUE
          /\ uart_buff' = [uart_buff EXCEPT ![0] = Typed + 1] /\ uart_ptr' = 1
      BY <1>5 DEF activate_chenillard, Typed
    <2>2. Typed' = Typed + 1 /\ p = Typed /\ 0 \in Slot
      BY <1>0, <1>3, <2>1, EndsGrow DEF Slot
    <2>3. uart_buff'[0] = p + 1 + 0
      BY <1>0, <1>3, <2>1, <2>2
    <2>4. \A i \in Slot : i < 1 => i = 0
      BY DEF Slot
    <2>5. uart_ptr' = IF Typed' - p <= BuffLen THEN Typed' - p ELSE BuffLen
      BY <1>0, <2>1, <2>2
    <2>6. Filled(p)'
      BY <1>3, <2>1, <2>3, <2>4, <2>5 DEF Filled
    <2> QED BY <1>0, <1>1, <1>2, <2>1, <2>6, EventKeeps DEF LInv
  <1> QED BY <1>4, <1>5 DEF Interrupt

\* The lines are those of the events, whatever loop() does.
LEMMA SameLines ==
  ASSUME UNCHANGED input
  PROVE  /\ Typed' = Typed /\ Ends' = Ends /\ Slot' = Slot
         /\ \A k : Line(k)' = Line(k)
         /\ \A k, p : IsPrev(k, p)' <=> IsPrev(k, p)
  BY DEF Typed, Ends, Slot, Line, IsPrev

\* The copy: a slot of buff is the slot it was taken from.
LEMMA CopyKeepsLines ==
  ASSUME UartAssumption, ShapePart, LInv, polite, Poll \/ CopySlot
  PROVE  LInv'
  <1>1. /\ UNCHANGED <<polite, input, uart_buff, uart_ptr, uart_done, outbox>> /\ uart_done
        /\ pc \in {"poll", "copy"} /\ pc' \in {"copy", "send"}
    BY DEF Poll, CopySlot, LInv, OpenPart
  <1>2. OpenPart'
    BY <1>1, SameLines DEF LInv, OpenPart, Open, Filled
  <1>3. TakenPart' /\ SentPart'
    BY <1>1, SameLines DEF LInv, TakenPart, SentPart, Is
  <1>4. CopyPart'
    <2>1. CASE Poll
      <3>1. Len(buff') = 0 /\ nb_bloc' = uart_ptr \div BlockLen
        BY <2>1 DEF Poll
      <3> QED BY <1>1, <3>1 DEF CopyPart
    <2>2. CASE CopySlot
      <3>1. /\ Len(buff) \in Nat /\ Len(buff') = Len(buff) + 1
            /\ \A i \in 1 .. Len(buff) : buff'[i] = buff[i]
            /\ buff'[Len(buff) + 1] = uart_buff[Len(buff)]
        BY <2>2 DEF CopySlot, ShapePart, UartAssumption, Slot
      <3>2. nb_bloc' = nb_bloc /\ pc = "copy"
        BY <2>2 DEF CopySlot
      <3>3. \A i \in 1 .. Len(buff) : buff[i] = uart_buff[i - 1]
        BY <3>2 DEF LInv, CopyPart
      <3>4. ASSUME NEW i \in 1 .. Len(buff') PROVE buff'[i] = uart_buff[i - 1]
        <4>1. CASE i \in 1 .. Len(buff)
          BY <3>1, <3>3, <4>1
        <4>2. CASE i = Len(buff) + 1
          <5>1. i - 1 = Len(buff)
            BY <3>1, <4>2
          <5> QED BY <3>1, <4>2, <5>1
        <4> QED BY <3>1, <4>1, <4>2
      <3> QED BY <1>1, <3>2, <3>4 DEF CopyPart, LInv
    <2> QED BY <2>1, <2>2
  <1> QED BY <1>2, <1>3, <1>4 DEF LInv

\* What is sent is the line that ended with the last event.
LEMMA SentIsLine ==
  ASSUME UartAssumption, ShapePart, LInv, polite, Send
  PROVE  /\ SubSeq(buff, 1, uart_ptr) = Line(Typed)
         /\ nb_bloc = Len(Line(Typed)) \div BlockLen
  <1>1. uart_done /\ pc = "send" /\ Typed \in Nat /\ Typed \in Ends /\ Ends \subseteq Nat /\ Open = Typed
        /\ BuffLen \in Nat \ {0} /\ Len(buff) = BuffLen
    BY EndsFinite DEF Send, LInv, OpenPart, Open, UartAssumption, ShapePart
  <1>2. PICK p \in 0 .. Typed : IsPrev(Typed, p) /\ Filled(p)
    BY <1>1 DEF LInv, OpenPart
  <1>3. Max({e \in Ends : e < Typed} \cup {0}) = p
    BY <1>1, <1>2, PrevIsMax
  <1>4. Min({Typed - p, BuffLen}) = uart_ptr
    BY <1>1, <1>2, MinOfTwo DEF Filled
  <1>5. Line(Typed) = [i \in 1 .. uart_ptr |-> p + i]
    BY <1>3, <1>4 DEF Line
  <1> DEFINE d == SubSeq(buff, 1, uart_ptr)
  <1>6. d \in Seq(Nat) /\ Len(d) = uart_ptr /\ uart_ptr \in 0 .. BuffLen
        /\ \A i \in 1 .. uart_ptr : d[i] = buff[i]
    BY SentOnce DEF ShapePart
  <1>7. d = [i \in 1 .. uart_ptr |-> d[i]]
    <2> HIDE DEF d
    <2>1. DOMAIN d = 1 .. uart_ptr /\ d \in [1 .. Len(d) -> Nat]
      BY <1>6, LenProperties
    <2> QED BY <1>6, <2>1
  <1>8. ASSUME NEW i \in 1 .. uart_ptr PROVE d[i] = p + i
    <2>1. i \in 1 .. Len(buff) /\ i - 1 \in Slot /\ i - 1 < uart_ptr /\ p + 1 + (i - 1) = p + i
      BY <1>1, <1>2, <1>6 DEF Slot
    <2>2. buff[i] = uart_buff[i - 1]
      BY <1>1, <2>1 DEF LInv, CopyPart
    <2>3. uart_buff[i - 1] = p + 1 + (i - 1)
      BY <1>2, <2>1 DEF Filled
    <2> HIDE DEF d
    <2> QED BY <1>6, <2>1, <2>2, <2>3
  <1>9. d = Line(Typed)
    <2> HIDE DEF d
    <2>1. [i \in 1 .. uart_ptr |-> d[i]] = [i \in 1 .. uart_ptr |-> p + i]
      BY <1>8
    <2> QED BY <1>5, <1>7, <2>1
  <1>10. nb_bloc = uart_ptr \div BlockLen
    BY <1>1 DEF LInv, CopyPart
  <1> HIDE DEF d
  <1> QED BY <1>6, <1>9, <1>10 DEF d

\* A line is taken.
LEMMA SendKeepsLines ==
  ASSUME UartAssumption, ShapePart, LInv, polite, Send
  PROVE  LInv'
  <1>1. /\ UNCHANGED <<polite, input, uart_buff, uart_ptr, uart_done>> /\ uart_done
        /\ pc = "send" /\ pc' = "wipe" /\ Typed \in Ends
    BY DEF Send, LInv, OpenPart
  <1>2. OpenPart' /\ CopyPart'
    BY <1>1, SameLines DEF OpenPart, CopyPart
  <1> DEFINE M == Len(outbox) + 1
  <1>3. /\ Len(outbox) \in Nat /\ Len(outbox') = M
        /\ outbox'[M] = [data |-> SubSeq(buff, 1, uart_ptr), blocks |-> nb_bloc]
        /\ \A m \in 1 .. Len(outbox) : outbox'[m] = outbox[m]
    BY SentOnce
  <1>4. Cardinality(Ends) = M /\ Cardinality({e \in Ends : e <= Typed}) = M
    <2>1. Ends \subseteq 1 .. Typed /\ Cardinality(Ends) \in Nat /\ Typed \in Nat
      BY EndsFinite
    <2>2. {e \in Ends : e <= Typed} = Ends
      BY EndsFinite
    <2>3. Len(outbox) = Cardinality(Ends) - 1
      BY <1>1 DEF LInv, TakenPart
    <2>4. Cardinality(Ends) = M
      BY <1>3, <2>1, <2>3
    <2> QED BY <2>2, <2>4
  <1>5. TakenPart'
    <2>1. Cardinality(Ends)' = Cardinality(Ends)
      BY <1>1, SameLines
    <2>2. ~(pc' \in {"poll", "copy", "send"})
      BY <1>1
    <2>3. Len(outbox') = Cardinality(Ends)'
      BY <1>3, <1>4, <2>1
    <2> QED BY <2>2, <2>3 DEF TakenPart
  <1>6. SentPart'
    <2> SUFFICES ASSUME NEW m \in 1 .. M PROVE \E k \in Ends : Is(m, k)'
      BY <1>3, SameLines, <1>1 DEF SentPart
    <2>1. CASE m = M
      <3>1. outbox'[m].data = Line(Typed) /\ outbox'[m].blocks = Len(Line(Typed)) \div BlockLen
        <4>1. SubSeq(buff, 1, uart_ptr) = Line(Typed) /\ nb_bloc = Len(Line(Typed)) \div BlockLen
          BY SentIsLine
        <4>2. outbox'[m] = [data |-> SubSeq(buff, 1, uart_ptr), blocks |-> nb_bloc]
          BY <1>3, <2>1
        <4> QED BY <4>1, <4>2
      <3>2. PICK n \in Ends : n = Typed
        BY <1>1
      <3>3. /\ Cardinality({e \in Ends : e <= n}) = m
            /\ outbox'[m].data = Line(n) /\ outbox'[m].blocks = Len(Line(n)) \div BlockLen
        BY <1>4, <2>1, <3>1, <3>2
      <3>4. Ends' = Ends /\ Line(n)' = Line(n)
        BY <1>1, SameLines
      <3>5. Is(m, n)'
        BY <3>3, <3>4 DEF Is
      <3> QED BY <3>5
    <2>2. CASE m # M
      <3>1. m \in 1 .. Len(outbox) /\ outbox'[m] = outbox[m]
        BY <1>3, <2>2
      <3>2. PICK k \in Ends : Is(m, k)
        BY <3>1 DEF LInv, SentPart
      <3>3. Is(m, k)'
        BY <1>1, <3>1, <3>2, SameLines DEF Is
      <3> QED BY <3>3
    <2> QED BY <2>1, <2>2
  <1> QED BY <1>2, <1>5, <1>6 DEF LInv

\* The buffer is empty when the next line may be typed.
LEMMA WipeKeepsLines ==
  ASSUME UartAssumption, ShapePart, LInv, polite, Wipe \/ Rewind \/ Release
  PROVE  LInv'
  <1>1. /\ UNCHANGED <<polite, input, outbox>> /\ uart_done /\ Typed \in Ends
        /\ pc \in {"wipe", "rewind", "release"}
    BY DEF Wipe, Rewind, Release, LInv, OpenPart
  <1>2. Typed \in Nat /\ Ends \subseteq 1 .. Typed
    BY EndsFinite
  <1>3. TakenPart' /\ SentPart'
    <2>1. SentPart'
      BY <1>1, SameLines DEF LInv, SentPart, Is
    <2>2. Len(outbox) = Cardinality(Ends)
      BY <1>1 DEF LInv, TakenPart
    <2>3. ~(uart_done' /\ pc' \in {"poll", "copy", "send"})
      BY ZenonT(40) DEF Wipe, Rewind, Release
    <2> QED BY <1>1, <2>1, <2>2, <2>3, SameLines DEF TakenPart
  <1>4. CASE Wipe \/ Rewind
    <2>1. uart_done' = uart_done /\ pc' \in {"rewind", "release"} /\ (pc' = "release" => uart_ptr' = 0)
      BY <1>4 DEF Wipe, Rewind, Rewound
    <2>2. OpenPart' /\ CopyPart'
      BY <1>1, <2>1, SameLines DEF OpenPart, CopyPart
    <2> QED BY <1>3, <2>2 DEF LInv
  <1>5. CASE Release
    <2>1. uart_ptr = 0 /\ uart_ptr' = 0 /\ ~uart_done' /\ pc' = "poll" /\ Typed' = Typed
      BY <1>1, <1>5, SameLines DEF Release, LInv, CopyPart
    <2>2. IsPrev(Open, Typed)'
      <3>1. Open' = Typed + 1
        BY <2>1 DEF Open
      <3>2. Typed \in Ends /\ Typed < Typed + 1 /\ \A e \in Ends : e <= Typed
        BY <1>1, <1>2
      <3> QED BY <1>1, <3>1, <3>2, SameLines DEF IsPrev
    <2>3. Filled(Typed)'
      BY <1>2, <2>1 DEF Filled, Slot, UartAssumption
    <2>4. OpenPart'
      BY <1>2, <2>1, <2>2, <2>3 DEF OpenPart
    <2>5. CopyPart'
      BY <2>1 DEF CopyPart
    <2> QED BY <1>3, <2>4, <2>5 DEF LInv
  <1> QED BY <1>4, <1>5

\* Every step keeps the lines.
LEMMA LinesNext == UartAssumption /\ CInv /\ LInv /\ [Next]_vars => LInv'
  <1> SUFFICES ASSUME UartAssumption, ShapePart, LInv, polite, [Next]_vars
               PROVE  LInv'
    <2>1. [Next]_vars => polite' = polite
      BY DEF Next, Loop, Interrupt, Poll, CopySlot, Send, Wipe, Rewind, Release,
             handle_uart_cmd, activate_chenillard, vars
    <2> QED BY ZenonT(40), <2>1 DEF CInv, LInv
  <1>1. CASE UNCHANGED vars
    <2>1. UNCHANGED <<polite, input, uart_buff, uart_ptr, uart_done, pc, nb_bloc, buff, outbox>>
      BY <1>1 DEF vars, mainVars
    <2>2. OpenPart'
      BY <2>1, SameLines DEF LInv, OpenPart, Open, IsPrev, Filled
    <2>3. CopyPart' /\ TakenPart'
      BY <2>1, SameLines DEF LInv, CopyPart, TakenPart
    <2>4. SentPart'
      BY <2>1, SameLines DEF LInv, SentPart, Is
    <2> QED BY <2>2, <2>3, <2>4 DEF LInv
  <1> QED BY <1>1, InterruptKeepsLines, CopyKeepsLines, SendKeepsLines, WipeKeepsLines DEF Next, Loop

\* What loop() sends is what was typed: no character twice however the
\* interrupts fall, and, from a typist who waits until a line is taken, every
\* line cut to the buffer, in order, with as many blocks as its length says.
THEOREM LinesSoundAlways == AllSpec => []LinesSound
  <1>0. UartAssumption
    BY PartAssumptions
  <1>1. AllInit => CInv /\ LInv
    BY <1>0, CharsInit, LinesInit DEF AllInit
  <1>2. CInv /\ LInv /\ [AllNext]_allVars => CInv' /\ LInv'
    <2>1. [AllNext]_allVars => [Next]_vars
      BY DEF AllNext, allVars
    <2> QED BY <1>0, <2>1, CharsNext, LinesNext
  <1>3. CInv /\ LInv => LinesSound
    <2>1. CInv => DOMAIN outbox = 1 .. Len(outbox)
      BY DEF CInv, ShapePart
    <2>2. CInv /\ LInv => MessagesAreLines
      BY <2>1, Zenon DEF LInv, SentPart, Is, MessagesAreLines
    <2> QED BY <2>2, OnePlace DEF LinesSound
  <1> QED BY <1>1, <1>2, <1>3, PTL DEF AllSpec

-----------------------------------------------------------------------------
(* The serial driver.                                                      *)

Byte    == Nat \X Nat
Holding == {"wait", "copy", "start", "release"}
Last    == Len(accepted)

\* The shape of the state.
SerialShape ==
  /\ masks \in BOOLEAN
  /\ uart \in [power : BOOLEAN, buff : Seq(Byte), sending : Nat, lock : BOOLEAN,
               callback : BOOLEAN]
  /\ fifo \in Seq(Byte) /\ wire \in Seq(Byte) /\ accepted \in Seq(Seq(Byte)) /\ quick \in Nat
  /\ callers \in [{"main", "irq"} -> [pc : Holding \cup {"idle", "flush"}, length : Nat,
                                      masked : BOOLEAN]]

\* The lock is held by the one caller that is inside serial_write.
LockPart ==
  /\ \A c \in {"main", "irq"} : callers[c].pc \in Holding => uart.lock
  /\ \A c, d \in {"main", "irq"} : callers[c].pc \in Holding /\ callers[d].pc \in Holding => c = d

\* Without power the UART is at rest.
PowerPart ==
  ~uart.power =>
    /\ fifo = <<>> /\ uart.sending = 0 /\ ~rxi
    /\ \A c \in {"main", "irq"} : callers[c].pc = "idle"

\* The buffer holds the last message, every byte of a message with its number.
BuffPart ==
  /\ uart.buff = IF accepted = <<>> THEN <<>> ELSE accepted[Last]
  /\ \A k \in 1 .. Last : \A i \in 1 .. Len(accepted[k]) : accepted[k][i] = <<k, i>>

\* While a message goes out, what was sent last is the byte before its position;
\* nothing goes out while the buffer is filled.
PositionPart ==
  /\ uart.sending # 0 =>
       /\ uart.sending <= Len(uart.buff) /\ S!Sent # <<>>
       /\ S!Sent[Len(S!Sent)] = <<Last, uart.sending>>
  /\ \A c \in {"main", "irq"} : callers[c].pc \in {"copy", "start"} => uart.sending = 0

\* Every message but the one that starts or goes out was sent to its last byte,
\* and no byte of one that has still to start.
Complete(k) == accepted[k] # <<>> => \E j \in 1 .. Len(S!Sent) : S!Sent[j] = <<k, Len(accepted[k])>>
Starting == \E c \in {"main", "irq"} : callers[c].pc = "start"
CompletePart ==
  /\ \A k \in 1 .. Last : k < Last \/ (uart.sending = 0 /\ ~Starting) => Complete(k)
  /\ Starting => Last # 0 /\ \A j \in 1 .. Len(S!Sent) : S!Sent[j][1] # Last

SerialInv ==
  /\ SerialShape /\ LockPart /\ PowerPart /\ BuffPart /\ PositionPart /\ CompletePart
  /\ MessagesWhole

-----------------------------------------------------------------------------
(* Sequences.                                                              *)

\* A byte added to the FIFO is added to what is sent or about to be.
LEMMA LongerFifo ==
  ASSUME NEW w \in Seq(Byte), NEW f \in Seq(Byte), NEW b \in Byte
  PROVE  /\ w \o Append(f, b) \in Seq(Byte)
         /\ Len(w \o Append(f, b)) = Len(w \o f) + 1
         /\ (w \o Append(f, b))[Len(w \o f) + 1] = b
         /\ \A j \in 1 .. Len(w \o f) : (w \o Append(f, b))[j] = (w \o f)[j]
  OBVIOUS

\* The oldest byte of the FIFO goes to the wire and nothing else changes.
LEMMA ShiftedFifo ==
  ASSUME NEW w \in Seq(Byte), NEW f \in Seq(Byte), f # <<>>
  PROVE  Append(w, Head(f)) \o Tail(f) = w \o f
  <1> DEFINE new == Append(w, Head(f)) \o Tail(f)
  <1>1. Head(f) \in Byte /\ Tail(f) \in Seq(Byte) /\ Head(f) = f[1] /\ Len(Tail(f)) = Len(f) - 1
    OBVIOUS
  <1>2. new \in Seq(Byte) /\ w \o f \in Seq(Byte) /\ Len(new) = Len(w \o f)
    BY <1>1
  <1>3. \A j \in 1 .. Len(w \o f) : new[j] = (w \o f)[j]
    BY <1>1
  <1> HIDE DEF new
  <1>4. new = w \o f
    BY <1>2, <1>3
  <1> QED BY <1>4 DEF new

-----------------------------------------------------------------------------
(* Messages.                                                               *)

\* What MessagesWhole says of one byte.
WholeAt(s, a, j) == s[j][1] # 0 =>
  LET c == s[j][1]
      i == s[j][2]
  IN  /\ c \in DOMAIN a /\ i \in DOMAIN a[c]
      /\ i > 1 => j > 1 /\ s[j - 1] = <<c, i - 1>>
      /\ i = 1 => \A k \in 1 .. (j - 1) : s[k][1] < c
      /\ i = 1 => \A d \in 1 .. (c - 1) : a[d] # <<>> =>
           \E k \in 1 .. (j - 1) : s[k] = <<d, Len(a[d])>>

LEMMA WholeByte == SerialShape => (MessagesWhole <=> \A j \in 1 .. Len(S!Sent) : WholeAt(S!Sent, accepted, j))
  <1> SUFFICES ASSUME SerialShape
               PROVE  MessagesWhole <=> \A j \in 1 .. Len(S!Sent) : WholeAt(S!Sent, accepted, j)
    OBVIOUS
  <1>1. DOMAIN S!Sent = 1 .. Len(S!Sent)
    BY DEF SerialShape, S!Sent
  <1> QED BY <1>1, Zenon DEF MessagesWhole, S!MessagesWhole, WholeAt

LEMMA WholeByteNext ==
  SerialShape' => (MessagesWhole' <=> \A j \in 1 .. Len(S!Sent') : WholeAt(S!Sent', accepted', j))
  <1> SUFFICES ASSUME SerialShape'
               PROVE  MessagesWhole' <=> \A j \in 1 .. Len(S!Sent') : WholeAt(S!Sent', accepted', j)
    OBVIOUS
  <1>1. DOMAIN S!Sent' = 1 .. Len(S!Sent')
    BY DEF SerialShape, S!Sent
  <1> QED BY <1>1, Zenon DEF MessagesWhole, S!MessagesWhole, WholeAt

\* It depends on the bytes up to that one only.
LEMMA WholeOfPrefix ==
  ASSUME NEW s \in Seq(Byte), NEW t \in Seq(Byte), NEW a, NEW j \in 1 .. Len(s), Len(s) <= Len(t),
         \A k \in 1 .. Len(s) : t[k] = s[k],
         WholeAt(s, a, j)
  PROVE  WholeAt(t, a, j)
  <1>1. \A k \in 1 .. j : t[k] = s[k]
    OBVIOUS
  <1>2. j > 1 => t[j - 1] = s[j - 1]
    OBVIOUS
  <1>3. \A k \in 1 .. (j - 1) : t[k] = s[k]
    OBVIOUS
  <1>4. t[j] = s[j]
    OBVIOUS
  <1> QED BY <1>2, <1>3, <1>4 DEF WholeAt

\* A message that is accepted later changes nothing of it.
LEMMA WholeOfMore ==
  ASSUME NEW s \in Seq(Byte), NEW a \in Seq(Seq(Byte)), NEW m \in Seq(Byte), NEW j \in 1 .. Len(s),
         WholeAt(s, a, j)
  PROVE  WholeAt(s, Append(a, m), j)
  <1> DEFINE b == Append(a, m)
  <1>1. DOMAIN a = 1 .. Len(a) /\ DOMAIN b = 1 .. (Len(a) + 1) /\ \A d \in 1 .. Len(a) : b[d] = a[d]
    OBVIOUS
  <1> HIDE DEF b
  <1>2. WholeAt(s, b, j)
    <2> SUFFICES ASSUME s[j][1] # 0 PROVE WholeAt(s, b, j)
      BY DEF WholeAt
    <2> DEFINE c == s[j][1]
               i == s[j][2]
    <2>1. /\ c \in 1 .. Len(a) /\ i \in DOMAIN a[c]
          /\ i > 1 => j > 1 /\ s[j - 1] = <<c, i - 1>>
          /\ i = 1 => \A k \in 1 .. (j - 1) : s[k][1] < c
          /\ i = 1 => \A d \in 1 .. (c - 1) : a[d] # <<>> =>
               \E k \in 1 .. (j - 1) : s[k] = <<d, Len(a[d])>>
      BY <1>1 DEF WholeAt
    <2> HIDE DEF c, i
    <2>2. c \in DOMAIN b /\ b[c] = a[c] /\ \A d \in 1 .. (c - 1) : b[d] = a[d]
      BY <1>1, <2>1
    <2>3. i = 1 => \A d \in 1 .. (c - 1) : b[d] # <<>> =>
               \E k \in 1 .. (j - 1) : s[k] = <<d, Len(b[d])>>
      BY <2>1, <2>2
    <2>4. i \in DOMAIN b[c]
      BY <2>1, <2>2
    <2> QED BY <2>1, <2>2, <2>3, <2>4 DEF WholeAt, c, i
  <1> QED BY <1>2 DEF b

-----------------------------------------------------------------------------
(* The steps.                                                              *)

\* At power on nothing was sent.
LEMMA SerialInit == PartAssumptions /\ AllInit => SerialInv
  <1> SUFFICES ASSUME PartAssumptions, AllInit PROVE SerialInv
    OBVIOUS
  <1>1. /\ masks \in BOOLEAN /\ uart = S!Off /\ fifo = <<>> /\ rxi = FALSE /\ wire = <<>> /\ accepted = <<>> /\ quick = 0
        /\ callers = [c \in {"main", "irq"} |-> S!Resting]
    BY DEF AllInit, S!Init, S!Callers
  <1>2. S!Sent = <<>> /\ Last = 0
    BY <1>1 DEF S!Sent, Last
  <1>3. SerialShape
    BY <1>1 DEF SerialShape, S!Off, S!Resting, Holding
  <1>4. MessagesWhole
    BY <1>2, <1>3, WholeByte
  <1> QED BY <1>1, <1>2, <1>3, <1>4
          DEF SerialInv, LockPart, PowerPart, BuffPart, PositionPart, CompletePart, Starting,
              S!Off, S!Resting, Holding

\* Where a caller is after its step.
LEMMA CallerMoves ==
  ASSUME SerialShape, NEW c \in {"main", "irq"},
         NEW r \in [pc : Holding \cup {"idle", "flush"}, length : Nat, masked : BOOLEAN],
         callers' = [callers EXCEPT ![c] = r]
  PROVE  /\ callers' \in [{"main", "irq"} -> [pc : Holding \cup {"idle", "flush"}, length : Nat,
                                              masked : BOOLEAN]]
         /\ callers'[c] = r /\ \A d \in {"main", "irq"} : d # c => callers'[d] = callers[d]
  BY DEF SerialShape

\* A caller that goes to another place keeps what it was given.
LEMMA CallerGoes ==
  ASSUME SerialShape, NEW c \in {"main", "irq"}, NEW at \in Holding \cup {"idle", "flush"},
         S!Goto(c, at)
  PROVE  /\ callers' \in [{"main", "irq"} -> [pc : Holding \cup {"idle", "flush"}, length : Nat,
                                              masked : BOOLEAN]]
         /\ callers'[c].pc = at /\ \A d \in {"main", "irq"} : d # c => callers'[d] = callers[d]
  <1> DEFINE r == [callers[c] EXCEPT !.pc = at]
  <1>1. r \in [pc : Holding \cup {"idle", "flush"}, length : Nat, masked : BOOLEAN] /\ r.pc = at
    BY DEF SerialShape
  <1>2. callers' = [callers EXCEPT ![c] = r]
    BY DEF S!Goto, SerialShape
  <1> HIDE DEF r
  <1> QED BY <1>1, <1>2, CallerMoves

\* A byte of a message is of one that was accepted.
LEMMA NumberKnown ==
  ASSUME SerialInv, NEW j \in 1 .. Len(S!Sent)
  PROVE  S!Sent[j][1] \in 0 .. Last
  <1>1. S!Sent \in Seq(Byte) /\ accepted \in Seq(Seq(Byte)) /\ Last = Len(accepted)
    BY DEF SerialInv, SerialShape, S!Sent, Last
  <1>2. S!Sent[j][1] # 0 => S!Sent[j][1] \in DOMAIN accepted
    BY WholeByte, Zenon DEF SerialInv, WholeAt
  <1>3. S!Sent[j][1] \in Nat
    BY <1>1 DEF Byte
  <1>4. DOMAIN accepted = 1 .. Last /\ Last \in Nat
    BY <1>1
  <1> QED BY <1>2, <1>3, <1>4

\* A caller that moves, nothing being sent or accepted.
LEMMA MoveKeeps ==
  ASSUME SerialInv, NEW c \in {"main", "irq"}, S!Sent' = S!Sent,
         UNCHANGED <<masks, uart, fifo, wire, accepted, rxi>>, quick' \in Nat,
         callers' \in [{"main", "irq"} -> [pc : Holding \cup {"idle", "flush"}, length : Nat,
                                           masked : BOOLEAN]],
         \A d \in {"main", "irq"} : d # c => callers'[d] = callers[d],
         uart.power \/ callers'[c].pc = "idle",
         callers'[c].pc \in Holding => callers[c].pc \in Holding,
         callers'[c].pc = "copy" => uart.sending = 0,
         callers'[c].pc # "start",
         callers[c].pc = "start" => Complete(Last)
  PROVE  SerialInv'
  <1>1. SerialShape'
    BY DEF SerialInv, SerialShape
  <1>2. MessagesWhole'
    BY ZenonT(40), <1>1, WholeByte DEF SerialInv, MessagesWhole, S!MessagesWhole
  <1>3. LockPart' /\ PowerPart' /\ BuffPart' /\ PositionPart'
    BY ZenonT(40) DEF SerialInv, LockPart, PowerPart, BuffPart, PositionPart, Last
  <1>4. \A k : Complete(k)' <=> Complete(k)
    BY DEF Complete
  <1>5. CompletePart'
    <2>1. Starting' => Starting
      BY DEF Starting
    <2>2. uart.sending = 0 /\ ~Starting' /\ Starting => Complete(Last)
      BY DEF Starting
    <2> QED BY <1>4, <2>1, <2>2 DEF SerialInv, CompletePart, Last, SerialShape
  <1> QED BY <1>1, <1>2, <1>3, <1>5 DEF SerialInv

\* A byte that is added: an earlier byte stays where it is, so that what was sent
\* stays sent and whole, if the new byte is.
LEMMA ByteAdded ==
  ASSUME SerialInv, NEW b \in Byte, fifo' = Append(fifo, b), UNCHANGED <<wire, accepted>>,
         b[1] # 0 =>
           /\ b[1] \in 1 .. Last /\ b[2] \in 1 .. Len(accepted[b[1]])
           /\ b[2] > 1 => S!Sent # <<>> /\ S!Sent[Len(S!Sent)] = <<b[1], b[2] - 1>>
           /\ b[2] = 1 => \A k \in 1 .. Len(S!Sent) : S!Sent[k][1] < b[1]
           /\ b[2] = 1 => \A d \in 1 .. (b[1] - 1) : Complete(d)
  PROVE  /\ fifo' \in Seq(Byte) /\ S!Sent' \in Seq(Byte) /\ S!Sent' # <<>>
         /\ Len(S!Sent') = Len(S!Sent) + 1 /\ S!Sent'[Len(S!Sent')] = b
         /\ \A j \in 1 .. Len(S!Sent) : S!Sent'[j] = S!Sent[j]
         /\ \A j \in 1 .. Len(S!Sent') : WholeAt(S!Sent', accepted, j)
         /\ \A k : Complete(k) => Complete(k)'
  <1> DEFINE s == S!Sent
             t == S!Sent'
  <1>1. s \in Seq(Byte) /\ accepted \in Seq(Seq(Byte)) /\ \A j \in 1 .. Len(s) : WholeAt(s, accepted, j)
    BY WholeByte DEF SerialInv, SerialShape, S!Sent
  <1>2. /\ t \in Seq(Byte) /\ Len(t) = Len(s) + 1 /\ t[Len(s) + 1] = b
        /\ \A j \in 1 .. Len(s) : t[j] = s[j]
    <2>1. \A w, f \in Seq(Byte), c \in Byte :
            /\ w \o Append(f, c) \in Seq(Byte)
            /\ Len(w \o Append(f, c)) = Len(w \o f) + 1
            /\ (w \o Append(f, c))[Len(w \o f) + 1] = c
            /\ \A j \in 1 .. Len(w \o f) : (w \o Append(f, c))[j] = (w \o f)[j]
      BY LongerFifo
    <2>2. wire \in Seq(Byte) /\ fifo \in Seq(Byte)
      BY DEF SerialInv, SerialShape
    <2>3. s = wire \o fifo /\ t = wire \o Append(fifo, b)
      BY DEF S!Sent
    <2>4. /\ wire \o Append(fifo, b) \in Seq(Byte)
          /\ Len(wire \o Append(fifo, b)) = Len(wire \o fifo) + 1
          /\ (wire \o Append(fifo, b))[Len(wire \o fifo) + 1] = b
          /\ \A j \in 1 .. Len(wire \o fifo) : (wire \o Append(fifo, b))[j] = (wire \o fifo)[j]
      BY <2>1, <2>2, Zenon
    <2> HIDE DEF s, t
    <2> QED BY <2>3, <2>4, Zenon
  <1>3. /\ b[1] # 0 =>
           /\ b[1] \in 1 .. Last /\ b[2] \in 1 .. Len(accepted[b[1]])
           /\ b[2] > 1 => s # <<>> /\ s[Len(s)] = <<b[1], b[2] - 1>>
           /\ b[2] = 1 => \A k \in 1 .. Len(s) : s[k][1] < b[1]
           /\ b[2] = 1 => \A d \in 1 .. (b[1] - 1) : accepted[d] # <<>> =>
                \E j \in 1 .. Len(s) : s[j] = <<d, Len(accepted[d])>>
    BY Zenon DEF Complete
  <1>4. \A k : Complete(k) => Complete(k)'
    <2> SUFFICES ASSUME NEW k, Complete(k), accepted[k] # <<>> 
                 PROVE  \E j \in 1 .. Len(t) : t[j] = <<k, Len(accepted[k])>>
      BY DEF Complete
    <2>1. PICK j \in 1 .. Len(s) : s[j] = <<k, Len(accepted[k])>>
      BY DEF Complete
    <2>2. j \in 1 .. Len(t) /\ t[j] = s[j]
      BY <1>1, <1>2
    <2> QED BY <2>1, <2>2
  <1>5. fifo' \in Seq(Byte)
    BY DEF SerialInv, SerialShape
  <1> HIDE DEF s, t
  <1>6. \A j \in 1 .. Len(s) : WholeAt(t, accepted, j)
    <2> TAKE j \in 1 .. Len(s)
    <2>1. Len(s) <= Len(t) /\ \A k \in 1 .. Len(s) : t[k] = s[k]
      BY <1>1, <1>2
    <2> QED BY <1>1, <1>2, <2>1, WholeOfPrefix
  <1>7. WholeAt(t, accepted, Len(s) + 1)
    <2> DEFINE n == Len(s)
    <2>1. n \in Nat /\ (s # <<>> => n > 0)
      BY <1>1
    <2> HIDE DEF n
    <2>3. s # <<>> => t[n] = s[n]
      BY <1>2, <2>1 DEF n
    <2>4. \A k \in 1 .. n : t[k] = s[k]
      BY <1>2 DEF n
    <2>5. t[n + 1] = b
      BY <1>2 DEF n
    <2> DEFINE c == b[1]
               i == b[2]
    <2>6. c \in Nat /\ i \in Nat
      BY DEF Byte
    <2>7. c # 0 =>
            /\ c \in DOMAIN accepted /\ i \in DOMAIN accepted[c]
            /\ i > 1 => n + 1 > 1 /\ t[n] = <<c, i - 1>>
            /\ i = 1 => \A k \in 1 .. n : t[k][1] < c
            /\ i = 1 => \A d \in 1 .. (c - 1) : accepted[d] # <<>> =>
                 \E k \in 1 .. n : t[k] = <<d, Len(accepted[d])>>
      <3> SUFFICES ASSUME c # 0
                   PROVE  /\ c \in DOMAIN accepted /\ i \in DOMAIN accepted[c]
                          /\ i > 1 => n + 1 > 1 /\ t[n] = <<c, i - 1>>
                          /\ i = 1 => \A k \in 1 .. n : t[k][1] < c
                          /\ i = 1 => \A d \in 1 .. (c - 1) : accepted[d] # <<>> =>
                               \E k \in 1 .. n : t[k] = <<d, Len(accepted[d])>>
        OBVIOUS
      <3>1. c \in 1 .. Len(accepted) /\ i \in 1 .. Len(accepted[c])
        BY <1>3 DEF Last
      <3>2. accepted[c] \in Seq(Byte)
        BY <1>1, <3>1
      <3>3. c \in DOMAIN accepted /\ i \in DOMAIN accepted[c]
        BY SMTT(30), <1>1, <3>1, <3>2
      <3>4. i > 1 => n + 1 > 1 /\ t[n] = <<c, i - 1>>
        BY <1>3, <2>1, <2>3 DEF n
      <3>5. i = 1 => \A k \in 1 .. n : t[k][1] < c
        BY <1>3, <2>4 DEF n
      <3>6. i = 1 => \A d \in 1 .. (c - 1) : accepted[d] # <<>> =>
                 \E k \in 1 .. n : t[k] = <<d, Len(accepted[d])>>
        BY <1>3, <2>4 DEF n
      <3> QED BY <3>3, <3>4, <3>5, <3>6
    <2>8. WholeAt(t, accepted, n + 1)
      <3> HIDE DEF c, i
      <3>1. t[n + 1][1] = c /\ t[n + 1][2] = i
        BY <2>5 DEF c, i
      <3> DEFINE j == n + 1
      <3>2. j - 1 = n /\ (n + 1 > 1 => j > 1)
        BY <2>1
      <3>3. t[j][1] = c /\ t[j][2] = i
        BY <3>1
      <3> HIDE DEF j
      <3>4. WholeAt(t, accepted, j)
        <4>1. c # 0 =>
                /\ c \in DOMAIN accepted /\ i \in DOMAIN accepted[c]
                /\ i > 1 => j > 1 /\ t[j - 1] = <<c, i - 1>>
                /\ i = 1 => \A k \in 1 .. (j - 1) : t[k][1] < c
                /\ i = 1 => \A d \in 1 .. (c - 1) : accepted[d] # <<>> =>
                     \E k \in 1 .. (j - 1) : t[k] = <<d, Len(accepted[d])>>
          BY <2>7, <3>2
        <4> QED BY <3>3, <4>1, Zenon DEF WholeAt
      <3> QED BY <3>4 DEF j
    <2> QED BY <2>8 DEF n
  <1>8. \A j \in 1 .. Len(t) : WholeAt(t, accepted, j)
    BY <1>1, <1>2, <1>6, <1>7
  <1>9. t # <<>> /\ t[Len(t)] = b
    BY <1>1, <1>2
  <1> QED BY <1>2, <1>4, <1>5, <1>8, <1>9 DEF s, t

\* A quick byte or an echo, while no message goes out.
LEMMA QuickKeeps ==
  ASSUME SerialInv, NEW n \in Nat, S!Transmit(<<0, n>>), uart.sending = 0, uart.power,
         UNCHANGED <<masks, wire, accepted, uart, callers>>, quick' \in Nat
  PROVE  SerialInv'
  <1> DEFINE b == <<0, n>>
  <1>1. b \in Byte /\ b[1] = 0 /\ fifo' = Append(fifo, b)
    BY DEF Byte, S!Transmit
  <1> HIDE DEF b
  <1>2. /\ fifo' \in Seq(Byte) /\ S!Sent' \in Seq(Byte) /\ S!Sent' # <<>>
        /\ Len(S!Sent') = Len(S!Sent) + 1 /\ S!Sent'[Len(S!Sent')] = b
        /\ \A j \in 1 .. Len(S!Sent) : S!Sent'[j] = S!Sent[j]
        /\ \A j \in 1 .. Len(S!Sent') : WholeAt(S!Sent', accepted, j)
        /\ \A k : Complete(k) => Complete(k)'
    BY <1>1, ByteAdded
  <1>3. SerialShape'
    BY <1>2 DEF SerialInv, SerialShape
  <1>4. MessagesWhole'
    <2>1. \A j \in 1 .. Len(S!Sent') : WholeAt(S!Sent', accepted', j)
      BY <1>2
    <2> QED BY <1>3, <2>1, WholeByteNext
  <1>5. LockPart' /\ PowerPart' /\ BuffPart' /\ PositionPart'
    BY DEF SerialInv, LockPart, PowerPart, BuffPart, PositionPart, Last
  <1>6. CompletePart'
    <2>1. Starting' = Starting /\ Last' = Last /\ Last \in Nat
      BY DEF Starting, Last, SerialInv, SerialShape
    <2>2. Starting => \A j \in 1 .. Len(S!Sent') : S!Sent'[j][1] # Last
      <3> SUFFICES ASSUME Starting, NEW j \in 1 .. Len(S!Sent') PROVE S!Sent'[j][1] # Last
        OBVIOUS
      <3>1. CASE j \in 1 .. Len(S!Sent)
        BY <1>2, <3>1 DEF SerialInv, CompletePart
      <3>2. CASE j = Len(S!Sent')
        BY <1>1, <1>2, <3>2 DEF SerialInv, CompletePart
      <3>3. Len(S!Sent) \in Nat
        BY DEF SerialInv, SerialShape, S!Sent
      <3> QED BY <1>2, <3>1, <3>2, <3>3
    <2> QED BY <1>2, <2>1, <2>2 DEF SerialInv, CompletePart
  <1> QED BY <1>3, <1>4, <1>5, <1>6 DEF SerialInv

\* The next byte of a message, or its end: whoever has read that the transmitter
\* is empty.
LEMMA CheckTxKeeps ==
  ASSUME SerialInv, S!CheckTx, UNCHANGED <<masks, wire, accepted, callers, quick, rxi>>
  PROVE  SerialInv'
  <1> DEFINE p == uart.sending
  <1>1. /\ SerialShape /\ p \in Nat /\ Last \in Nat /\ uart.buff \in Seq(Byte)
        /\ p # 0 => accepted # <<>> /\ uart.buff = accepted[Last] /\ Last \in 1 .. Last
    <2>1. SerialShape /\ p \in Nat /\ Last \in Nat /\ uart.buff \in Seq(Byte)
      BY DEF SerialInv, SerialShape, Last
    <2>2. p # 0 => uart.buff # <<>>
      BY <2>1 DEF SerialInv, PositionPart
    <2>3. accepted # <<>> => Last # 0
      BY DEF Last, SerialInv, SerialShape
    <2> QED BY <2>1, <2>2, <2>3 DEF SerialInv, BuffPart
  <1>2. LockPart' /\ Starting' = Starting /\ Last' = Last
    <2>1. uart'.lock = uart.lock
      BY DEF S!CheckTx, SerialInv, SerialShape
    <2> QED BY <2>1 DEF SerialInv, LockPart, Starting, Last
  <1>3. BuffPart'
    <2>1. uart'.buff = uart.buff
      BY DEF S!CheckTx, SerialInv, SerialShape
    <2> QED BY <2>1 DEF SerialInv, BuffPart, Last
  <1>4. CASE S!More
    <2> DEFINE b == uart.buff[p + 1]
    <2>1. /\ p # 0 /\ p + 1 <= Len(uart.buff) /\ fifo' = Append(fifo, b)
          /\ uart' = [uart EXCEPT !.sending = @ + 1]
      BY <1>1, <1>4 DEF S!CheckTx, S!Transmit, S!More
    <2>2. b \in Byte /\ b = <<Last, p + 1>> /\ b[1] = Last /\ b[2] = p + 1
          /\ p + 1 \in 1 .. Len(accepted[Last])
      <3>1. p + 1 \in 1 .. Len(uart.buff)
        BY <1>1, <2>1
      <3>2. b \in Byte
        BY <1>1, <3>1
      <3>3. p + 1 \in 1 .. Len(accepted[Last])
        BY <1>1, <2>1, <3>1
      <3>4. b = <<Last, p + 1>>
        BY <1>1, <2>1, <3>3 DEF SerialInv, BuffPart
      <3> QED BY <3>2, <3>3, <3>4
    <2>3. S!Sent # <<>> /\ S!Sent[Len(S!Sent)] = <<Last, p>>
      BY <2>1 DEF SerialInv, PositionPart
    <2> HIDE DEF b
    <2>4. b[1] # 0 =>
           /\ b[1] \in 1 .. Last /\ b[2] \in 1 .. Len(accepted[b[1]])
           /\ b[2] > 1 => S!Sent # <<>> /\ S!Sent[Len(S!Sent)] = <<b[1], b[2] - 1>>
           /\ b[2] = 1 => \A k \in 1 .. Len(S!Sent) : S!Sent[k][1] < b[1]
           /\ b[2] = 1 => \A d \in 1 .. (b[1] - 1) : Complete(d)
      <3>1. b[2] # 1 /\ b[2] - 1 = p
        BY <1>1, <2>1, <2>2
      <3> QED BY <1>1, <2>1, <2>2, <2>3, <3>1
    <2>5. /\ fifo' \in Seq(Byte) /\ S!Sent' \in Seq(Byte) /\ S!Sent' # <<>>
          /\ Len(S!Sent') = Len(S!Sent) + 1 /\ S!Sent'[Len(S!Sent')] = b
          /\ \A j \in 1 .. Len(S!Sent) : S!Sent'[j] = S!Sent[j]
          /\ \A j \in 1 .. Len(S!Sent') : WholeAt(S!Sent', accepted, j)
          /\ \A k : Complete(k) => Complete(k)'
      BY <2>1, <2>2, <2>4, ByteAdded
    <2>6. SerialShape' /\ uart'.sending = p + 1 /\ uart'.buff = uart.buff /\ uart'.power = uart.power
      <3> DEFINE q == p + 1
      <3>1. q \in Nat /\ uart' = [uart EXCEPT !.sending = q]
        BY <1>1, <2>1
      <3> HIDE DEF q
      <3>2. uart'.sending = q /\ uart'.buff = uart.buff /\ uart'.power = uart.power
        BY <1>1, <3>1 DEF SerialShape
      <3>3. SerialShape'
        BY <1>1, <2>5, <3>1 DEF SerialShape
      <3> QED BY <3>2, <3>3 DEF q
    <2>7. MessagesWhole'
      BY <2>5, <2>6, WholeByteNext
    <2>8. ~Starting /\ \A c \in {"main", "irq"} : callers[c].pc \notin {"copy", "start"}
      BY <2>1 DEF SerialInv, PositionPart, Starting
    <2>9. PowerPart' /\ PositionPart'
      BY <1>2, <2>1, <2>2, <2>5, <2>6, <2>8 DEF SerialInv, PowerPart, PositionPart
    <2>10. CompletePart'
      BY <1>1, <1>2, <2>5, <2>6, <2>8 DEF SerialInv, CompletePart
    <2> QED BY <1>2, <1>3, <2>6, <2>7, <2>9, <2>10 DEF SerialInv
  <1>5. CASE ~S!More
    <2>1. uart' = [uart EXCEPT !.sending = 0] /\ fifo' = fifo /\ S!Sent' = S!Sent
      BY <1>5 DEF S!CheckTx, S!Done, S!Sent
    <2>2. SerialShape' /\ uart'.sending = 0 /\ uart'.buff = uart.buff /\ uart'.power = uart.power
      BY <1>1, <2>1 DEF SerialShape
    <2>3. MessagesWhole'
      BY <2>1, <2>2, WholeByteNext, WholeByte DEF SerialInv
    <2>4. PowerPart' /\ PositionPart'
      BY <2>1, <2>2 DEF SerialInv, PowerPart, PositionPart
    <2>5. \A k : Complete(k)' <=> Complete(k)
      BY <2>1 DEF Complete
    <2>6. p # 0 => Complete(Last)
      <3> SUFFICES ASSUME p # 0 PROVE Complete(Last)
        OBVIOUS
      <3>1. Len(uart.buff) = p
        BY <1>1, <1>5 DEF S!More, SerialInv, PositionPart
      <3>2. S!Sent # <<>> /\ S!Sent[Len(S!Sent)] = <<Last, p>> /\ S!Sent \in Seq(Byte)
        BY DEF SerialInv, PositionPart, SerialShape, S!Sent
      <3>3. Len(S!Sent) \in 1 .. Len(S!Sent)
        BY <3>2
      <3> QED BY <1>1, <3>1, <3>2, <3>3 DEF Complete
    <2>7. CompletePart'
      BY <1>1, <1>2, <2>1, <2>2, <2>5, <2>6 DEF SerialInv, CompletePart
    <2> QED BY <1>2, <1>3, <2>2, <2>3, <2>4, <2>7 DEF SerialInv
  <1> QED BY <1>4, <1>5

\* Filling the buffer: a message that was accepted, and of which nothing was sent.
LEMMA CopyKeeps ==
  ASSUME SerialInv, PartAssumptions, NEW c \in {"main", "irq"}, S!CopyOut(c)
  PROVE  SerialInv'
  <1> DEFINE n == S!Min({callers[c].length, OutSize})
             m == [i \in 1 .. n |-> <<Len(accepted) + 1, i>>]
  <1>1. n \in Nat
    <2> DEFINE l == callers[c].length
               Both == {l, OutSize}
    <2>1. l \in Nat /\ OutSize \in Nat
      BY DEF SerialInv, SerialShape, PartAssumptions, S!SerialAssumption
    <2>2. \E x \in Both : \A y \in Both : x =< y
      BY <2>1
    <2>3. Both \subseteq Nat
      BY <2>1
    <2> HIDE DEF Both
    <2>4. S!Min(Both) \in Both
      BY <2>2, Zenon DEF S!Min
    <2> QED BY <2>3, <2>4 DEF Both
  <1>2. uart' = [uart EXCEPT !.buff = m] /\ accepted' = Append(accepted, m)
    BY DEF S!CopyOut
  <1>3. UNCHANGED <<masks, fifo, txi, rxi, wire, quick>> /\ callers[c].pc = "copy"
    BY DEF S!CopyOut, S!At
  <1> HIDE DEF n
  <1>4. m \in Seq(Byte) /\ Len(m) = n /\ \A i \in 1 .. n : m[i] = <<Last + 1, i>>
    BY <1>1 DEF Byte, SerialInv, SerialShape, Last
  <1> HIDE DEF m
  <1>5. /\ callers' \in [{"main", "irq"} -> [pc : Holding \cup {"idle", "flush"}, length : Nat,
                                             masked : BOOLEAN]]
        /\ callers'[c].pc = "start" /\ \A d \in {"main", "irq"} : d # c => callers'[d] = callers[d]
    BY CallerGoes DEF S!CopyOut, SerialInv, Holding
  <1>6. /\ accepted' \in Seq(Seq(Byte)) /\ Last \in Nat /\ Last' = Last + 1 /\ accepted' # <<>>
        /\ accepted'[Last'] = m /\ \A k \in 1 .. Last : accepted'[k] = accepted[k]
    <2>1. accepted \in Seq(Seq(Byte)) /\ Last = Len(accepted) /\ Last' = Len(accepted')
      BY DEF SerialInv, SerialShape, Last
    <2>2. /\ accepted' \in Seq(Seq(Byte)) /\ Len(accepted') = Len(accepted) + 1
          /\ accepted'[Len(accepted) + 1] = m
          /\ \A k \in 1 .. Len(accepted) : accepted'[k] = accepted[k]
      BY <1>2, <1>4, <2>1
    <2> QED BY <2>1, <2>2
  <1>7. SerialShape' /\ uart'.buff = m /\ uart'.sending = uart.sending /\ uart'.lock = uart.lock
        /\ uart'.power = uart.power
    BY <1>2, <1>3, <1>4, <1>5, <1>6 DEF SerialInv, SerialShape
  <1>8. uart.sending = 0
    BY <1>3 DEF SerialInv, PositionPart
  <1>9. S!Sent' = S!Sent /\ S!Sent \in Seq(Byte)
    BY <1>3 DEF S!Sent, SerialInv, SerialShape
  <1>10. MessagesWhole'
    <2>1. \A j \in 1 .. Len(S!Sent) : WholeAt(S!Sent, accepted, j)
      BY WholeByte DEF SerialInv
    <2>2. \A j \in 1 .. Len(S!Sent) : WholeAt(S!Sent, Append(accepted, m), j)
      BY <1>4, <1>9, <2>1, WholeOfMore DEF SerialInv, SerialShape
    <2> QED BY <1>2, <1>7, <1>9, <2>2, WholeByteNext
  <1>11. LockPart' /\ PowerPart'
    BY <1>3, <1>5, <1>7 DEF SerialInv, LockPart, PowerPart, Holding
  <1>12. BuffPart'
    <2>1. \A k \in 1 .. Last : \A i \in 1 .. Len(accepted'[k]) : accepted'[k][i] = <<k, i>>
      BY <1>6 DEF SerialInv, BuffPart
    <2>2. \A i \in 1 .. Len(accepted'[Last + 1]) : accepted'[Last + 1][i] = <<Last + 1, i>>
      BY <1>4, <1>6
    <2>3. \A k \in 1 .. Last' : k \in 1 .. Last \/ k = Last + 1
      BY <1>6
    <2> QED BY <1>6, <1>7, <2>1, <2>2, <2>3 DEF BuffPart
  <1>13. PositionPart'
    BY <1>7, <1>8 DEF PositionPart
  <1>14. CompletePart'
    <2>1. ~Starting
      BY <1>3 DEF Starting, SerialInv, LockPart, Holding
    <2>2. \A k \in 1 .. Last : Complete(k)
      BY <1>8, <2>1 DEF SerialInv, CompletePart
    <2>3. \A k \in 1 .. Last : Complete(k)'
      BY <1>6, <1>9, <2>2 DEF Complete
    <2>4. \A j \in 1 .. Len(S!Sent) : S!Sent[j][1] # Last + 1
      <3> TAKE j \in 1 .. Len(S!Sent)
      <3>1. S!Sent[j][1] \in 0 .. Last
        BY NumberKnown
      <3> QED BY <1>6, <3>1
    <2>5. Starting'
      BY <1>5 DEF Starting
    <2> QED BY <1>6, <1>9, <2>3, <2>4, <2>5 DEF CompletePart
  <1> QED BY <1>7, <1>10, <1>11, <1>12, <1>13, <1>14 DEF SerialInv

\* The first byte of a message, if it has one.
LEMMA StartKeeps ==
  ASSUME SerialInv, NEW c \in {"main", "irq"}, S!StartSending(c)
  PROVE  SerialInv'
  <1>1. UNCHANGED <<masks, rxi, wire, accepted, quick>> /\ callers[c].pc = "start"
    BY DEF S!StartSending, S!At
  <1>2. /\ callers' \in [{"main", "irq"} -> [pc : Holding \cup {"idle", "flush"}, length : Nat,
                                             masked : BOOLEAN]]
        /\ callers'[c].pc = "release" /\ \A d \in {"main", "irq"} : d # c => callers'[d] = callers[d]
    BY CallerGoes DEF S!StartSending, SerialInv, Holding
  <1>3. /\ uart.sending = 0 /\ Starting /\ SerialShape /\ S!Sent \in Seq(Byte) /\ Last \in Nat
        /\ Last # 0 /\ \A j \in 1 .. Len(S!Sent) : S!Sent[j][1] # Last
    BY <1>1 DEF SerialInv, PositionPart, Starting, CompletePart, SerialShape, S!Sent, Last
  <1>4. accepted # <<>> /\ uart.buff = accepted[Last] /\ uart.buff \in Seq(Byte)
    BY <1>3 DEF SerialInv, BuffPart, SerialShape, Last
  <1>5. CASE uart.buff = <<>>
    <2>1. UNCHANGED <<uart, fifo, txi>> /\ S!Sent' = S!Sent
      BY <1>1, <1>5 DEF S!StartSending, S!Sent
    <2>2. Complete(Last)
      BY <1>4, <1>5 DEF Complete
    <2>3. uart.power
      BY <1>1 DEF SerialInv, PowerPart
    <2> QED BY <1>1, <1>2, <1>3, <2>1, <2>2, <2>3, MoveKeeps DEF Holding, SerialInv, SerialShape
  <1>6. CASE uart.buff # <<>>
    <2> DEFINE b == uart.buff[1]
    <2>1. uart' = [uart EXCEPT !.sending = 1] /\ fifo' = Append(fifo, b)
      BY <1>3, <1>6 DEF S!StartSending, S!Transmit
    <2>2. 1 \in 1 .. Len(uart.buff) /\ Last \in 1 .. Last
      BY <1>3, <1>4, <1>6
    <2>3. b \in Byte /\ b = <<Last, 1>> /\ b[1] = Last /\ b[2] = 1 /\ 1 \in 1 .. Len(accepted[Last])
      BY <1>4, <2>2 DEF SerialInv, BuffPart
    <2> HIDE DEF b
    <2>4. \A k \in 1 .. Len(S!Sent) : S!Sent[k][1] < Last
      <3> TAKE j \in 1 .. Len(S!Sent)
      <3>1. S!Sent[j][1] \in 0 .. Last
        BY NumberKnown
      <3> QED BY <1>3, <3>1
    <2>5. \A k \in 1 .. (Last - 1) : Complete(k)
      BY <1>3 DEF SerialInv, CompletePart
    <2>6. /\ fifo' \in Seq(Byte) /\ S!Sent' \in Seq(Byte) /\ S!Sent' # <<>>
          /\ Len(S!Sent') = Len(S!Sent) + 1 /\ S!Sent'[Len(S!Sent')] = b
          /\ \A j \in 1 .. Len(S!Sent) : S!Sent'[j] = S!Sent[j]
          /\ \A j \in 1 .. Len(S!Sent') : WholeAt(S!Sent', accepted, j)
          /\ \A k : Complete(k) => Complete(k)'
      <3>1. b[1] # 0 =>
              /\ b[1] \in 1 .. Last /\ b[2] \in 1 .. Len(accepted[b[1]])
              /\ b[2] > 1 => S!Sent # <<>> /\ S!Sent[Len(S!Sent)] = <<b[1], b[2] - 1>>
              /\ b[2] = 1 => \A k \in 1 .. Len(S!Sent) : S!Sent[k][1] < b[1]
              /\ b[2] = 1 => \A d \in 1 .. (b[1] - 1) : Complete(d)
        BY <2>2, <2>3, <2>4, <2>5
      <3> QED BY <1>1, <2>1, <2>3, <3>1, ByteAdded
    <2>7. /\ SerialShape' /\ uart'.sending = 1 /\ uart'.buff = uart.buff /\ uart'.power = uart.power
          /\ uart'.lock = uart.lock
      BY <1>1, <1>2, <1>3, <2>1, <2>6 DEF SerialShape
    <2>8. MessagesWhole'
      BY <1>1, <2>6, <2>7, WholeByteNext
    <2>9. LockPart' /\ PowerPart' /\ BuffPart' /\ Last' = Last
      BY <1>1, <1>2, <2>7 DEF SerialInv, LockPart, PowerPart, BuffPart, Holding, Last
    <2>10. \A d \in {"main", "irq"} : callers'[d].pc \notin {"copy", "start"}
      BY <1>1, <1>2 DEF SerialInv, LockPart, Holding
    <2>11. PositionPart'
      BY <2>2, <2>3, <2>6, <2>7, <2>9, <2>10 DEF PositionPart
    <2>12. CompletePart'
      <3>1. ~Starting'
        BY <2>10 DEF Starting
      <3>2. \A k \in 1 .. Last : k < Last => Complete(k)'
        BY <1>3, <2>5, <2>6
      <3> QED BY <2>7, <2>9, <3>1, <3>2 DEF CompletePart
    <2> QED BY <2>7, <2>8, <2>9, <2>11, <2>12 DEF SerialInv
  <1> QED BY <1>5, <1>6

\* A step that sends, accepts and fills nothing.
LEMMA QuietKeeps ==
  ASSUME SerialInv, SerialShape', PowerPart', S!Sent' = S!Sent, UNCHANGED <<accepted, callers>>,
         uart'.buff = uart.buff, uart'.sending = uart.sending, uart'.lock = uart.lock
  PROVE  SerialInv'
  <1>1. MessagesWhole'
    BY WholeByte, WholeByteNext DEF SerialInv
  <1>2. LockPart' /\ BuffPart' /\ PositionPart'
    BY DEF SerialInv, LockPart, BuffPart, PositionPart, Last
  <1>3. CompletePart'
    BY DEF SerialInv, CompletePart, Complete, Starting, Last
  <1> QED BY <1>1, <1>2, <1>3 DEF SerialInv

\* Every step of the driver keeps the invariant.
LEMMA SerialKeeps == PartAssumptions /\ SerialInv /\ [S!Next]_serial => SerialInv'
  <1> SUFFICES ASSUME PartAssumptions, SerialInv, [S!Next]_serial
               PROVE  SerialInv'
    OBVIOUS
  <1>1. SerialShape /\ quick \in Nat
    BY DEF SerialInv, SerialShape
  <1>2. CASE UNCHANGED serial
    <2>1. SerialShape' /\ PowerPart' /\ S!Sent' = S!Sent
      BY <1>2 DEF serial, SerialInv, SerialShape, PowerPart, S!Sent
    <2> QED BY <1>2, <2>1, QuietKeeps DEF serial
  <1>3. CASE S!ShiftOut
    <2>1. S!Sent' = S!Sent
      BY <1>1, <1>3, ShiftedFifo DEF S!ShiftOut, S!Sent, SerialShape
    <2>2. SerialShape'
      <3>1. Head(fifo) \in Byte /\ Tail(fifo) \in Seq(Byte)
        BY <1>1, <1>3 DEF S!ShiftOut, SerialShape
      <3> QED BY <1>1, <1>3, <3>1 DEF S!ShiftOut, SerialShape
    <2>3. PowerPart'
      BY <1>3 DEF S!ShiftOut, SerialInv, PowerPart
    <2> QED BY <1>3, <2>1, <2>2, <2>3, QuietKeeps DEF S!ShiftOut
  <1>4. CASE S!Receive
    <2>1. SerialShape' /\ PowerPart' /\ S!Sent' = S!Sent
      BY <1>1, <1>4 DEF S!Receive, SerialShape, PowerPart, S!Sent
    <2> QED BY <1>4, <2>1, QuietKeeps DEF S!Receive
  <1>5. CASE S!UartHandlerTx
    BY <1>5, CheckTxKeeps DEF S!UartHandlerTx
  <1>6. CASE S!UartHandlerRx
    <2>1. uart.power
      BY <1>6 DEF S!UartHandlerRx, SerialInv, PowerPart
    <2>2. CASE uart.callback \/ uart.sending # 0
      <3>1. SerialShape' /\ PowerPart' /\ S!Sent' = S!Sent
        BY <1>1, <1>6, <2>1, <2>2 DEF S!UartHandlerRx, SerialShape, PowerPart, S!Sent
      <3> QED BY <1>6, <3>1, QuietKeeps DEF S!UartHandlerRx
    <2>3. CASE ~(uart.callback \/ uart.sending # 0)
      BY <1>1, <1>6, <2>1, <2>3, QuickKeeps DEF S!UartHandlerRx
    <2> QED BY <2>2, <2>3
  <1>7. CASE S!UartOn
    <2>1. PICK cb \in BOOLEAN : uart' = [uart EXCEPT !.power = TRUE, !.callback = cb]
      BY ZenonT(40), <1>7 DEF S!UartOn
    <2>2. fifo = <<>> /\ fifo' = <<>> /\ UNCHANGED <<masks, callers, wire, accepted, quick>>
      BY <1>7 DEF S!UartOn, SerialInv, PowerPart
    <2>3. /\ SerialShape' /\ S!Sent' = S!Sent /\ uart'.power = TRUE
          /\ uart'.buff = uart.buff /\ uart'.sending = uart.sending /\ uart'.lock = uart.lock
      BY <1>1, <2>1, <2>2 DEF SerialShape, S!Sent
    <2>4. PowerPart'
      BY <2>3 DEF PowerPart
    <2> QED BY <2>2, <2>3, <2>4, QuietKeeps
  <1>8. CASE S!UartOff
    <2>1. uart' = [uart EXCEPT !.power = FALSE, !.callback = FALSE]
      BY <1>8 DEF S!UartOff
    <2>2. fifo = <<>> /\ fifo' = <<>> /\ UNCHANGED <<masks, callers, wire, accepted, quick>>
      BY <1>8 DEF S!UartOff
    <2>3. /\ SerialShape' /\ S!Sent' = S!Sent
          /\ uart'.buff = uart.buff /\ uart'.sending = uart.sending /\ uart'.lock = uart.lock
      BY <1>1, <2>1, <2>2 DEF SerialShape, S!Sent
    <2>4. PowerPart'
      BY <1>8, <2>2, <2>3 DEF PowerPart, S!UartOff, S!Idle, S!Callers
    <2> QED BY <2>2, <2>3, <2>4, QuietKeeps
  <1>9. ASSUME NEW c \in {"main", "irq"}, S!Call(c)
        PROVE  SerialInv'
    <2>1. CASE S!SerialWrite(c)
      <3>1. PICK n \in Lengths, m \in {FALSE, masks} :
              IF S!Refused
              THEN UNCHANGED <<uart, callers>>
              ELSE /\ uart' = [uart EXCEPT !.lock = TRUE]
                   /\ callers' = [callers EXCEPT ![c] = [pc |-> "wait", length |-> n, masked |-> m]]
        BY <2>1 DEF S!SerialWrite
      <3>2. UNCHANGED <<masks, fifo, txi, rxi, wire, accepted, quick>> /\ uart.power
            /\ callers[c].pc = "idle" /\ S!Sent' = S!Sent
        BY <2>1 DEF S!SerialWrite, S!At, S!Sent
      <3>3. CASE uart.lock
        <4>1. SerialShape' /\ PowerPart'
          BY <1>1, <3>1, <3>2, <3>3 DEF S!Refused, SerialInv, SerialShape, PowerPart
        <4> QED BY <3>1, <3>2, <3>3, <4>1, QuietKeeps DEF S!Refused
      <3>4. CASE ~uart.lock
        <4> DEFINE r == [pc |-> "wait", length |-> n, masked |-> m]
        <4>1. uart' = [uart EXCEPT !.lock = TRUE] /\ callers' = [callers EXCEPT ![c] = r]
          BY <3>1, <3>4 DEF S!Refused
        <4>2. n \in Nat /\ m \in BOOLEAN
          BY DEF PartAssumptions, S!SerialAssumption, SerialInv, SerialShape
        <4>3. r \in [pc : Holding \cup {"idle", "flush"}, length : Nat, masked : BOOLEAN] /\ r.pc = "wait"
          BY <4>2 DEF Holding
        <4> HIDE DEF r
        <4>4. /\ callers' \in [{"main", "irq"} -> [pc : Holding \cup {"idle", "flush"}, length : Nat,
                                                   masked : BOOLEAN]]
              /\ callers'[c].pc = "wait" /\ \A d \in {"main", "irq"} : d # c => callers'[d] = callers[d]
          BY <1>1, <4>1, <4>3, CallerMoves
        <4>5. SerialShape' /\ uart'.power = uart.power /\ uart'.sending = uart.sending
              /\ uart'.buff = uart.buff /\ uart'.lock = TRUE
          BY <1>1, <3>2, <4>1, <4>4 DEF SerialShape
        <4>6. LockPart' /\ PowerPart'
          BY <3>2, <3>4, <4>4, <4>5 DEF SerialInv, LockPart, PowerPart
        <4>7. BuffPart' /\ PositionPart'
          BY <3>2, <4>4, <4>5 DEF SerialInv, BuffPart, PositionPart, Last
        <4>8. MessagesWhole'
          BY <1>1, <3>2, <4>5, WholeByte, WholeByteNext DEF SerialInv
        <4>9. CompletePart'
          <5>1. Starting' <=> Starting
            BY <3>2, <4>4 DEF Starting
          <5> QED BY <3>2, <4>5, <5>1 DEF SerialInv, CompletePart, Complete, Last
        <4> QED BY <4>5, <4>6, <4>7, <4>8, <4>9 DEF SerialInv
      <3> QED BY <3>3, <3>4
    <2>2. CASE S!SerialFlush(c)
      <3>1. PICK m \in {FALSE, masks} :
              callers' = [callers EXCEPT ![c] = [pc |-> "flush", length |-> 0, masked |-> m]]
        BY <2>2 DEF S!SerialFlush
      <3>2. UNCHANGED <<masks, uart, fifo, txi, rxi, wire, accepted, quick>> /\ uart.power
            /\ callers[c].pc = "idle" /\ S!Sent' = S!Sent
        BY <2>2 DEF S!SerialFlush, S!At, S!Sent
      <3> DEFINE r == [pc |-> "flush", length |-> 0, masked |-> m]
      <3>3. r \in [pc : Holding \cup {"idle", "flush"}, length : Nat, masked : BOOLEAN] /\ r.pc = "flush"
        BY DEF Holding, SerialInv, SerialShape
      <3>4. callers' = [callers EXCEPT ![c] = r]
        BY <3>1
      <3> HIDE DEF r
      <3>5. /\ callers' \in [{"main", "irq"} -> [pc : Holding \cup {"idle", "flush"}, length : Nat,
                                                 masked : BOOLEAN]]
            /\ callers'[c].pc = "flush" /\ \A d \in {"main", "irq"} : d # c => callers'[d] = callers[d]
        BY <1>1, <3>3, <3>4, CallerMoves
      <3> QED BY <1>1, <3>2, <3>5, MoveKeeps DEF Holding
    <2>3. CASE S!SerialSendQuickbyte(c)
      BY <1>1, <2>3, QuickKeeps DEF S!SerialSendQuickbyte, S!QuickFree
    <2> QED BY <1>9, <2>1, <2>2, <2>3 DEF S!Call
  <1>10. ASSUME NEW c \in {"main", "irq"}, S!Busy(c)
         PROVE  SerialInv'
    <2>1. CASE S!WaitWrite(c)
      <3>1. UNCHANGED <<masks, rxi, wire, accepted, quick>> /\ callers[c].pc = "wait"
        BY <2>1 DEF S!WaitWrite, S!At
      <3>2. CASE uart.sending = 0
        <4>1. S!Goto(c, "copy") /\ UNCHANGED <<uart, fifo, txi>> /\ S!Sent' = S!Sent
          BY <2>1, <3>1, <3>2 DEF S!WaitWrite, S!WaitTurn, S!Sent
        <4>2. /\ callers' \in [{"main", "irq"} -> [pc : Holding \cup {"idle", "flush"}, length : Nat,
                                                   masked : BOOLEAN]]
              /\ callers'[c].pc = "copy" /\ \A d \in {"main", "irq"} : d # c => callers'[d] = callers[d]
          BY <1>1, <4>1, CallerGoes DEF Holding
        <4>3. uart.power
          BY <3>1 DEF SerialInv, PowerPart
        <4> QED BY <1>1, <3>1, <3>2, <4>1, <4>2, <4>3, MoveKeeps DEF Holding
      <3>3. CASE uart.sending # 0
        BY <2>1, <3>1, <3>3, CheckTxKeeps DEF S!WaitWrite, S!WaitTurn
      <3> QED BY <3>2, <3>3
    <2>2. CASE S!CopyOut(c)
      BY <2>2, CopyKeeps
    <2>3. CASE S!StartSending(c)
      BY <2>3, StartKeeps
    <2>4. CASE S!Release(c)
      <3>1. UNCHANGED <<masks, fifo, txi, rxi, wire, accepted, quick>> /\ callers[c].pc = "release"
            /\ uart' = [uart EXCEPT !.lock = FALSE] /\ S!Sent' = S!Sent
            /\ callers' = [callers EXCEPT ![c] = S!Resting]
        BY <2>4 DEF S!Release, S!At, S!Return, S!Sent
      <3>2. S!Resting \in [pc : Holding \cup {"idle", "flush"}, length : Nat, masked : BOOLEAN]
            /\ S!Resting.pc = "idle"
        BY DEF S!Resting
      <3>3. /\ callers' \in [{"main", "irq"} -> [pc : Holding \cup {"idle", "flush"}, length : Nat,
                                                 masked : BOOLEAN]]
            /\ callers'[c].pc = "idle" /\ \A d \in {"main", "irq"} : d # c => callers'[d] = callers[d]
        BY <1>1, <3>1, <3>2, CallerMoves
      <3>4. SerialShape' /\ uart'.power = uart.power /\ uart'.sending = uart.sending
            /\ uart'.buff = uart.buff
        BY <1>1, <3>1, <3>3 DEF SerialShape
      <3>5. LockPart' /\ PowerPart'
        BY <3>1, <3>3, <3>4 DEF SerialInv, LockPart, PowerPart, Holding
      <3>6. BuffPart' /\ PositionPart'
        BY <3>1, <3>3, <3>4 DEF SerialInv, BuffPart, PositionPart, Last
      <3>7. MessagesWhole'
        BY <1>1, <3>1, <3>4, WholeByte, WholeByteNext DEF SerialInv
      <3>8. CompletePart'
        <4>1. Starting' <=> Starting
          BY <3>1, <3>3 DEF Starting
        <4> QED BY <3>1, <3>4, <4>1 DEF SerialInv, CompletePart, Complete, Last
      <3> QED BY <3>4, <3>5, <3>6, <3>7, <3>8 DEF SerialInv
    <2>5. CASE S!WaitFlush(c)
      <3>1. UNCHANGED <<masks, rxi, wire, accepted, quick>> /\ callers[c].pc = "flush"
        BY <2>5 DEF S!WaitFlush, S!At
      <3>2. CASE uart.sending = 0
        <4>1. callers' = [callers EXCEPT ![c] = S!Resting] /\ UNCHANGED <<uart, fifo, txi>>
              /\ S!Sent' = S!Sent
          BY <2>5, <3>1, <3>2 DEF S!WaitFlush, S!Return, S!Sent
        <4>2. S!Resting \in [pc : Holding \cup {"idle", "flush"}, length : Nat, masked : BOOLEAN]
              /\ S!Resting.pc = "idle"
          BY DEF S!Resting
        <4>3. /\ callers' \in [{"main", "irq"} -> [pc : Holding \cup {"idle", "flush"}, length : Nat,
                                                   masked : BOOLEAN]]
              /\ callers'[c].pc = "idle" /\ \A d \in {"main", "irq"} : d # c => callers'[d] = callers[d]
          BY <1>1, <4>1, <4>2, CallerMoves
        <4> QED BY <1>1, <3>1, <4>1, <4>3, MoveKeeps DEF Holding
      <3>3. CASE uart.sending # 0
        BY <2>5, <3>1, <3>3, CheckTxKeeps DEF S!WaitFlush, S!WaitTurn
      <3> QED BY <3>2, <3>3
    <2> QED BY <1>10, <2>1, <2>2, <2>3, <2>4, <2>5 DEF S!Busy
  <1> QED BY <1>2, <1>3, <1>4, <1>5, <1>6, <1>7, <1>8, <1>9, <1>10
          DEF S!Next, S!UartHandler, S!Callers

\* Messages leave whole and in the order serial_write accepted them, for every
\* size of the buffer and any lengths, whoever calls from where and with the
\* interrupts masked or not (serial_write, serial_send_quickbyte, the handler).
THEOREM MessagesWholeAlways == AllSpec => []MessagesWhole
  <1>1. AllInit /\ [][AllNext]_allVars => []SerialInv
    <2>1. [AllNext]_allVars => [S!Next]_serial
      BY DEF AllNext, allVars, serial
    <2> QED BY <2>1, PartAssumptions, SerialInit, SerialKeeps, PTL
  <1>2. SerialInv => MessagesWhole
    BY DEF SerialInv
  <1> QED BY <1>1, <1>2, PTL DEF AllSpec

-----------------------------------------------------------------------------
(* The transceiver driver.                                                 *)

Names  == {"none", "analog", "watchdog", "sleep", "retries", "busy", "quit_busy", "monitor",
           "acknowledge", "config", "address", "status", "comm", "system", "reset", "stop",
           "quit_stop", "packet"}
Before == {"drop", "load", "store", "send"}
KnxByteT == [call : Nat, i : Nat]
Requests == [call : Nat, i : Nat, last : Nat, name : Names]

\* The shape of the state.
NcnShape ==
  /\ dev = [next |-> dev.next, buff |-> dev.buff, running |-> dev.running,
            address_set |-> dev.address_set, state |-> dev.state]
  /\ dev.next \in Nat /\ dev.buff \in Seq(KnxByteT)
  /\ call \in [pc : Before \cup {"idle", "read", "return"}, name : Names, owed : Nat,
               reads : Seq(Nat), old : Nat, got : Seq(KnxByteT)]
  /\ chip = [todo |-> chip.todo, auto |-> chip.auto] /\ chip.todo \in Seq(Requests)
  /\ count \in [calls : Nat, frame : Nat] /\ (call.pc # "idle" => count.calls # 0)
  /\ mixed \in BOOLEAN

\* A call reads as many bytes as it announces: a packet in three pieces.
ReadsPart ==
  /\ call.pc \in Before =>
       /\ call.got = <<>>
       /\ \/ call.owed = 0 /\ call.reads = <<>>
          \/ call.owed # 0 /\ call.name # "packet" /\ call.reads = <<call.owed>>
          \/ call.owed = Size + 4 /\ call.name = "packet" /\ call.reads = <<1, Size + 1, 2>>
  /\ call.pc = "read" =>
       /\ call.owed # 0
       /\ \/ call.name # "packet" /\ call.reads = <<call.owed>> /\ call.got = <<>>
          \/ /\ call.name = "packet" /\ call.owed = Size + 4
             /\ \/ call.reads = <<1, Size + 1, 2>> /\ call.got = <<>>
                \/ call.reads = <<Size + 1, 2>> /\ Len(call.got) = 1
                \/ call.reads = <<2>> /\ Len(call.got) = Size + 2

\* What the call has read and what is in the buffer are the first bytes of its reply.
Own(i) == [call |-> count.calls, i |-> i]
InOrder ==
  /\ \A k \in 1 .. Len(call.got) : call.got[k] = Own(k)
  /\ \A k \in 1 .. Len(dev.buff) : dev.buff[k] = Own(Len(call.got) + k)
Received == Len(call.got) + Len(dev.buff)

\* As long as no byte was mixed up, the chip owes only the rest of the reply to
\* the call that reads, and what a call has read is its reply.
ReplyPart ==
  ~mixed =>
    /\ call.pc # "read" => chip.todo = <<>> /\ dev.buff = <<>>
    /\ call.pc = "read" =>
         \/ /\ InOrder /\ Received < call.owed
            /\ chip.todo = <<[call |-> count.calls, i |-> Received + 1, last |-> call.owed,
                              name |-> call.name]>>
         \/ InOrder /\ Received = call.owed /\ chip.todo = <<>>
         \/ /\ call.name = "packet" /\ call.got = <<>> /\ dev.buff = <<Own(0)>>
            /\ call.reads = <<1, Size + 1, 2>> /\ chip.todo = <<>>
    /\ call.pc \in {"idle", "return"} =>
         \A k \in 1 .. Len(call.got) : call.got[k].call = count.calls /\ call.got[k].i \in {0, k}

\* The phase of the tick, and what was made of the last gap.
TimePart ==
  /\ timing \in [phase : 0 .. Reload, gap : Nat, marked : BOOLEAN]
  /\ N!LongGapsMarked

NcnInv == NcnShape /\ ReadsPart /\ ReplyPart /\ TimePart

-----------------------------------------------------------------------------
(* The time between two bytes.                                             *)

LEMMA Quotient ==
  ASSUME NEW a \in Nat, NEW b \in Nat \ {0}
  PROVE  /\ a \div b \in Nat /\ a % b \in 0 .. (b - 1)
         /\ a = b * (a \div b) + (a % b)
  OBVIOUS

LEMMA AtLeast ==
  ASSUME NEW a \in Nat, NEW b \in Nat \ {0}, NEW n \in Nat, a >= b * n
  PROVE  a \div b >= n
  OBVIOUS

LEMMA TimesMore ==
  ASSUME NEW a \in Nat, NEW b \in Nat, NEW c \in Nat, a <= b
  PROVE  c * a <= c * b
  OBVIOUS

\* A silence of three turns of the tick counts as three milliseconds whatever the
\* phase of the tick when it starts.
LEMMA LongGap ==
  ASSUME N!NcnAssumption, NEW gap \in Nat, timing.phase \in 0 .. Reload
  PROVE  /\ N!Phase(gap) \in 0 .. Reload
         /\ gap >= 3 * (Reload + 1) => N!EndOfFrame(gap)
  <1> DEFINE r == Reload
             p == timing.phase
             a == p + gap
             m == r + 1
             q == a \div m
             f == a % m
  <1>1. r \in Nat /\ r # 0 /\ p \in 0 .. r /\ a \in Nat /\ m \in Nat \ {0}
    BY DEF N!NcnAssumption
  <1>2. q \in Nat /\ f \in 0 .. (m - 1) /\ a = m * q + f
    <2> HIDE DEF a, m
    <2> QED BY <1>1, Quotient
  <1>3. N!Phase(gap) = f /\ N!Ticks(gap) = q
    BY DEF N!Phase, N!Ticks
  <1>4. ASSUME gap >= 3 * m
        PROVE  N!EndOfFrame(gap)
    <2>1. a >= m * 3
      BY <1>1, <1>4
    <2>2. q >= 3
      <3> HIDE DEF a, m
      <3> QED BY <1>1, <2>1, AtLeast
    <2> DEFINE d == (r - f) + r * (q + 1) - (r - p)
    <2>3. N!TickDiff(gap) = d
      BY <1>3 DEF N!TickDiff
    <2>4. d \in Nat /\ d >= r * 3
      <3> HIDE DEF q, f
      <3>1. r * 4 <= r * (q + 1)
        BY <1>1, <1>2, <2>2, TimesMore
      <3> DEFINE x == r * (q + 1)
      <3>2. x \in Nat
        BY <1>1, <1>2
      <3> HIDE DEF x
      <3> QED BY <1>1, <1>2, <3>1, <3>2 DEF x
    <2>5. (d * 10) \div r >= 30
      <3> HIDE DEF d
      <3> QED BY <1>1, <2>4, AtLeast
    <2>6. (d * 10) \div r > 26
      <3> HIDE DEF d
      <3>1. d * 10 \in Nat
        BY <2>4
      <3>2. (d * 10) \div r \in Nat
        BY <1>1, <3>1, Quotient
      <3> QED BY <2>5, <3>2
    <2> HIDE DEF q, d
    <2>7. q >= 1
      BY <1>2, <2>2
    <2> QED BY <1>3, <2>3, <2>6, <2>7, Zenon DEF N!EndOfFrame
  <1> QED BY <1>1, <1>2, <1>3, <1>4

\* A byte is taken for a reply exactly while one is expected.
LEMMA ByteTaken ==
  ASSUME N!NcnAssumption, NcnShape, TimePart, NEW b \in KnxByteT, NEW gap \in Nat,
         N!ncn5120_handle_rx(b, gap)
  PROVE  /\ TimePart' /\ mixed' \in BOOLEAN
         /\ dev' = [next |-> dev'.next, buff |-> dev'.buff, running |-> dev'.running,
                    address_set |-> dev'.address_set, state |-> dev'.state]
         /\ dev'.next \in Nat /\ dev'.buff \in Seq(KnxByteT)
         /\ \/ dev'.buff = Append(dev.buff, b) /\ mixed' = (mixed \/ b.call = 0)
            \/ dev'.buff = dev.buff /\ mixed' = (mixed \/ b.call # 0)
  <1>1. CASE dev.next > 0
    <2>1. /\ dev' = [dev EXCEPT !.buff = Append(@, b), !.next = dev.next - 1]
          /\ mixed' = (mixed \/ b.call = 0) /\ UNCHANGED timing
      BY <1>1 DEF N!ncn5120_handle_rx, N!Expected
    <2>2. dev.next - 1 \in Nat /\ Append(dev.buff, b) \in Seq(KnxByteT)
      BY <1>1 DEF NcnShape
    <2>3. TimePart'
      BY <2>1 DEF TimePart, N!LongGapsMarked
    <2>4. /\ dev'.buff = Append(dev.buff, b) /\ dev'.next = dev.next - 1
          /\ dev' = [next |-> dev'.next, buff |-> dev'.buff, running |-> dev'.running,
                     address_set |-> dev'.address_set, state |-> dev'.state]
      BY <2>1 DEF NcnShape
    <2>5. mixed' \in BOOLEAN
      BY <2>1 DEF NcnShape
    <2> QED BY <2>1, <2>2, <2>3, <2>4, <2>5
  <1>2. CASE ~(dev.next > 0)
    <2>1. N!FrameByte(gap) /\ mixed' = (mixed \/ b.call # 0)
      BY <1>2 DEF N!ncn5120_handle_rx
    <2>2. PICK on \in BOOLEAN : dev' = [dev EXCEPT !.running = on]
      BY <2>1 DEF N!FrameByte
    <2>3. /\ dev'.buff = dev.buff /\ dev'.next = dev.next
          /\ dev' = [next |-> dev'.next, buff |-> dev'.buff, running |-> dev'.running,
                     address_set |-> dev'.address_set, state |-> dev'.state]
      BY <2>2 DEF NcnShape
    <2>4. TimePart'
      <3>1. /\ timing' = [phase |-> N!Phase(gap), gap |-> IF dev.running THEN gap ELSE 0,
                          marked |-> dev.running /\ N!EndOfFrame(gap)]
        BY <2>1 DEF N!FrameByte
      <3>2. timing.phase \in 0 .. Reload
        BY DEF TimePart
      <3>3. N!Phase(gap) \in 0 .. Reload /\ (gap >= 3 * (Reload + 1) => N!EndOfFrame(gap))
        BY <3>2, LongGap
      <3>4. /\ timing'.phase = N!Phase(gap)
            /\ timing'.marked <=> (dev.running /\ N!EndOfFrame(gap))
            /\ dev.running => timing'.gap = gap
            /\ ~dev.running => timing'.gap = 0
            /\ timing' = [phase |-> timing'.phase, gap |-> timing'.gap, marked |-> timing'.marked]
        BY <3>1
      <3>5. timing'.marked \in BOOLEAN
        BY <3>1, Zenon
      <3>6. ~(0 >= 3 * (Reload + 1))
        BY DEF N!NcnAssumption
      <3>7. N!LongGapsMarked'
        BY <3>3, <3>4, <3>6 DEF N!LongGapsMarked
      <3>8. timing'.gap \in Nat
        BY <3>4
      <3> QED BY <3>3, <3>4, <3>5, <3>7, <3>8 DEF TimePart
    <2>5. mixed' \in BOOLEAN
      BY <2>1 DEF NcnShape
    <2> QED BY <2>1, <2>3, <2>4, <2>5 DEF NcnShape
  <1> QED BY <1>1, <1>2

-----------------------------------------------------------------------------
(* The steps.                                                              *)

\* At power on nothing is expected and nothing was read.
LEMMA NcnInit == PartAssumptions /\ AllInit => NcnInv
  <1> SUFFICES ASSUME PartAssumptions, AllInit PROVE NcnInv
    OBVIOUS
  <1>1. /\ dev = [next |-> 0, buff |-> <<>>, running |-> FALSE, address_set |-> FALSE,
                  state |-> "normal"]
        /\ call = N!Idle /\ chip = [todo |-> <<>>, auto |-> FALSE]
        /\ count = [calls |-> 0, frame |-> 0] /\ mixed = FALSE
        /\ timing = [phase |-> 0, gap |-> 0, marked |-> FALSE]
    BY DEF AllInit, N!Init
  <1>2. Reload \in Nat \ {0}
    BY DEF PartAssumptions, N!NcnAssumption
  <1>3. NcnShape
    <2>1. dev.next \in Nat /\ dev.buff \in Seq(KnxByteT) /\ chip.todo \in Seq(Requests)
      BY <1>1
    <2>2. call \in [pc : Before \cup {"idle", "read", "return"}, name : Names, owed : Nat,
                    reads : Seq(Nat), old : Nat, got : Seq(KnxByteT)] /\ call.pc = "idle"
      BY <1>1 DEF N!Idle, Names
    <2>3. /\ dev = [next |-> dev.next, buff |-> dev.buff, running |-> dev.running,
                    address_set |-> dev.address_set, state |-> dev.state]
          /\ chip = [todo |-> chip.todo, auto |-> chip.auto]
          /\ count \in [calls : Nat, frame : Nat] /\ mixed \in BOOLEAN
      BY <1>1
    <2> QED BY <2>1, <2>2, <2>3 DEF NcnShape
  <1>4. ReadsPart /\ ReplyPart
    BY <1>1 DEF ReadsPart, ReplyPart, N!Idle, Before
  <1>5. ~(0 >= 3 * (Reload + 1)) /\ 0 \in 0 .. Reload
    BY <1>2
  <1>6. TimePart
    BY <1>1, <1>5 DEF TimePart, N!LongGapsMarked
  <1> QED BY <1>3, <1>4, <1>6 DEF NcnInv

\* A byte of the bus is taken for a reply only if one is expected, and then
\* something was mixed up.
LEMMA KnxByteKeeps ==
  ASSUME N!NcnAssumption, NcnInv, N!KnxByte
  PROVE  NcnInv'
  <1> DEFINE b == [call |-> 0, i |-> 1]
  <1>1. PICK gap \in Nat : N!ncn5120_handle_rx(b, gap)
    BY DEF N!KnxByte, N!NcnAssumption
  <1>2. b \in KnxByteT /\ b.call = 0
    BY DEF KnxByteT
  <1> HIDE DEF b
  <1>3. UNCHANGED <<bus, call, chip>> /\ count' = [count EXCEPT !.frame = @ + 1]
    BY DEF N!KnxByte
  <1>4. /\ TimePart' /\ mixed' \in BOOLEAN
        /\ dev' = [next |-> dev'.next, buff |-> dev'.buff, running |-> dev'.running,
                   address_set |-> dev'.address_set, state |-> dev'.state]
        /\ dev'.next \in Nat /\ dev'.buff \in Seq(KnxByteT)
        /\ \/ dev'.buff = Append(dev.buff, b) /\ mixed' = (mixed \/ b.call = 0)
           \/ dev'.buff = dev.buff /\ mixed' = (mixed \/ b.call # 0)
    BY <1>1, <1>2, ByteTaken DEF NcnInv
  <1>5. count' \in [calls : Nat, frame : Nat] /\ count'.calls = count.calls
    <2> DEFINE f == count.frame + 1
    <2>1. f \in Nat /\ count' = [count EXCEPT !.frame = f]
      BY <1>3 DEF NcnInv, NcnShape
    <2> HIDE DEF f
    <2> QED BY <2>1 DEF NcnInv, NcnShape
  <1>6. NcnShape'
    BY <1>3, <1>4, <1>5 DEF NcnInv, NcnShape
  <1>7. ReadsPart'
    BY <1>3 DEF NcnInv, ReadsPart
  <1>8. mixed' \/ (dev'.buff = dev.buff /\ ~mixed)
    BY <1>2, <1>4 DEF NcnInv, NcnShape
  <1>9. ReplyPart'
    BY ZenonT(40), <1>3, <1>5, <1>8 DEF NcnInv, ReplyPart, InOrder, Own, Received
  <1> QED BY <1>4, <1>6, <1>7, <1>9 DEF NcnInv

\* What a byte of a reply does: a last one ends the request.
LEMMA AnswerKeeps ==
  ASSUME N!NcnAssumption, NcnInv, chip.todo # <<>>, NEW i \in Nat, NEW ends \in Nat,
         LET r == Head(chip.todo)
         IN  /\ N!ncn5120_handle_rx([call |-> r.call, i |-> i], 0)
             /\ chip' = N!Answered(r, ends # 0)
             /\ \/ i = r.i /\ (ends # 0 <=> r.i = r.last)
                \/ i = 0 /\ ends # 0 /\ r.name = "packet" /\ r.i = 1,
         UNCHANGED <<bus, call, count>>
  PROVE  NcnInv'
  <1> DEFINE r == Head(chip.todo)
             b == [call |-> r.call, i |-> i]
  <1>0. call' = call /\ count' = count
    OBVIOUS
  <1>1. NcnShape /\ r \in Requests /\ r = chip.todo[1]
    BY DEF NcnInv, NcnShape
  <1>2. b \in KnxByteT /\ b.call = r.call /\ b.i = i
    BY <1>1 DEF KnxByteT, Requests
  <1>3. N!ncn5120_handle_rx(b, 0) /\ chip' = N!Answered(r, ends # 0)
    OBVIOUS
  <1>4. \/ i = r.i /\ (ends # 0 <=> r.i = r.last)
        \/ i = 0 /\ ends # 0 /\ r.name = "packet" /\ r.i = 1
    OBVIOUS
  <1> HIDE DEF b
  <1>5. /\ TimePart' /\ mixed' \in BOOLEAN
        /\ dev' = [next |-> dev'.next, buff |-> dev'.buff, running |-> dev'.running,
                   address_set |-> dev'.address_set, state |-> dev'.state]
        /\ dev'.next \in Nat /\ dev'.buff \in Seq(KnxByteT)
        /\ \/ dev'.buff = Append(dev.buff, b) /\ mixed' = (mixed \/ b.call = 0)
           \/ dev'.buff = dev.buff /\ mixed' = (mixed \/ b.call # 0)
    BY <1>2, <1>3, ByteTaken DEF NcnInv
  <1>6. /\ chip' = [todo |-> chip'.todo, auto |-> chip'.auto]
        /\ ends # 0 => chip'.todo = Tail(chip.todo)
        /\ ends = 0 => chip'.todo = [chip.todo EXCEPT ![1].i = @ + 1]
    BY <1>3 DEF N!Answered
  <1>7. chip'.todo \in Seq(Requests)
    <2>1. CASE ends # 0
      <3>1. chip.todo \in Seq(Requests)
        BY <1>1 DEF NcnShape
      <3>2. Tail(chip.todo) \in Seq(Requests)
        BY <3>1
      <3> QED BY <1>6, <2>1, <3>2
    <2>2. CASE ends = 0
      <3> DEFINE new == [chip.todo[1] EXCEPT !.i = @ + 1]
      <3>1. new \in Requests
        BY <1>1 DEF Requests
      <3>2. chip'.todo = [chip.todo EXCEPT ![1] = new]
        BY <1>6, <2>2
      <3> HIDE DEF new
      <3>3. chip.todo \in Seq(Requests)
        BY <1>1 DEF NcnShape
      <3>4. [chip.todo EXCEPT ![1] = new] \in Seq(Requests)
        BY <3>1, <3>3
      <3> QED BY <3>2, <3>4
    <2> QED BY <2>1, <2>2
  <1>8. NcnShape'
    BY <1>1, <1>5, <1>6, <1>7 DEF NcnShape
  <1>9. ReadsPart'
    BY DEF NcnInv, ReadsPart
  <1>10. ReplyPart'
    <2> SUFFICES ASSUME ~mixed' PROVE ReplyPart'
      BY DEF ReplyPart
    <2>1. ~mixed /\ ReplyPart
      BY <1>1, <1>5 DEF NcnInv, NcnShape
    <2>2. call.pc = "read"
      BY <2>1 DEF ReplyPart
    <2> DEFINE n == Received
    <2>3. /\ InOrder /\ n < call.owed
          /\ chip.todo = <<[call |-> count.calls, i |-> n + 1, last |-> call.owed,
                            name |-> call.name]>>
      BY <2>1, <2>2 DEF ReplyPart
    <2>4. r = [call |-> count.calls, i |-> n + 1, last |-> call.owed, name |-> call.name]
          /\ Len(chip.todo) = 1
      BY <2>3
    <2>5. count.calls # 0 /\ r.call = count.calls /\ r.i = n + 1 /\ r.last = call.owed
          /\ r.name = call.name
      BY <1>1, <2>2, <2>4 DEF NcnShape
    <2> HIDE DEF r
    <2>6. dev'.buff = Append(dev.buff, b) /\ b = [call |-> count.calls, i |-> i]
      BY <1>2, <1>5, <2>5 DEF b
    <2> DEFINE g == Len(call.got)
               d == Len(dev.buff)
    <2>7. g \in Nat /\ d \in Nat /\ call.owed \in Nat /\ n = g + d
      BY <1>1 DEF NcnShape, Received
    <2>8. Len(dev'.buff) = d + 1 /\ dev'.buff[d + 1] = b
          /\ \A k \in 1 .. d : dev'.buff[k] = dev.buff[k]
      BY <1>1, <1>2, <2>6 DEF NcnShape
    <2>9. Received' = n + 1
      <3>1. Received' = g + Len(dev'.buff)
        BY <1>0, Zenon DEF Received
      <3> HIDE DEF n, g, d
      <3> QED BY <2>7, <2>8, <3>1
    <2>10. n \in Nat /\ n + 1 # 0 /\ r.i # 0
      <3> HIDE DEF n, g, d
      <3> QED BY <2>5, <2>7
    <2>11. CASE i = r.i
      <3>1. InOrder'
        <4>1. b = Own(n + 1)
          BY <2>5, <2>6, <2>11 DEF Own
        <4>2. \A k \in 1 .. d : dev.buff[k] = Own(g + k)
          BY <2>3 DEF InOrder
        <4>3. \A k \in 1 .. (d + 1) : dev'.buff[k] = Own(g + k)
          <5> HIDE DEF n, g, d
          <5>1. g + (d + 1) = n + 1
            BY <2>7
          <5>2. \A k \in 1 .. (d + 1) : k \in 1 .. d \/ k = d + 1
            BY <2>7
          <5> QED BY <2>8, <4>1, <4>2, <5>1, <5>2
        <4> QED BY <2>3, <2>8, <4>3 DEF InOrder, Own
      <3>2. CASE ends # 0
        <4>1. n + 1 = call.owed
          BY <1>4, <2>5, <2>11, <2>10, <3>2
        <4>2. chip'.todo = <<>>
          BY <1>6, <2>3, <3>2
        <4> QED BY <2>2, <2>9, <3>1, <4>1, <4>2 DEF ReplyPart
      <3>3. CASE ends = 0
        <4>1. n + 1 # call.owed
          BY <1>4, <2>5, <2>11, <2>10, <3>3
        <4>2. n + 1 < call.owed
          <5> HIDE DEF n, g, d
          <5> QED BY <2>3, <2>7, <4>1
        <4>3. chip'.todo = <<[call |-> count.calls, i |-> n + 2, last |-> call.owed,
                              name |-> call.name]>>
          <5> HIDE DEF n, g, d
          <5>1. chip'.todo = <<[call |-> count.calls, i |-> (n + 1) + 1, last |-> call.owed,
                                name |-> call.name]>>
            BY <1>6, <2>3, <3>3
          <5> QED BY <2>7, <5>1
        <4>4. Received' + 1 = n + 2
          <5> HIDE DEF n, g, d
          <5> QED BY <2>7, <2>9
        <4> QED BY <2>2, <2>9, <3>1, <4>1, <4>2, <4>3, <4>4 DEF ReplyPart
      <3> QED BY <3>2, <3>3
    <2>12. CASE i # r.i
      <3>1. i = 0 /\ ends # 0 /\ call.name = "packet" /\ n + 1 = 1
        BY <1>4, <2>5, <2>12
      <3>2. call.got = <<>> /\ dev.buff = <<>>
        <4>1. g = 0 /\ d = 0
          <5> HIDE DEF n, g, d
          <5> QED BY <2>7, <3>1
        <4> QED BY <1>1, <4>1 DEF NcnShape
      <3>3. dev'.buff = <<Own(0)>>
        BY <2>6, <3>1, <3>2 DEF Own
      <3>4. chip'.todo = <<>>
        BY <1>6, <2>3, <3>1
      <3>5. call.reads = <<1, Size + 1, 2>>
        BY <2>2, <3>1, <3>2 DEF NcnInv, ReadsPart, N!NcnAssumption
      <3> QED BY <2>2, <3>1, <3>2, <3>3, <3>4, <3>5 DEF ReplyPart, Own
    <2> QED BY <2>11, <2>12
  <1> QED BY <1>5, <1>8, <1>9, <1>10 DEF NcnInv

\* A call announces what it will read.
LEMMA StartReads ==
  ASSUME NcnInv, NEW name \in Names, NEW owed \in Nat, NEW reads \in Seq(Nat),
         NEW guarded \in BOOLEAN, NEW drop \in BOOLEAN,
         N!Start(name, guarded, drop, owed, reads),
         \/ owed = 0 /\ reads = <<>>
         \/ owed # 0 /\ name # "packet" /\ reads = <<owed>>
         \/ owed = Size + 4 /\ name = "packet" /\ reads = <<1, Size + 1, 2>>
  PROVE  NcnInv'
  <1>1. PICK at \in {"drop", "load"} :
          call' = [pc |-> at, name |-> name, owed |-> owed, reads |-> reads, old |-> 0, got |-> <<>>]
    BY Zenon DEF N!Start
  <1>2. /\ call.pc = "idle" /\ count' = [count EXCEPT !.calls = @ + 1]
        /\ UNCHANGED <<bus, dev, chip, mixed, timing>>
    BY DEF N!Start
  <1>3. count' \in [calls : Nat, frame : Nat] /\ count'.calls # 0
    <2> DEFINE f == count.calls + 1
    <2>1. f \in Nat /\ f # 0 /\ count' = [count EXCEPT !.calls = f]
      BY SMTT(30), <1>2 DEF NcnInv, NcnShape
    <2> HIDE DEF f
    <2> QED BY <2>1 DEF NcnInv, NcnShape
  <1>4. /\ call' \in [pc : Before \cup {"idle", "read", "return"}, name : Names, owed : Nat,
                      reads : Seq(Nat), old : Nat, got : Seq(KnxByteT)]
        /\ call'.pc \in {"drop", "load"} /\ call'.name = name /\ call'.owed = owed
        /\ call'.reads = reads /\ call'.got = <<>>
    BY <1>1 DEF Before
  <1>5. NcnShape'
    BY <1>2, <1>3, <1>4 DEF NcnInv, NcnShape
  <1>6. ReadsPart'
    BY <1>4 DEF ReadsPart
  <1>7. ReplyPart'
    BY <1>2, <1>4 DEF NcnInv, ReplyPart
  <1>8. TimePart'
    BY <1>2 DEF NcnInv, TimePart, N!LongGapsMarked
  <1> QED BY <1>5, <1>6, <1>7, <1>8 DEF NcnInv

\* Forgetting what was received, and the two accesses that announce, are before a
\* call's request is out.
LEMMA AnnounceKeeps ==
  ASSUME NcnInv, N!ncn5120_drop_cmd_data \/ N!LoadCount \/ N!StoreCount
  PROVE  NcnInv'
  <1>1. /\ UNCHANGED <<bus, chip, count, mixed, timing>>
        /\ call.pc \in {"drop", "load", "store"}
        /\ call' = [call EXCEPT !.pc = call'.pc, !.old = call'.old]
        /\ call'.pc \in {"load", "store", "send"} /\ call'.old \in Nat
        /\ dev' = [dev EXCEPT !.next = dev'.next, !.buff = dev'.buff]
        /\ dev'.next \in Nat /\ dev'.buff \in {<<>>, dev.buff}
    <2>1. CASE N!ncn5120_drop_cmd_data
      BY <2>1 DEF N!ncn5120_drop_cmd_data, NcnInv, NcnShape
    <2>2. CASE N!LoadCount
      BY <2>2 DEF N!LoadCount, NcnInv, NcnShape
    <2>3. CASE N!StoreCount
      <3>1. call.old + call.owed \in Nat
        BY DEF NcnInv, NcnShape
      <3> QED BY <2>3, <3>1 DEF N!StoreCount, NcnInv, NcnShape
    <2> QED BY <2>1, <2>2, <2>3
  <1>2. /\ call' \in [pc : Before \cup {"idle", "read", "return"}, name : Names, owed : Nat,
                      reads : Seq(Nat), old : Nat, got : Seq(KnxByteT)]
        /\ call'.pc \in Before /\ call'.name = call.name /\ call'.owed = call.owed
        /\ call'.reads = call.reads /\ call'.got = call.got
    BY <1>1 DEF NcnInv, NcnShape, Before
  <1>3. /\ dev' = [next |-> dev'.next, buff |-> dev'.buff, running |-> dev'.running,
                   address_set |-> dev'.address_set, state |-> dev'.state]
        /\ dev'.buff \in Seq(KnxByteT)
    <2> DEFINE q == dev'.next
               b == dev'.buff
    <2>1. dev' = [dev EXCEPT !.next = q, !.buff = b] /\ b \in {<<>>, dev.buff}
      BY <1>1
    <2> HIDE DEF q, b
    <2>2. dev' = [next |-> dev'.next, buff |-> dev'.buff, running |-> dev'.running,
                  address_set |-> dev'.address_set, state |-> dev'.state]
          /\ dev'.buff = b
      BY <2>1 DEF NcnInv, NcnShape
    <2>3. <<>> \in Seq(KnxByteT) /\ dev.buff \in Seq(KnxByteT)
      BY DEF NcnInv, NcnShape
    <2> QED BY <2>1, <2>2, <2>3
  <1>4. NcnShape'
    BY <1>1, <1>2, <1>3 DEF NcnInv, NcnShape
  <1>5. call.pc \in Before
    BY <1>1 DEF Before
  <1>6. ReadsPart'
    BY <1>2, <1>5 DEF NcnInv, ReadsPart, Before
  <1>7. ReplyPart'
    BY <1>1, <1>2, <1>5 DEF NcnInv, ReplyPart, Before
  <1>8. TimePart'
    BY <1>1 DEF NcnInv, TimePart, N!LongGapsMarked
  <1> QED BY <1>4, <1>6, <1>7, <1>8 DEF NcnInv

\* The request goes out: from here on the chip owes the whole reply.
LEMMA RequestKeeps ==
  ASSUME N!NcnAssumption, NcnInv, N!ncn5120_send_service_request
  PROVE  NcnInv'
  <1> DEFINE r == [call |-> count.calls, i |-> 1, last |-> call.owed, name |-> call.name]
  <1>1. /\ call.pc = "send" /\ UNCHANGED <<bus, count, mixed, timing>>
        /\ call.owed = 0 => chip' = chip
        /\ call.owed # 0 => chip' = [chip EXCEPT !.todo = Append(@, r)]
    BY DEF N!ncn5120_send_service_request, N!Announced
  <1>2. PICK on \in {dev.running, FALSE}, state \in {"reset", dev.state} :
          dev' = [dev EXCEPT !.state = state, !.running = on]
    BY DEF N!ncn5120_send_service_request, NcnInv, NcnShape
  <1>3. /\ call.reads = <<>> => call' = [call EXCEPT !.pc = "return"]
        /\ call.reads # <<>> => call' = [call EXCEPT !.pc = "read"]
    BY DEF N!ncn5120_send_service_request
  <1>4. /\ call.got = <<>>
        /\ \/ call.owed = 0 /\ call.reads = <<>>
           \/ call.owed # 0 /\ call.name # "packet" /\ call.reads = <<call.owed>>
           \/ call.owed = Size + 4 /\ call.name = "packet" /\ call.reads = <<1, Size + 1, 2>>
    BY <1>1 DEF NcnInv, ReadsPart, Before
  <1>5. call.owed # 0 <=> call.reads # <<>>
    <2>1. Size + 4 # 0
      BY DEF N!NcnAssumption
    <2>2. <<1, Size + 1, 2>> # <<>> /\ <<call.owed>> # <<>>
      OBVIOUS
    <2> QED BY <1>4, <2>1, <2>2
  <1>6. r \in Requests
    BY DEF NcnInv, NcnShape, Requests
  <1> HIDE DEF r
  <1>7. /\ call' \in [pc : Before \cup {"idle", "read", "return"}, name : Names, owed : Nat,
                      reads : Seq(Nat), old : Nat, got : Seq(KnxByteT)]
        /\ call'.name = call.name /\ call'.owed = call.owed
        /\ call'.reads = call.reads /\ call'.got = call.got
        /\ call'.pc = IF call.reads = <<>> THEN "return" ELSE "read"
    BY <1>3 DEF NcnInv, NcnShape
  <1>8. /\ dev' = [next |-> dev'.next, buff |-> dev'.buff, running |-> dev'.running,
                   address_set |-> dev'.address_set, state |-> dev'.state]
        /\ dev'.buff = dev.buff /\ dev'.next = dev.next
    BY <1>2 DEF NcnInv, NcnShape
  <1>9. /\ chip' = [todo |-> chip'.todo, auto |-> chip'.auto] /\ chip'.todo \in Seq(Requests)
        /\ call.owed # 0 => chip'.todo = Append(chip.todo, r)
        /\ call.owed = 0 => chip'.todo = chip.todo
    <2>1. chip.todo \in Seq(Requests) /\ Append(chip.todo, r) \in Seq(Requests)
      BY <1>6 DEF NcnInv, NcnShape
    <2> QED BY <1>1, <2>1 DEF NcnInv, NcnShape
  <1>10. NcnShape'
    BY <1>1, <1>7, <1>8, <1>9 DEF NcnInv, NcnShape
  <1>11. ReadsPart'
    BY <1>4, <1>5, <1>7 DEF ReadsPart, Before
  <1>12. ReplyPart'
    <2> SUFFICES ASSUME ~mixed' PROVE ReplyPart'
      BY DEF ReplyPart
    <2>1. chip.todo = <<>> /\ dev.buff = <<>>
      BY <1>1 DEF NcnInv, ReplyPart
    <2>2. CASE call.owed = 0
      BY <1>4, <1>5, <1>7, <1>8, <1>9, <2>1, <2>2 DEF ReplyPart
    <2>3. CASE call.owed # 0
      <3>1. call'.pc = "read" /\ chip'.todo = <<r>>
        BY <1>5, <1>7, <1>9, <2>1, <2>3
      <3>2. InOrder' /\ Received' = 0
        BY <1>4, <1>7, <1>8, <2>1 DEF InOrder, Received
      <3>3. 0 < call'.owed
        BY <1>7, <2>3 DEF NcnInv, NcnShape
      <3> QED BY <1>1, <1>7, <3>1, <3>2, <3>3 DEF ReplyPart, r
    <2> QED BY <2>2, <2>3
  <1>13. TimePart'
    BY <1>1 DEF NcnInv, TimePart, N!LongGapsMarked
  <1> QED BY <1>10, <1>11, <1>12, <1>13 DEF NcnInv

\* What is cut off the front of a sequence, and what is left of it.
LEMMA Split ==
  ASSUME NEW D, NEW s \in Seq(D), NEW n \in Nat, n >= 1, Len(s) >= n
  PROVE  /\ SubSeq(s, 1, n) \in Seq(D) /\ Len(SubSeq(s, 1, n)) = n
         /\ \A k \in 1 .. n : SubSeq(s, 1, n)[k] = s[k]
         /\ SubSeq(s, n + 1, Len(s)) \in Seq(D) /\ Len(SubSeq(s, n + 1, Len(s))) = Len(s) - n
         /\ \A k \in 1 .. (Len(s) - n) : SubSeq(s, n + 1, Len(s))[k] = s[n + k]
  OBVIOUS

\* What one sequence put after another gives.
LEMMA Joined ==
  ASSUME NEW D, NEW s \in Seq(D), NEW t \in Seq(D)
  PROVE  /\ s \o t \in Seq(D) /\ Len(s \o t) = Len(s) + Len(t)
         /\ \A k \in 1 .. Len(s) : (s \o t)[k] = s[k]
         /\ \A k \in 1 .. Len(t) : (s \o t)[Len(s) + k] = t[k]
  OBVIOUS

\* A piece of the reply is read once it is there: what is left in the buffer
\* follows it.
LEMMA ReadKeeps ==
  ASSUME N!NcnAssumption, NcnInv, N!ncn5120_get_req_reply_data
  PROVE  NcnInv'
  <1> DEFINE n == Head(call.reads)
             piece == SubSeq(dev.buff, 1, n)
             rest == SubSeq(dev.buff, n + 1, Len(dev.buff))
             first == call.name = "packet" /\ Len(call.reads) = 3
             got == call.got \o piece
  <1>1. /\ call.pc = "read" /\ Len(dev.buff) >= n
        /\ UNCHANGED <<bus, chip, count, mixed, timing>>
    BY DEF N!ncn5120_get_req_reply_data
  <1>2. PICK failed \in BOOLEAN :
          /\ failed => first
          /\ (first /\ piece[1].call # 0) => (failed = (piece[1].i = 0))
          /\ dev' = [dev EXCEPT !.buff = IF failed THEN <<>> ELSE rest]
          /\ call' = [call EXCEPT !.got = @ \o piece,
                        !.reads = IF failed THEN <<>> ELSE Tail(@),
                        !.pc = IF failed \/ Len(call.reads) = 1 THEN "return" ELSE "read"]
    BY ZenonT(40) DEF N!ncn5120_get_req_reply_data, N!Rest
  <1>3. Size \in Nat
    BY DEF N!NcnAssumption
  <1>4. /\ call.owed # 0
        /\ \/ call.name # "packet" /\ call.reads = <<call.owed>> /\ call.got = <<>>
           \/ /\ call.name = "packet" /\ call.owed = Size + 4
              /\ \/ call.reads = <<1, Size + 1, 2>> /\ call.got = <<>>
                 \/ call.reads = <<Size + 1, 2>> /\ Len(call.got) = 1
                 \/ call.reads = <<2>> /\ Len(call.got) = Size + 2
    BY <1>1 DEF NcnInv, ReadsPart
  <1>5. /\ call.owed \in Nat /\ dev.buff \in Seq(KnxByteT) /\ call.got \in Seq(KnxByteT)
        /\ call.reads \in Seq(Nat)
    BY DEF NcnInv, NcnShape
  <1>6. /\ call.reads # <<>> /\ n \in Nat /\ n >= 1
        /\ \/ /\ call.name # "packet" /\ n = call.owed /\ Len(call.reads) = 1 /\ Len(call.got) = 0
           \/ /\ call.name = "packet" /\ call.owed = Size + 4
              /\ \/ /\ n = 1 /\ Len(call.reads) = 3 /\ Tail(call.reads) = <<Size + 1, 2>>
                    /\ Len(call.got) = 0
                 \/ /\ n = Size + 1 /\ Len(call.reads) = 2 /\ Tail(call.reads) = <<2>>
                    /\ Len(call.got) = 1
                 \/ n = 2 /\ Len(call.reads) = 1 /\ Len(call.got) = Size + 2
    <2>1. CASE call.name # "packet" /\ call.reads = <<call.owed>> /\ call.got = <<>>
      <3>1. n = call.owed /\ Len(call.reads) = 1 /\ Len(call.got) = 0
        BY <2>1
      <3> HIDE DEF n
      <3> QED BY <1>4, <1>5, <2>1, <3>1
    <2>2. CASE call.reads = <<1, Size + 1, 2>> /\ call.got = <<>> /\ call.name = "packet"
               /\ call.owed = Size + 4
      <3>1. n = 1 /\ Len(call.reads) = 3 /\ Tail(call.reads) = <<Size + 1, 2>> /\ Len(call.got) = 0
        BY <2>2
      <3> HIDE DEF n
      <3> QED BY <2>2, <3>1
    <2>3. CASE call.reads = <<Size + 1, 2>> /\ Len(call.got) = 1 /\ call.name = "packet"
               /\ call.owed = Size + 4
      <3>1. n = Size + 1 /\ Len(call.reads) = 2 /\ Tail(call.reads) = <<2>>
        BY <2>3
      <3> HIDE DEF n
      <3> QED BY <1>3, <2>3, <3>1
    <2>4. CASE call.reads = <<2>> /\ Len(call.got) = Size + 2 /\ call.name = "packet"
               /\ call.owed = Size + 4
      <3>1. n = 2 /\ Len(call.reads) = 1
        BY <2>4
      <3> HIDE DEF n
      <3> QED BY <2>4, <3>1
    <2> QED BY <1>4, <2>1, <2>2, <2>3, <2>4, Zenon
  <1>7. /\ piece \in Seq(KnxByteT) /\ Len(piece) = n /\ \A k \in 1 .. n : piece[k] = dev.buff[k]
        /\ rest \in Seq(KnxByteT) /\ Len(rest) = Len(dev.buff) - n
        /\ \A k \in 1 .. Len(rest) : rest[k] = dev.buff[n + k]
    <2> DEFINE b == dev.buff
    <2>1. \A s \in Seq(KnxByteT), k \in Nat : k >= 1 /\ Len(s) >= k =>
            /\ SubSeq(s, 1, k) \in Seq(KnxByteT) /\ Len(SubSeq(s, 1, k)) = k
            /\ \A j \in 1 .. k : SubSeq(s, 1, k)[j] = s[j]
            /\ SubSeq(s, k + 1, Len(s)) \in Seq(KnxByteT)
            /\ Len(SubSeq(s, k + 1, Len(s))) = Len(s) - k
            /\ \A j \in 1 .. (Len(s) - k) : SubSeq(s, k + 1, Len(s))[j] = s[k + j]
      BY Split
    <2>2. b \in Seq(KnxByteT) /\ n \in Nat /\ n >= 1 /\ Len(b) >= n
      <3> HIDE DEF n
      <3> QED BY <1>1, <1>5, <1>6
    <2>3. /\ SubSeq(b, 1, n) \in Seq(KnxByteT) /\ Len(SubSeq(b, 1, n)) = n
          /\ \A j \in 1 .. n : SubSeq(b, 1, n)[j] = b[j]
          /\ SubSeq(b, n + 1, Len(b)) \in Seq(KnxByteT)
          /\ Len(SubSeq(b, n + 1, Len(b))) = Len(b) - n
          /\ \A j \in 1 .. (Len(b) - n) : SubSeq(b, n + 1, Len(b))[j] = b[n + j]
      <3> HIDE DEF n, b
      <3> QED BY <2>1, <2>2, Zenon
    <2> QED BY <2>3, Zenon
  <1> HIDE DEF n, piece, rest
  <1>8. /\ got \in Seq(KnxByteT) /\ Len(got) = Len(call.got) + n
        /\ \A k \in 1 .. Len(call.got) : got[k] = call.got[k]
        /\ \A k \in 1 .. n : got[Len(call.got) + k] = piece[k]
    <2>1. call.got \in Seq(KnxByteT) /\ piece \in Seq(KnxByteT) /\ Len(piece) = n
      BY <1>5, <1>7
    <2>2. \A s, t \in Seq(KnxByteT) :
            /\ s \o t \in Seq(KnxByteT) /\ Len(s \o t) = Len(s) + Len(t)
            /\ \A k \in 1 .. Len(s) : (s \o t)[k] = s[k]
            /\ \A k \in 1 .. Len(t) : (s \o t)[Len(s) + k] = t[k]
      BY Joined
    <2>3. /\ got \in Seq(KnxByteT) /\ Len(got) = Len(call.got) + Len(piece)
          /\ \A k \in 1 .. Len(call.got) : got[k] = call.got[k]
          /\ \A k \in 1 .. Len(piece) : got[Len(call.got) + k] = piece[k]
      BY <2>1, <2>2, Zenon
    <2> HIDE DEF got
    <2> QED BY <2>1, <2>3
  <1> HIDE DEF got
  <1>9. Tail(call.reads) \in Seq(Nat)
    BY <1>5, <1>6
  <1>10. /\ call' \in [pc : Before \cup {"idle", "read", "return"}, name : Names, owed : Nat,
                       reads : Seq(Nat), old : Nat, got : Seq(KnxByteT)]
         /\ call'.name = call.name /\ call'.owed = call.owed /\ call'.got = got
         /\ failed => call'.reads = <<>>
         /\ ~failed => call'.reads = Tail(call.reads)
         /\ failed \/ Len(call.reads) = 1 => call'.pc = "return"
         /\ ~(failed \/ Len(call.reads) = 1) => call'.pc = "read"
    <2>1. PICK at \in {"read", "return"} :
            /\ at = IF failed \/ Len(call.reads) = 1 THEN "return" ELSE "read"
      BY Zenon
    <2>2. PICK left \in Seq(Nat) : left = IF failed THEN <<>> ELSE Tail(call.reads)
      <3>1. <<>> \in Seq(Nat)
        OBVIOUS
      <3> QED BY <1>9, <3>1, Zenon
    <2>3. call' = [call EXCEPT !.got = got, !.reads = left, !.pc = at]
      <3>1. CASE failed
        <4>1. call' = [call EXCEPT !.got = @ \o piece, !.reads = <<>>, !.pc = "return"]
          BY <1>2, <3>1
        <4> QED BY <2>1, <2>2, <3>1, <4>1 DEF NcnInv, NcnShape, got
      <3>2. CASE ~failed
        <4>1. call' = [call EXCEPT !.got = @ \o piece, !.reads = Tail(@),
                         !.pc = IF Len(call.reads) = 1 THEN "return" ELSE "read"]
          BY <1>2, <3>2
        <4>2. at = (IF Len(call.reads) = 1 THEN "return" ELSE "read") /\ left = Tail(call.reads)
          BY <2>1, <2>2, <3>2
        <4> QED BY <4>1, <4>2 DEF NcnInv, NcnShape, got
      <3> QED BY <3>1, <3>2
    <2>4. /\ call' \in [pc : Before \cup {"idle", "read", "return"}, name : Names, owed : Nat,
                        reads : Seq(Nat), old : Nat, got : Seq(KnxByteT)]
          /\ call'.name = call.name /\ call'.owed = call.owed /\ call'.got = got
          /\ call'.reads = left /\ call'.pc = at
      BY <1>8, <2>3 DEF NcnInv, NcnShape
    <2> QED BY <2>1, <2>2, <2>4
  <1>11. /\ dev' = [next |-> dev'.next, buff |-> dev'.buff, running |-> dev'.running,
                    address_set |-> dev'.address_set, state |-> dev'.state]
         /\ dev'.next = dev.next /\ dev'.buff \in Seq(KnxByteT)
         /\ failed => dev'.buff = <<>>
         /\ ~failed => dev'.buff = rest
    <2>1. PICK left \in Seq(KnxByteT) : left = IF failed THEN <<>> ELSE rest
      <3>1. <<>> \in Seq(KnxByteT)
        OBVIOUS
      <3> QED BY <1>7, <3>1, Zenon
    <2>2. dev' = [dev EXCEPT !.buff = left]
      BY <1>2, <2>1
    <2> QED BY <2>1, <2>2 DEF NcnInv, NcnShape
  <1>12. NcnShape'
    BY <1>1, <1>10, <1>11 DEF NcnInv, NcnShape
  <1>13. ReadsPart'
    <2> SUFFICES ASSUME call'.pc = "read"
                 PROVE  \/ call.reads = <<1, Size + 1, 2>> /\ call.got = <<>> /\ call.name = "packet"
                        \/ call.reads = <<Size + 1, 2>> /\ Len(call.got) = 1 /\ call.name = "packet"
      <3>1. call'.pc \notin Before
        BY <1>10 DEF Before
      <3>2. ASSUME call'.pc = "read", call.reads = <<1, Size + 1, 2>>, call.got = <<>>,
                   call.name = "packet"
            PROVE  call'.reads = <<Size + 1, 2>> /\ Len(call'.got) = 1 /\ call.owed = Size + 4
        <4>1. n = 1 /\ Tail(call.reads) = <<Size + 1, 2>> /\ Len(call.got) = 0
          BY <3>2 DEF n
        <4> QED BY <1>4, <1>8, <1>10, <3>2, <4>1
      <3>3. ASSUME call'.pc = "read", call.reads = <<Size + 1, 2>>, Len(call.got) = 1,
                   call.name = "packet"
            PROVE  call'.reads = <<2>> /\ Len(call'.got) = Size + 2 /\ call.owed = Size + 4
        <4>1. n = Size + 1 /\ Tail(call.reads) = <<2>>
          BY <3>3 DEF n
        <4>2. Len(call'.got) = 1 + (Size + 1)
          BY <1>8, <1>10, <3>3, <4>1
        <4> QED BY <1>3, <1>4, <1>10, <3>3, <4>1, <4>2
      <3> QED BY <1>4, <1>10, <3>1, <3>2, <3>3 DEF ReadsPart
    <2>1. Len(call.reads) # 1
      BY <1>10
    <2>2. call.reads = <<call.owed>> \/ call.reads = <<2>> => Len(call.reads) = 1
      OBVIOUS
    <2> QED BY <1>4, <2>1, <2>2
  <1>14. ReplyPart'
    <2> SUFFICES ASSUME ~mixed' PROVE ReplyPart'
      BY DEF ReplyPart
    <2>1. ~mixed /\ count.calls # 0 /\ count' = count /\ chip' = chip
      BY <1>1 DEF NcnInv, NcnShape
    <2>2. \/ /\ InOrder /\ Received < call.owed
             /\ chip.todo = <<[call |-> count.calls, i |-> Received + 1, last |-> call.owed,
                               name |-> call.name]>>
          \/ InOrder /\ Received = call.owed /\ chip.todo = <<>>
          \/ /\ call.name = "packet" /\ call.got = <<>> /\ dev.buff = <<Own(0)>>
             /\ call.reads = <<1, Size + 1, 2>> /\ chip.todo = <<>>
      BY <1>1, <2>1 DEF NcnInv, ReplyPart
    <2>3. CASE /\ call.name = "packet" /\ call.got = <<>> /\ dev.buff = <<Own(0)>>
               /\ call.reads = <<1, Size + 1, 2>> /\ chip.todo = <<>>
      <3>1. n = 1 /\ Len(call.reads) = 3 /\ Len(call.got) = 0
        BY <2>3 DEF n
      <3>2. piece[1] = Own(0) /\ Own(0).call = count.calls /\ Own(0).i = 0
        BY <1>7, <2>3, <3>1 DEF Own
      <3>3. failed
        BY <1>2, <2>1, <2>3, <3>1, <3>2
      <3>4. Len(got) = 1 /\ got[1] = Own(0)
        BY <1>8, <3>1, <3>2
      <3>5. \A k \in 1 .. Len(call'.got) : call'.got[k].call = count'.calls /\ call'.got[k].i \in {0, k}
        BY <1>10, <2>1, <3>2, <3>4
      <3> QED BY <1>10, <1>11, <2>1, <2>3, <3>3, <3>5 DEF ReplyPart
    <2>4. CASE InOrder
      <3>1. \A k \in 1 .. n : piece[k] = Own(Len(call.got) + k)
        <4> DEFINE d == Len(dev.buff)
        <4>1. d \in Nat /\ d >= n
          BY <1>1, <1>5
        <4>2. \A k \in 1 .. d : dev.buff[k] = Own(Len(call.got) + k)
          BY <2>4 DEF InOrder
        <4> HIDE DEF d
        <4>3. \A k \in 1 .. n : k \in 1 .. d
          BY <1>6, <4>1
        <4> QED BY <1>7, <4>2, <4>3
      <3>2. ~failed
        <4>1. first => Len(call.got) = 0
          BY <1>6
        <4>2. first => piece[1] = Own(1)
          <5>1. 1 \in 1 .. n /\ 0 + 1 = 1
            BY <1>6
          <5> QED BY <3>1, <4>1, <5>1
        <4>3. Own(1).call = count.calls /\ Own(1).i = 1
          BY DEF Own
        <4> QED BY <1>2, <2>1, <4>2, <4>3
      <3> DEFINE g == Len(call.got)
                 d == Len(dev.buff)
      <3>3. g \in Nat /\ d \in Nat /\ d >= n /\ Received = g + d
        BY <1>1, <1>5 DEF Received
      <3>4. \A k \in 1 .. g : call.got[k] = Own(k)
        BY <2>4 DEF InOrder
      <3>5. \A k \in 1 .. d : dev.buff[k] = Own(g + k)
        BY <2>4 DEF InOrder
      <3>6. /\ Len(got) = g + n /\ Len(rest) = d - n
            /\ \A k \in 1 .. g : got[k] = call.got[k]
            /\ \A k \in 1 .. n : got[g + k] = piece[k]
            /\ \A k \in 1 .. Len(rest) : rest[k] = dev.buff[n + k]
        BY <1>7, <1>8
      <3>7. call'.got = got /\ dev'.buff = rest /\ call'.reads = Tail(call.reads)
        BY <1>10, <1>11, <3>2
      <3>8. \A k \in 1 .. g : k \in Nat
        OBVIOUS
      <3> HIDE DEF g, d
      <3>9. \A k \in 1 .. (g + n) : got[k] = Own(k)
        <4> TAKE k \in 1 .. (g + n)
        <4>1. CASE k \in 1 .. g
          BY <3>4, <3>6, <4>1
        <4>2. CASE k \notin 1 .. g
          <5> DEFINE j == k - g
          <5>1. j \in 1 .. n /\ k = g + j
            BY <1>6, <3>3, <4>2
          <5> HIDE DEF j
          <5>2. got[g + j] = piece[j] /\ piece[j] = Own(g + j)
            BY <3>1, <3>6, <5>1 DEF g
          <5> QED BY <5>1, <5>2
        <4> QED BY <4>1, <4>2
      <3>10. \A k \in 1 .. Len(rest) : rest[k] = Own((g + n) + k)
        <4> TAKE k \in 1 .. Len(rest)
        <4>1. n + k \in 1 .. d /\ g + (n + k) = (g + n) + k
          BY <1>6, <3>3, <3>6
        <4> QED BY <3>5, <3>6, <4>1
      <3>11. InOrder' /\ Received' = Received
        <4>1. Received' = Len(got) + Len(rest)
          BY <3>7 DEF Received
        <4>2. Len(got) + Len(rest) = Received
          BY <1>6, <3>3, <3>6
        <4> QED BY <2>1, <3>6, <3>7, <3>9, <3>10, <4>1, <4>2 DEF InOrder, Own
      <3>12. CASE Len(call.reads) # 1
        <4>1. call'.pc = "read" /\ call'.owed = call.owed /\ call'.name = call.name
          BY <1>10, <3>2, <3>12
        <4>2. \/ /\ InOrder /\ Received < call.owed
                 /\ chip.todo = <<[call |-> count.calls, i |-> Received + 1, last |-> call.owed,
                                   name |-> call.name]>>
              \/ InOrder /\ Received = call.owed /\ chip.todo = <<>>
          <5>1. CASE /\ call.name = "packet" /\ call.got = <<>> /\ dev.buff = <<Own(0)>>
                     /\ call.reads = <<1, Size + 1, 2>> /\ chip.todo = <<>>
            <6>1. dev.buff[1] = Own(0) /\ dev.buff[1] = Own(0 + 1)
              <7>1. g = 0 /\ d = 1
                BY <5>1 DEF g, d
              <7> QED BY <3>5, <5>1, <7>1
            <6> QED BY <6>1 DEF Own
          <5> QED BY <2>2, <5>1
        <4> QED BY <2>1, <3>11, <4>1, <4>2 DEF ReplyPart
      <3>13. CASE Len(call.reads) = 1
        <4>1. call'.pc = "return"
          BY <1>10, <3>13
        <4>2. g + n = call.owed
          <5>1. \/ n = call.owed /\ g = 0
                \/ n = 2 /\ g = Size + 2 /\ call.owed = Size + 4
            BY <1>6, <3>13 DEF g
          <5> QED BY <1>3, <1>5, <5>1
        <4>3. Received = call.owed /\ chip.todo = <<>>
          <5>1. ~(Received < call.owed)
            BY <1>5, <1>6, <3>3, <4>2
          <5>2. call.reads # <<1, Size + 1, 2>>
            BY <3>13
          <5> QED BY <2>2, <5>1, <5>2
        <4>4. rest = <<>>
          <5>1. Len(rest) = 0
            BY <1>6, <3>3, <3>6, <4>2, <4>3
          <5> QED BY <1>7, <5>1
        <4>5. \A k \in 1 .. Len(call'.got) : call'.got[k].call = count'.calls /\ call'.got[k].i \in {0, k}
          BY <2>1, <3>6, <3>7, <3>9 DEF Own
        <4> QED BY <2>1, <3>7, <4>1, <4>3, <4>4, <4>5 DEF ReplyPart
      <3> QED BY <3>12, <3>13
    <2> QED BY <2>2, <2>3, <2>4
  <1>15. TimePart'
    BY <1>1 DEF NcnInv, TimePart, N!LongGapsMarked
  <1> QED BY <1>12, <1>13, <1>14, <1>15 DEF NcnInv

\* What a call leaves behind when it returns.
LEMMA ReturnKeeps ==
  ASSUME NcnInv, N!Return
  PROVE  NcnInv'
  <1>1. /\ call.pc = "return" /\ UNCHANGED <<bus, chip, count, mixed, timing>>
        /\ call' = [N!Idle EXCEPT !.name = call.name, !.got = call.got]
    BY DEF N!Return
  <1>2. PICK right \in BOOLEAN :
          dev' = [dev EXCEPT !.state = N!StateAfter(call.name, right),
                             !.address_set = @ \/ call.name = "address"]
    BY ZenonT(40) DEF N!Return
  <1>3. /\ dev' = [next |-> dev'.next, buff |-> dev'.buff, running |-> dev'.running,
                   address_set |-> dev'.address_set, state |-> dev'.state]
        /\ dev'.buff = dev.buff /\ dev'.next = dev.next
    <2> DEFINE state == N!StateAfter(call.name, right)
               set == dev.address_set \/ call.name = "address"
    <2>1. dev' = [dev EXCEPT !.state = state, !.address_set = set]
      BY <1>2
    <2> HIDE DEF state, set
    <2> QED BY <2>1 DEF NcnInv, NcnShape
  <1>4. /\ call' \in [pc : Before \cup {"idle", "read", "return"}, name : Names, owed : Nat,
                      reads : Seq(Nat), old : Nat, got : Seq(KnxByteT)]
        /\ call'.pc = "idle" /\ call'.got = call.got
    <2>1. call' = [pc |-> "idle", name |-> call.name, owed |-> 0, reads |-> <<>>, old |-> 0,
                   got |-> call.got]
      BY <1>1 DEF N!Idle
    <2>2. call.name \in Names /\ call.got \in Seq(KnxByteT) /\ <<>> \in Seq(Nat)
      BY DEF NcnInv, NcnShape
    <2> QED BY <2>1, <2>2
  <1>5. NcnShape'
    BY <1>1, <1>3, <1>4 DEF NcnInv, NcnShape
  <1>6. ReadsPart'
    BY <1>4 DEF ReadsPart, Before
  <1>7. ReplyPart'
    BY <1>1, <1>3, <1>4 DEF NcnInv, ReplyPart
  <1>8. TimePart'
    BY <1>1 DEF NcnInv, TimePart, N!LongGapsMarked
  <1> QED BY <1>5, <1>6, <1>7, <1>8 DEF NcnInv

\* The calls of the application.
Calls ==
  \/ N!ncn5120_set_analog_config \/ N!ncn5120_watchdog_config \/ N!ncn5120_enter_sleep
  \/ N!ncn5120_set_number_of_retries
  \/ N!ncn5120_set_busy_state \/ N!ncn5120_enter_monitor_mode \/ N!ncn5120_packet_acknowledge
  \/ N!ncn5120_set_comm_config \/ N!ncn5120_set_address \/ N!ncn5120_get_analog_status
  \/ N!ncn5120_get_comm_status \/ N!ncn5120_get_system_status \/ N!ncn5120_reset
  \/ N!ncn5120_set_stop_state \/ N!ncn5120_send_packet

\* What each of them announces and reads.
LEMMA CallStarts ==
  ASSUME N!NcnAssumption, Calls
  PROVE  \E name \in Names, owed \in Nat, reads \in Seq(Nat), guarded, drop \in BOOLEAN :
           /\ N!Start(name, guarded, drop, owed, reads)
           /\ \/ owed = 0 /\ reads = <<>>
              \/ owed # 0 /\ name # "packet" /\ reads = <<owed>>
              \/ owed = Size + 4 /\ name = "packet" /\ reads = <<1, Size + 1, 2>>
  <1>1. <<>> \in Seq(Nat) /\ <<1>> \in Seq(Nat) /\ <<2>> \in Seq(Nat) /\ 0 \in Nat /\ 1 \in Nat
        /\ 2 \in Nat /\ 1 # 0 /\ 2 # 0 /\ TRUE \in BOOLEAN /\ FALSE \in BOOLEAN
    OBVIOUS
  <1>2. ASSUME NEW name \in Names, NEW guarded \in BOOLEAN, NEW drop \in BOOLEAN,
               \/ N!Start(name, guarded, drop, 0, <<>>)
               \/ name # "packet" /\ \E n \in {1, 2} : N!Start(name, guarded, drop, n, <<n>>)
        PROVE  \E m \in Names, owed \in Nat, reads \in Seq(Nat), g, d \in BOOLEAN :
                 /\ N!Start(m, g, d, owed, reads)
                 /\ \/ owed = 0 /\ reads = <<>>
                    \/ owed # 0 /\ m # "packet" /\ reads = <<owed>>
                    \/ owed = Size + 4 /\ m = "packet" /\ reads = <<1, Size + 1, 2>>
    BY <1>1, <1>2, Zenon
  <1>3. CASE N!ncn5120_send_packet
    <2>1. Size + 4 \in Nat /\ <<1, Size + 1, 2>> \in Seq(Nat) /\ "packet" \in Names
      BY DEF N!NcnAssumption, Names
    <2>2. N!Start("packet", TRUE, FALSE, Size + 4, <<1, Size + 1, 2>>)
      BY <1>3 DEF N!ncn5120_send_packet
    <2> QED BY <1>1, <2>1, <2>2, Zenon
  <1>4. {"analog", "watchdog", "sleep", "retries", "busy", "quit_busy", "monitor", "acknowledge",
         "config", "address", "status", "comm", "system", "reset", "stop", "quit_stop"}
        \subseteq Names \ {"packet"}
    BY DEF Names
  <1>5. CASE \/ N!ncn5120_set_analog_config \/ N!ncn5120_watchdog_config \/ N!ncn5120_enter_sleep
             \/ N!ncn5120_set_number_of_retries \/ N!ncn5120_enter_monitor_mode
             \/ N!ncn5120_packet_acknowledge
    <2>1. \E name \in {"analog", "watchdog", "sleep", "retries", "monitor", "acknowledge"} :
            N!Start(name, FALSE, FALSE, 0, <<>>)
      BY <1>5, Zenon DEF N!ncn5120_set_analog_config, N!ncn5120_watchdog_config, N!ncn5120_enter_sleep,
             N!ncn5120_set_number_of_retries, N!ncn5120_enter_monitor_mode,
             N!ncn5120_packet_acknowledge, N!ncn5120_set_internal_register
    <2> QED BY <1>1, <1>2, <1>4, <2>1
  <1>6. CASE N!ncn5120_set_busy_state
    <2>1. \E name \in {"busy", "quit_busy"} : N!Start(name, FALSE, FALSE, 0, <<>>)
      BY <1>6 DEF N!ncn5120_set_busy_state
    <2> QED BY <1>1, <1>2, <1>4, <2>1
  <1>7. CASE N!ncn5120_set_stop_state
    <2>1. \E name \in {"stop", "quit_stop"} : N!Start(name, FALSE, FALSE, 1, <<1>>)
      BY <1>7 DEF N!ncn5120_set_stop_state
    <2> QED BY <1>1, <1>2, <1>4, <2>1
  <1>8. CASE N!ncn5120_set_comm_config \/ N!ncn5120_set_address
    <2>1. \E name \in {"config", "address"} : N!Start(name, TRUE, FALSE, 1, <<1>>)
      BY <1>8, Zenon DEF N!ncn5120_set_comm_config, N!ncn5120_set_address
    <2> QED BY <1>1, <1>2, <1>4, <2>1
  <1>9. CASE N!ncn5120_get_analog_status
    <2>1. N!Start("status", TRUE, TRUE, 1, <<1>>)
      BY <1>9 DEF N!ncn5120_get_analog_status
    <2> QED BY <1>1, <1>2, <1>4, <2>1
  <1>10. CASE N!ncn5120_get_comm_status
    <2>1. N!Start("comm", FALSE, FALSE, 1, <<1>>)
      BY <1>10 DEF N!ncn5120_get_comm_status
    <2> QED BY <1>1, <1>2, <1>4, <2>1
  <1>11. CASE N!ncn5120_get_system_status
    <2>1. N!Start("system", TRUE, FALSE, 2, <<2>>)
      BY <1>11 DEF N!ncn5120_get_system_status
    <2> QED BY <1>1, <1>2, <1>4, <2>1
  <1>12. CASE N!ncn5120_reset
    <2>1. N!Start("reset", FALSE, TRUE, 1, <<1>>)
      BY <1>12 DEF N!ncn5120_reset
    <2> QED BY <1>1, <1>2, <1>4, <2>1
  <1> QED BY <1>3, <1>5, <1>6, <1>7, <1>8, <1>9, <1>10, <1>11, <1>12, Zenon DEF Calls

\* Every step of the driver, the chip and the bus keeps the invariant.
LEMMA NcnKeeps == PartAssumptions /\ NcnInv /\ [N!Next]_knx => NcnInv'
  <1> SUFFICES ASSUME PartAssumptions, NcnInv, [N!Next]_knx
               PROVE  NcnInv'
    OBVIOUS
  <1>1. N!NcnAssumption
    BY DEF PartAssumptions
  <1>2. CASE UNCHANGED knx
    <2>1. UNCHANGED <<dev, call, chip, count, mixed, timing>>
      BY <1>2 DEF knx
    <2>2. NcnShape' /\ ReadsPart'
      BY <2>1 DEF NcnInv, NcnShape, ReadsPart
    <2>3. ReplyPart' /\ TimePart'
      BY <2>1 DEF NcnInv, ReplyPart, InOrder, Own, Received, TimePart, N!LongGapsMarked
    <2> QED BY <2>2, <2>3 DEF NcnInv
  <1>3. CASE N!Step
    BY <1>1, <1>3, AnnounceKeeps, RequestKeeps, ReadKeeps, ReturnKeeps DEF N!Step
  <1>4. CASE N!KnxByte
    BY <1>1, <1>4, KnxByteKeeps
  <1>5. ASSUME chip.todo # <<>> PROVE Head(chip.todo).i \in Nat
    <2>1. chip.todo \in Seq(Requests) /\ chip.todo # <<>>
      BY <1>5 DEF NcnInv, NcnShape
    <2>2. Head(chip.todo) \in Requests
      BY <2>1
    <2> QED BY <2>2 DEF Requests
  <1>6. CASE N!Reply
    <2> DEFINE r == Head(chip.todo)
    <2>1. /\ chip.todo # <<>> /\ UNCHANGED <<bus, call, count>>
          /\ N!ncn5120_handle_rx([call |-> r.call, i |-> r.i], 0)
          /\ chip' = N!Answered(r, r.i = r.last)
      BY <1>6 DEF N!Reply
    <2>2. CASE r.i = r.last
      <3>1. chip' = N!Answered(r, 1 # 0)
        BY <2>1, <2>2 DEF N!Answered
      <3>2. r.i \in Nat /\ 1 \in Nat /\ (1 # 0 <=> r.i = r.last)
        BY <1>5, <2>1, <2>2
      <3> QED BY <1>1, <2>1, <3>1, <3>2, AnswerKeeps, Zenon
    <2>3. CASE r.i # r.last
      <3>1. chip' = N!Answered(r, 0 # 0)
        BY <2>1, <2>3 DEF N!Answered
      <3>2. r.i \in Nat /\ 0 \in Nat /\ (0 # 0 <=> r.i = r.last)
        BY <1>5, <2>1, <2>3
      <3> QED BY <1>1, <2>1, <3>1, <3>2, AnswerKeeps, Zenon
    <2> QED BY <2>2, <2>3
  <1>7. CASE N!SendFails
    <2> DEFINE r == Head(chip.todo)
    <2>1. /\ chip.todo # <<>> /\ UNCHANGED <<bus, call, count>>
          /\ r.name = "packet" /\ r.i = 1
          /\ N!ncn5120_handle_rx([call |-> r.call, i |-> 0], 0)
          /\ chip' = N!Answered(r, TRUE)
      BY <1>7 DEF N!SendFails
    <2>2. chip' = N!Answered(r, 1 # 0)
      BY <2>1 DEF N!Answered
    <2>3. 0 \in Nat /\ 1 \in Nat /\ 0 = 0 /\ 1 # 0
      OBVIOUS
    <2> QED BY <1>1, <2>1, <2>2, <2>3, AnswerKeeps, Zenon
  <1>8. CASE Calls
    <2>1. PICK name \in Names, owed \in Nat, reads \in Seq(Nat), guarded, drop \in BOOLEAN :
            /\ N!Start(name, guarded, drop, owed, reads)
            /\ \/ owed = 0 /\ reads = <<>>
               \/ owed # 0 /\ name # "packet" /\ reads = <<owed>>
               \/ owed = Size + 4 /\ name = "packet" /\ reads = <<1, Size + 1, 2>>
      BY <1>1, <1>8, CallStarts
    <2> QED BY <2>1, StartReads
  <1> QED BY <1>2, <1>3, <1>4, <1>6, <1>7, <1>8 DEF N!Next, N!Chip, Calls

\* What a call of the transceiver's driver read is its own reply from the first
\* byte on, whatever packets failed and whatever count was left over, unless a byte
\* was taken for one of another kind; and the byte after a silence of three
\* milliseconds ends the frame, whatever the phase and the reload value of the tick
\* (ncn5120_handle_rx, ncn5120_get_req_reply_data).
THEOREM TransceiverKeptAlways == AllSpec => []TransceiverKept
  <1>1. AllInit /\ [][AllNext]_allVars => []NcnInv
    <2>1. [AllNext]_allVars => [N!Next]_knx
      BY DEF AllNext, allVars, knx
    <2> QED BY <2>1, PartAssumptions, NcnInit, NcnKeeps, PTL
  <1>2. NcnInv => TransceiverKept
    <2> SUFFICES ASSUME NcnInv PROVE N!RepliesMatch /\ N!LongGapsMarked
      BY DEF TransceiverKept
    <2>1. N!LongGapsMarked
      BY DEF NcnInv, TimePart
    <2>2. N!RepliesMatch
      <3> SUFFICES ASSUME ~mixed, NEW k \in DOMAIN call.got
                   PROVE  call.got[k].call = count.calls /\ call.got[k].i \in {0, k}
        BY DEF N!RepliesMatch
      <3>1. k \in 1 .. Len(call.got)
        BY DEF NcnInv, NcnShape
      <3>2. CASE call.pc \in {"idle", "return"}
        BY <3>1, <3>2 DEF NcnInv, ReplyPart
      <3>3. CASE call.pc \in Before
        BY <3>1, <3>3 DEF NcnInv, ReadsPart
      <3>4. CASE call.pc = "read"
        <4>1. InOrder \/ call.got = <<>>
          BY <3>4 DEF NcnInv, ReplyPart
        <4>2. CASE call.got = <<>>
          BY <3>1, <4>2
        <4>3. CASE InOrder
          <5>1. call.got[k] = [call |-> count.calls, i |-> k]
            BY <3>1, <4>3 DEF InOrder, Own
          <5> QED BY <5>1
        <4> QED BY <4>1, <4>2, <4>3
      <3> QED BY <3>2, <3>3, <3>4 DEF NcnInv, NcnShape
    <2> QED BY <2>1, <2>2
  <1> QED BY <1>1, <1>2, PTL DEF AllSpec
=============================================================================
