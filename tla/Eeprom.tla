------------------------------- MODULE Eeprom -------------------------------
(***************************************************************************)
(* An I2C EEPROM behind its driver extdrv/eeprom.c, over the I2C engine of *)
(* the microcontroller (I2c).  The caller waits in each i2c_read and       *)
(* i2c_write, so the driver's steps are the returns of these calls; under  *)
(* them the bus raises one event at a time and the handler answers it.     *)
(* The bus and the chip are not code of the repository: they are modelled  *)
(* from the status codes the handler expects and from the two kinds of     *)
(* chip the driver speaks to.  "small" chips take the upper bits of the    *)
(* offset in the bus address and answer to all addresses, "big" ones take  *)
(* two bytes of offset.  A write fills a page buffer, wrapping at its end, *)
(* which the STOP commits; then the chip acknowledges nothing until its    *)
(* write cycle ends.                                                       *)
(***************************************************************************)
EXTENDS I2c, FiniteSets

CONSTANTS
  Ops,         \* calls: [kind, off, data]; of a read the length of data counts
  Chips,       \* the kinds of chip there may be: small, big, absent
  Size,        \* bytes of the chip
  LoSize,      \* offsets the low address byte tells apart
  SmallPage,   \* EEPROM_ID_SMALL_PAGE_SIZE
  BigPage,     \* EEPROM_ID_BIG_PAGE_SIZE
  MaxFaults,   \* bound: bus faults
  MaxRestarts, \* bound: restarts of the board
  RoughProbe   \* whether the detection may meet faults and a write cycle

SizeAssumption ==
  /\ Size \in Nat \ {0} /\ LoSize \in Nat \ {0}
  /\ SmallPage \in Nat \ {0} /\ BigPage \in Nat \ {0}
  /\ Size % SmallPage = 0 /\ Size % BigPage = 0
OpAssumption ==
  \A o \in Ops : /\ o.kind \in {"read", "write"}
                 /\ o.data \in Seq(Nat) /\ Len(o.data) > 0
                 /\ o.off \in Nat /\ o.off + Len(o.data) <= Size
BoundAssumption ==
  /\ Chips \subseteq {"small", "big", "absent"} /\ Chips # {}
  /\ MaxFaults \in Nat /\ MaxRestarts \in Nat /\ RoughProbe \in BOOLEAN

VARIABLES
  eepromType, \* eeprom_type: unset (negative), none, small or big
  pc,         \* which return the caller waits for
  op,         \* the call
  written,    \* write_count
  answer,     \* what the last call returned
  chip,       \* the kind of chip that is there
  mem,        \* its contents
  page,       \* offset -> byte: what the STOP will commit
  ptr,        \* its address counter
  phase,      \* what the chip takes the next byte for
  busy,       \* its write cycle
  bus,        \* what the bus does: idle, addr, send or recv
  faults, restarts

callerVars == <<eepromType, pc, op, written, answer>>
chipVars   == <<mem, page, ptr, phase, busy>>
limitVars  == <<chip, faults, restarts>>
vars == <<i2cVars, callerVars, chipVars, bus, limitVars>>

Offset  == 0 .. Size - 1
Empty   == [o \in Offset |-> 0]
NoBytes == [o \in {} |-> 0]
Answer(r, data) == [r |-> r, data |-> data]
Waiting == Answer("waiting", <<>>)
Ok      == Answer("ok", <<>>)
Failed  == Answer("failed", <<>>)

Init ==
  /\ I2cInit
  /\ eepromType = "unset" /\ pc = "idle" /\ op \in Ops
  /\ written = 0 /\ answer = Failed
  /\ chip \in Chips /\ mem = Empty /\ page = NoBytes /\ ptr = 0
  /\ phase = "none" /\ busy = FALSE /\ bus = "idle"
  /\ faults = 0 /\ restarts = 0

-----------------------------------------------------------------------------
(* The driver.                                                             *)

OutsideUnchanged == <<chipVars, bus, limitVars>>

\* A call of eeprom_read or eeprom_write; the STOP of the last one is out.
Call ==
  /\ pc = "idle" /\ ~sto
  /\ op' \in Ops
  /\ pc' = "type" /\ written' = 0 /\ answer' = Waiting
  /\ UNCHANGED <<i2cVars, eepromType, OutsideUnchanged>>

Byte(k, v) == [k |-> k, v |-> v]
\* The chip sits at EEPROM_ID_SMALL_ADDR_1, the first bus address.
EepromAddr == Byte("w", 0)
\* eeprom_detect asks another address first: only small chips answer to all.
\* Mutant: it asks the chip's own.
ProbeOwn == EepromAddr
ProbeFirst == Byte("w", 1)

Return(result) ==
  /\ pc' = "idle" /\ answer' = result
  /\ UNCHANGED <<op, written>>

\* get_eeprom_type: the kind is looked for unless an earlier call found it.
ProbeSmall ==
  /\ pc = "type" /\ eepromType = "unset"
  /\ StartRead(<<ProbeFirst>>, <<>>, 0)
  /\ pc' = "probedSmall"
  /\ UNCHANGED <<eepromType, op, written, answer, OutsideUnchanged>>
ProbedSmall ==
  /\ pc = "probedSmall" /\ Finished
  /\ IF Success
     THEN eepromType' = "small" /\ pc' = "type" /\ UNCHANGED i2cVars
     ELSE StartRead(<<EepromAddr>>, <<>>, 0) /\ pc' = "probedBig" /\ UNCHANGED eepromType
  /\ UNCHANGED <<op, written, answer, OutsideUnchanged>>
ProbedBig ==
  /\ pc = "probedBig" /\ Finished
  /\ eepromType' = IF Success THEN "big"
                   ELSE IF state = "nack" THEN "none" ELSE "unset"
  /\ IF Success THEN pc' = "type" /\ UNCHANGED <<op, written, answer>>
     ELSE Return(Failed)
  /\ UNCHANGED <<i2cVars, OutsideUnchanged>>
NoEeprom ==
  /\ pc = "type" /\ eepromType = "none"
  /\ Return(Failed)
  /\ UNCHANGED <<i2cVars, eepromType, OutsideUnchanged>>

\* The bytes that address the offset o.
Address(o) ==
  IF eepromType = "small"
  THEN <<Byte("w", o \div LoSize), Byte("d", o % LoSize)>>
  ELSE <<EepromAddr, Byte("d", o \div LoSize), Byte("d", o % LoSize)>>
ReadAddress == Byte("r", 0)
ReadControl(o) == [i \in 1 .. Len(Address(o)) |->
                     IF i = Len(Address(o)) THEN "restart" ELSE "cont"]

Read ==
  /\ pc = "type" /\ eepromType \in {"small", "big"} /\ op.kind = "read"
  /\ StartRead(Append(Address(op.off), ReadAddress), Append(ReadControl(op.off), "cont"),
               Len(op.data))
  /\ pc' = "read"
  /\ UNCHANGED <<eepromType, op, written, answer, OutsideUnchanged>>
ReadReturns ==
  /\ pc = "read" /\ Finished
  /\ Return(IF Success THEN Answer("ok", [i \in 1 .. readLength |-> inBuff[i].v]) ELSE Failed)
  /\ UNCHANGED <<i2cVars, eepromType, OutsideUnchanged>>

PageSize == IF eepromType = "small" THEN SmallPage ELSE BigPage
Least(a, b) == IF a < b THEN a ELSE b
\* How much of the rest goes in one page write.  Mutant: a page from anywhere.
ChunkUnaligned(o, rest) == Least(PageSize, rest)
Chunk(o, rest) == Least(PageSize - (o % PageSize), rest)

\* The loop of eeprom_write, n bytes being written: the next page.
SizeAt(n) == Chunk(op.off + n, Len(op.data) - n)
WritePage(n) ==
  /\ StartWrite(Address(op.off + n) \o
                [i \in 1 .. SizeAt(n) |-> Byte("d", op.data[n + i])])
  /\ pc' = "wrote"
Write ==
  /\ pc = "type" /\ eepromType \in {"small", "big"} /\ op.kind = "write"
  /\ WritePage(0)
  /\ UNCHANGED <<eepromType, op, written, answer, OutsideUnchanged>>

\* After a page the chip is asked until it answers.
PollReturns == Finished /\ Success
Poll == StartWrite(<<outBuff[1]>>) /\ pc' = "polled"
Wrote ==
  /\ pc = "wrote" /\ Finished
  /\ IF Success THEN Poll /\ UNCHANGED <<op, written, answer>>
     ELSE Return(Failed) /\ UNCHANGED i2cVars
  /\ UNCHANGED <<eepromType, OutsideUnchanged>>
PollAgain ==
  /\ pc = "polled" /\ Finished /\ ~PollReturns
  /\ Poll
  /\ UNCHANGED <<eepromType, op, written, answer, OutsideUnchanged>>
Polled ==
  /\ pc = "polled" /\ PollReturns
  /\ written' = written + SizeAt(written)
  /\ IF written' < Len(op.data)
     THEN WritePage(written') /\ UNCHANGED answer
     ELSE pc' = "idle" /\ answer' = Ok /\ UNCHANGED i2cVars
  /\ UNCHANGED <<eepromType, op, OutsideUnchanged>>

Driver ==
  \/ ProbeSmall \/ ProbedSmall \/ ProbedBig \/ NoEeprom \/ Read \/ ReadReturns
  \/ Write \/ Wrote \/ PollAgain \/ Polled

-----------------------------------------------------------------------------
(* The bus and the chip, an event when none is pending.                    *)

Free == status = None
Raise(code) == status' = code
BusUnchanged == <<state, callVars, writeIndex, readIndex, sta, aa>>

\* The chip writes the page it has received, if any.
Written == [o \in Offset |-> IF o \in DOMAIN page THEN page[o] ELSE mem[o]]
Commit == mem' = Written /\ busy' = (busy \/ page # NoBytes)
Forget == page' = NoBytes /\ phase' = "none"

Stop ==
  /\ Free /\ sto
  /\ sto' = FALSE /\ bus' = "idle"
  /\ Commit /\ Forget
  /\ UNCHANGED <<BusUnchanged, dat, status, ptr, callerVars, limitVars>>

Start ==
  /\ Free /\ sta /\ ~sto
  /\ Raise(IF bus = "idle" THEN "08" ELSE "10")
  /\ bus' = "addr"
  /\ Forget
  /\ UNCHANGED <<BusUnchanged, sto, dat, mem, ptr, busy, callerVars, limitVars>>

Shifts(at) == Free /\ ~sta /\ ~sto /\ bus = at

\* The address byte: the chip answers if it is meant and not busy.
Meant == ~busy /\ (chip = "small" \/ (chip = "big" /\ dat.v = 0))
SendAddress ==
  /\ Shifts("addr")
  /\ IF dat.k = "w"
     THEN /\ Raise(IF Meant THEN "18" ELSE "20") /\ bus' = "send"
          /\ phase' = IF ~Meant THEN "none" ELSE IF chip = "small" THEN "lo" ELSE "hi"
          /\ ptr' = IF Meant /\ chip = "small" THEN (dat.v * LoSize) % Size ELSE ptr
     ELSE /\ Raise(IF Meant THEN "40" ELSE "48") /\ bus' = "recv"
          /\ phase' = IF Meant THEN "out" ELSE "none"
          /\ UNCHANGED ptr
  /\ UNCHANGED <<BusUnchanged, sto, dat, mem, page, busy, callerVars, limitVars>>

PageOf == IF chip = "small" THEN SmallPage ELSE BigPage
NextInPage(o) == (o \div PageOf) * PageOf + ((o + 1) % PageOf)
SendByte ==
  /\ Shifts("send")
  /\ Raise("28")
  /\ IF phase \in {"hi", "lo"}
     THEN /\ IF phase = "hi"
             THEN ptr' = (dat.v * LoSize) % Size /\ phase' = "lo"
             ELSE ptr' = (ptr + dat.v) % Size /\ phase' = "data"
          /\ UNCHANGED page
     ELSE /\ page' = [o \in DOMAIN page \cup {ptr} |-> IF o = ptr THEN dat.v ELSE page[o]]
          /\ ptr' = NextInPage(ptr) /\ UNCHANGED phase
  /\ UNCHANGED <<BusUnchanged, sto, dat, bus, mem, busy, callerVars, limitVars>>

ReceiveByte ==
  /\ Shifts("recv")
  /\ dat' = Byte("d", mem[ptr]) /\ ptr' = (ptr + 1) % Size
  /\ Raise(IF aa THEN "50" ELSE "58")
  /\ UNCHANGED <<BusUnchanged, sto, bus, mem, page, phase, busy, callerVars, limitVars>>

WriteCycleEnds ==
  /\ busy /\ busy' = FALSE
  /\ UNCHANGED <<i2cVars, mem, page, ptr, phase, bus, callerVars, limitVars>>

\* The exchange is cut off: the chip may take it for a STOP.
CutOff == (Commit \/ UNCHANGED <<mem, busy>>) /\ Forget /\ bus' = "idle"

\* Instead of the next event: a lost arbitration, a bus error, or a byte that
\* is not acknowledged, by which the chip may lose what it has received.
Fault ==
  /\ faults < MaxFaults
  /\ RoughProbe \/ eepromType # "unset"
  /\ Free /\ ~sta /\ ~sto /\ bus # "idle"
  /\ \/ Raise("38") /\ CutOff
     \/ /\ \/ Raise("00")
           \/ bus = "addr" /\ Raise("20")
           \/ bus = "send" /\ Raise("30")
        /\ page' \in {page, NoBytes} /\ phase' = "none"
        /\ UNCHANGED <<mem, busy, bus>>
  /\ faults' = faults + 1
  /\ UNCHANGED <<BusUnchanged, sto, dat, ptr, callerVars, chip, restarts>>

\* The board restarts.  Unless RoughProbe, its start outlasts a write cycle.
Restart ==
  /\ restarts < MaxRestarts
  /\ state' = "ok" /\ outBuff' = <<>> /\ ctrlBuff' = <<>> /\ writeIndex' = 0
  /\ inBuff' = <<>> /\ readLength' = 0 /\ readIndex' = 0
  /\ sta' = FALSE /\ sto' = FALSE /\ aa' = FALSE /\ dat' = NoByte /\ status' = None
  /\ eepromType' = "unset" /\ pc' = "idle" /\ written' = 0
  /\ answer' = IF answer = Waiting THEN Failed ELSE answer
  /\ \/ RoughProbe /\ CutOff
     \/ ~RoughProbe /\ mem' \in {mem, Written} /\ busy' = FALSE /\ Forget /\ bus' = "idle"
  /\ restarts' = restarts + 1
  /\ UNCHANGED <<op, ptr, chip, faults>>

Events == Stop \/ Start \/ SendAddress \/ SendByte \/ ReceiveByte
Handler == I2c_0_Handler /\ UNCHANGED <<callerVars, OutsideUnchanged>>

Next ==
  \/ Call \/ Driver \/ Handler \/ Events \/ WriteCycleEnds \/ Fault \/ Restart

Spec == Init /\ [][Next]_vars

\* The interrupts are served, the bus goes on, write cycles end, the caller
\* wakes from its waits.
FairSpec == /\ Spec
            /\ WF_vars(Handler) /\ WF_vars(Events)
            /\ WF_vars(WriteCycleEnds) /\ WF_vars(Driver)

-----------------------------------------------------------------------------
(* Properties.                                                             *)

\* The shape of the state: indexes stay in the buffers they
\* index (a START sets write_index again).
TypeOK ==
  /\ eepromType \in {"unset", "none", "small", "big"}
  /\ ~sta => writeIndex \in 0 .. Len(outBuff)
  /\ readLength # 0 => readIndex \in 0 .. readLength
  /\ Len(inBuff) = readLength
  /\ written \in 0 .. Len(op.data)
  /\ mem \in [Offset -> Nat] /\ DOMAIN page \subseteq Offset

\* The driver's idea of the chip is the chip that is there, or none
\* (eeprom_detect: "only these would answer on all addresses").
TypeRight == eepromType \in {"unset", "none", chip}

\* Between two calls the engine rests: once the STOP is out, no START is
\* pending, no event is left to serve and the bus is idle.
QuietBetween ==
  pc = "idle" /\ ~sto => bus = "idle" /\ ~sta /\ status = None

\* A write that succeeded leaves a chip that answers: the next call meets no
\* write cycle (the polling of eeprom_write).
ReadyAfterWrite == pc = "idle" /\ op.kind = "write" /\ answer = Ok => ~busy

\* Driver, chip and bus agree whenever a call may be made.
EepromInStep == TypeOK /\ TypeRight /\ QuietBetween /\ ReadyAfterWrite

\* A failed write is over when its STOP is out, which commits what the chip has.
Lingers == pc = "idle" /\ sto /\ page # NoBytes
Store == INSTANCE EepromStore WITH
  store <- mem, answer <- IF Lingers THEN Waiting ELSE answer
\* The chip, the bus, the engine and the driver together are a store: bytes
\* are stored in order, in full when the call succeeds, and read back.
ImplementsStore == Store!Spec

\* Every call returns.
CallsReturn == answer = Waiting ~> answer # Waiting
=============================================================================
