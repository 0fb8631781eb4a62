---------------------------- MODULE DevicesProofs ----------------------------
(***************************************************************************)
(* What the runs check of two devices behind the SPI bus, for every value  *)
(* of the constants: every block the SD card was asked for comes from its  *)
(* place (Sdmmc) and the packets of the radio chip are whole (Cc1101).  As *)
(* in HardwareProofs each part has an inductive invariant of its own.      *)
(***************************************************************************)
EXTENDS MCHardware, Sequences, FiniteSetTheorems, TLAPS

(***************************************************************************)
(* The SD card over SPI (Sdmmc).                                           *)
(***************************************************************************)

\* A set of numbers that is not empty has a least one.
LEMMA LeastOf ==
  ASSUME NEW Some \in SUBSET Nat, Some # {}
  PROVE  \E n \in Some : \A k \in Some : n <= k
  <1> DEFINE Below(n) == 0 .. (n - 1)
             Lower == {Below(n) : n \in Some}
             Strict == StrictSubsetOrdering(Nat)
  <1>1. IsWellFoundedOn(Strict, FiniteSubsetsOf(Nat))
    BY FS_StrictSubsetOrderingWellFounded
  <1>2. \A n \in Some : Below(n) \in FiniteSubsetsOf(Nat)
    <2> TAKE n \in Some
    <2>1. IsFiniteSet(0 .. (n - 1))
      BY FS_Interval
    <2> QED BY <2>1 DEF FiniteSubsetsOf
  <1>3. Lower \subseteq FiniteSubsetsOf(Nat) /\ Lower # {}
    BY <1>2
  <1> HIDE DEF Strict, Lower
  <1>4. PICK x \in Lower : \A y \in Lower : ~ (<<y, x>> \in Strict)
    BY <1>1, <1>3, WFMin
  <1>5. PICK n \in Some : x = Below(n)
    BY <1>4 DEF Lower
  <1>6. ASSUME NEW k \in Some, k < n PROVE FALSE
    <2>1. Below(k) \in Lower
      BY DEF Lower
    <2>2. /\ Below(k) \subseteq Below(n) /\ Below(k) # Below(n)
          /\ Below(k) \in SUBSET Nat /\ Below(n) \in SUBSET Nat
      <3>1. k \in Below(n) /\ k \notin Below(k)
        BY <1>6
      <3> QED BY <3>1, <1>6
    <2>3. <<Below(k), Below(n)>> \in Strict
      BY <2>2 DEF Strict, StrictSubsetOrdering
    <2> QED BY <1>4, <1>5, <2>1, <2>3
  <1> QED BY <1>6

\* A set of numbers that is not empty and is bounded has a greatest one.
LEMMA GreatestOf ==
  ASSUME NEW Some \in SUBSET Nat, Some # {}, NEW b \in Nat, \A n \in Some : n <= b
  PROVE  \E n \in Some : \A k \in Some : k <= n
  <1> DEFINE Upto == {b - n : n \in Some}
  <1>1. Upto \in SUBSET Nat /\ Upto # {}
    <2>1. \A n \in Some : b - n \in Nat
      OBVIOUS
    <2> QED BY <2>1
  <1>2. PICK d \in Upto : \A x \in Upto : d <= x
    BY <1>1, LeastOf
  <1>3. PICK n \in Some : d = b - n
    OBVIOUS
  <1>4. ASSUME NEW k \in Some PROVE k <= n
    <2>1. d <= b - k
      BY <1>2
    <2> QED BY <1>3, <2>1
  <1> QED BY <1>4

-----------------------------------------------------------------------------
(* The SD card.                                                            *)

\* The highest bit of a size is the greatest power of two up to it.
LEMMA HighestBitIs ==
  ASSUME NEW size \in Nat \ {0}
  PROVE  /\ M!HighestBit(size) \in M!PowersOfTwo(size)
         /\ \A q \in M!PowersOfTwo(size) : q <= M!HighestBit(size)
  <1> DEFINE Powers == M!PowersOfTwo(size)
  <1>1. Powers \in SUBSET Nat /\ 1 \in Powers /\ \A n \in Powers : n <= size
    BY DEF M!PowersOfTwo
  <1>2. \E p \in Powers : \A q \in Powers : q <= p
    BY <1>1, GreatestOf
  <1> QED BY <1>2 DEF M!HighestBit

\* A power of two is its own highest bit.
LEMMA HighestBitOfPower ==
  ASSUME NEW n \in Nat \ {0}, n \in M!PowersOfTwo(n)
  PROVE  M!HighestBit(n) = n
  <1>1. M!HighestBit(n) \in 1 .. n /\ n <= M!HighestBit(n)
    BY HighestBitIs DEF M!PowersOfTwo
  <1> QED BY <1>1

\* The size the card is told is a power of two, and the unit is that size.
LEMMA NormalisedIs ==
  ASSUME NEW size \in Nat \ {0}
  PROVE  /\ M!Normalised(size) \in Nat \ {0}
         /\ M!HighestBit(M!Normalised(size)) = M!Normalised(size)
  <1>1. CASE size > MMC_MAX_SECTOR_SIZE
    <2>1. MMC_MAX_SECTOR_SIZE \in Nat \ {0} /\ MMC_MAX_SECTOR_SIZE \in M!PowersOfTwo(MMC_MAX_SECTOR_SIZE)
      BY PartAssumptions DEF M!SdmmcAssumption, M!PowersOfTwo
    <2> QED BY <1>1, <2>1, HighestBitOfPower DEF M!Normalised
  <1>2. CASE ~ (size > MMC_MAX_SECTOR_SIZE)
    <2> DEFINE p == M!HighestBit(size)
    <2>1. p \in M!PowersOfTwo(size)
      BY HighestBitIs
    <2>2. p \in Nat \ {0} /\ p \in M!PowersOfTwo(p)
      BY <2>1 DEF M!PowersOfTwo
    <2> QED BY <1>2, <2>2, HighestBitOfPower DEF M!Normalised
  <1> QED BY <1>1, <1>2

InitTodo == {<<"GO_IDLE_STATE", "SEND_IF_COND", "READ_OCR", "APP_CMD", "SD_SEND_OP_COND">>,
             <<"SEND_IF_COND", "READ_OCR", "APP_CMD", "SD_SEND_OP_COND">>,
             <<"READ_OCR", "APP_CMD", "SD_SEND_OP_COND">>,
             <<"APP_CMD", "SD_SEND_OP_COND">>, <<"SD_SEND_OP_COND">>, <<>>}
WaitTodo == {<<"APP_CMD", "SD_SEND_OP_COND">>, <<"SD_SEND_OP_COND">>, <<>>}
EndTodo  == {<<"READ_OCR", "SET_BLOCKLEN">>, <<"SET_BLOCKLEN">>, <<>>}
ReadTodo == {<<"READ_SINGLE_BLOCK">>, <<>>}
WriteTodo == {<<"WRITE_SINGLE_BLOCK">>, <<>>}

PlanOf(name, plan) ==
  \/ name = "init" /\ plan \in InitTodo
  \/ name = "wait" /\ plan \in WaitTodo
  \/ name = "end" /\ plan \in EndTodo
  \/ name = "read" /\ plan \in ReadTodo
  \/ name = "write" /\ plan \in WriteTodo

MmcT   == [type : {"unknown", "SDV2_SC", "SDV2_HC"}, block_size : Nat \ {0}, unit : Nat]
CardT  == [hc : BOOLEAN, st : {"off", "idle", "ready"}, selected : BOOLEAN,
           data : [0 .. Blocks - 1 -> Nat]]
SpentT == [calls : Nat, pulls : Nat, up : BOOLEAN]

\* The shape of the driver, the card and the call, and what a call has to do.
CardShape ==
  /\ mmc \in MmcT /\ card \in CardT /\ spent \in SpentT
  /\ req.pc \in {"idle", "command", "busy", "release"}

CardPlan ==
  /\ req.pc = "command" => PlanOf(req.name, req.todo)
  /\ req.pc = "busy" => req.name = "write"
  /\ req.name \in {"read", "write"} => req.n \in 0 .. Blocks - 1

\* The driver takes no small card for a large one; a large one it takes for a
\* small one only as long as that is not ready.
CardType ==
  /\ mmc.type = "SDV2_HC" => card.hc
  /\ (req.pc = "command" /\ req.name = "init" /\ req.todo # <<>> /\ Head(req.todo) = "SEND_IF_COND")
       => card.st # "ready"
  /\ (req.pc = "command" /\ req.name = "end" /\ req.todo = <<"SET_BLOCKLEN">> /\ mmc.type = "SDV2_SC"
       /\ card.hc) => card.st # "ready"

\* Once init_end has returned 0 the driver counts as the card does, or knows that
\* it does not.
CountsRight == mmc.type = "unknown" \/ ((mmc.type = "SDV2_HC" <=> card.hc) /\ mmc.unit = mmc.block_size)
CardUp ==
  /\ (req.pc = "command" /\ req.name = "end" /\ req.todo = <<>>) => CountsRight
  /\ (req.pc = "release" /\ req.name = "end" /\ req.ret = "ok") => CountsRight
  /\ spent.up => CountsRight
  /\ req.pc # "idle" => IF req.name \in {"read", "write"} THEN spent.up /\ mmc.type # "unknown" ELSE ~spent.up

\* A call that has succeeded was about the block it was asked for.
CardData ==
  /\ (req.name = "read" /\ req.pc \in {"release", "idle"} /\ req.ret = "ok") => req.got = card.data[req.n]
  /\ (req.name = "write" /\ (req.pc = "busy" \/ (req.pc \in {"release", "idle"} /\ req.ret = "ok")))
       => card.data[req.n] = spent.calls

CardInv == CardShape /\ CardPlan /\ CardType /\ CardUp /\ CardData /\ M!BusGivenBack

-----------------------------------------------------------------------------

LEMMA CardInit == AllInit => CardInv
  <1> SUFFICES ASSUME M!Init PROVE CardInv
    BY DEF AllInit
  <1>1. BlockSizes \subseteq Nat \ {0} /\ Blocks \in Nat
    BY PartAssumptions DEF M!SdmmcAssumption
  <1>2. [n \in 0 .. Blocks - 1 |-> 0] \in [0 .. Blocks - 1 -> Nat]
    OBVIOUS
  <1>3. CardShape
    BY <1>1, <1>2 DEF M!Init, M!NoRequest, CardShape, MmcT, CardT, SpentT
  <1>4. M!BusGivenBack /\ req = M!NoRequest /\ spent.up = FALSE /\ mmc.type = "unknown"
    BY DEF M!Init, M!NoRequest, M!BusGivenBack
  <1> QED BY <1>3, <1>4 DEF M!NoRequest, CardInv, CardPlan, CardType, CardUp, CardData, CountsRight

\* What is left of a plan is a plan.
LEMMA InitGoesOn ==
  ASSUME NEW plan \in InitTodo, plan # <<>>
  PROVE  /\ Tail(plan) \in InitTodo /\ Head(plan) # "SET_BLOCKLEN"
         /\ (Tail(plan) # <<>> /\ Head(Tail(plan)) = "SEND_IF_COND") => Head(plan) = "GO_IDLE_STATE"
  <1>1. CASE plan = <<"GO_IDLE_STATE", "SEND_IF_COND", "READ_OCR", "APP_CMD", "SD_SEND_OP_COND">>
    BY <1>1 DEF InitTodo
  <1>2. CASE plan = <<"SEND_IF_COND", "READ_OCR", "APP_CMD", "SD_SEND_OP_COND">>
    BY <1>2 DEF InitTodo
  <1>3. CASE plan = <<"READ_OCR", "APP_CMD", "SD_SEND_OP_COND">>
    BY <1>3 DEF InitTodo
  <1>4. CASE plan = <<"APP_CMD", "SD_SEND_OP_COND">>
    BY <1>4 DEF InitTodo
  <1>5. CASE plan = <<"SD_SEND_OP_COND">>
    BY <1>5 DEF InitTodo
  <1>6. \/ plan = <<"GO_IDLE_STATE", "SEND_IF_COND", "READ_OCR", "APP_CMD", "SD_SEND_OP_COND">>
        \/ plan = <<"SEND_IF_COND", "READ_OCR", "APP_CMD", "SD_SEND_OP_COND">>
        \/ plan = <<"READ_OCR", "APP_CMD", "SD_SEND_OP_COND">>
        \/ plan = <<"APP_CMD", "SD_SEND_OP_COND">> \/ plan = <<"SD_SEND_OP_COND">>
    BY Zenon DEF InitTodo
  <1> QED BY <1>1, <1>2, <1>3, <1>4, <1>5, <1>6, Zenon

LEMMA WaitGoesOn ==
  ASSUME NEW plan \in WaitTodo, plan # <<>>
  PROVE  Tail(plan) \in WaitTodo /\ Head(plan) \in {"APP_CMD", "SD_SEND_OP_COND"}
  <1>1. CASE plan = <<"APP_CMD", "SD_SEND_OP_COND">>
    BY <1>1 DEF WaitTodo
  <1>2. CASE plan = <<"SD_SEND_OP_COND">>
    BY <1>2 DEF WaitTodo
  <1> QED BY <1>1, <1>2, Zenon DEF WaitTodo

LEMMA EndGoesOn ==
  ASSUME NEW plan \in EndTodo, plan # <<>>
  PROVE  \/ Head(plan) = "READ_OCR" /\ Tail(plan) = <<"SET_BLOCKLEN">>
         \/ Head(plan) = "SET_BLOCKLEN" /\ Tail(plan) = <<>> /\ plan = <<"SET_BLOCKLEN">>
  <1>1. CASE plan = <<"READ_OCR", "SET_BLOCKLEN">>
    BY <1>1
  <1>2. CASE plan = <<"SET_BLOCKLEN">>
    BY <1>2
  <1> QED BY <1>1, <1>2, Zenon DEF EndTodo

LEMMA DataGoesOn ==
  ASSUME NEW plan \in ReadTodo \cup WriteTodo, plan # <<>>
  PROVE  Tail(plan) = <<>> /\ Head(plan) \in {"READ_SINGLE_BLOCK", "WRITE_SINGLE_BLOCK"}
  <1>1. CASE plan = <<"READ_SINGLE_BLOCK">>
    BY <1>1
  <1>2. CASE plan = <<"WRITE_SINGLE_BLOCK">>
    BY <1>2
  <1> QED BY <1>1, <1>2, Zenon DEF ReadTodo, WriteTodo

\* The rest of the board uses the bus, the card is pulled out.
LEMMA OthersKeep ==
  ASSUME CardInv, M!OtherTakes \/ M!OtherReleases \/ M!Pull
  PROVE  CardInv'
  <1> USE DEF CardInv
  <1>1. CASE M!OtherTakes \/ M!OtherReleases
    BY <1>1 DEF M!OtherTakes, M!OtherReleases, CardShape, CardPlan, CardType, CardUp, CardData,
                CountsRight, M!BusGivenBack
  <1>2. CASE M!Pull
    <2>1. /\ card' = [card EXCEPT !.st = "off"] /\ spent' = [spent EXCEPT !.pulls = @ + 1]
          /\ UNCHANGED <<mmc, mutex, req>>
      BY <1>2 DEF M!Pull
    <2>2. CardShape' /\ card'.st = "off" /\ card'.hc = card.hc /\ card'.data = card.data
          /\ card'.selected = card.selected /\ spent'.up = spent.up /\ spent'.calls = spent.calls
      BY <2>1 DEF CardShape, CardT, SpentT
    <2> QED BY <2>1, <2>2 DEF CardPlan, CardType, CardUp, CardData, CountsRight, M!BusGivenBack
  <1> QED BY <1>1, <1>2

\* A call begins: it takes the bus and selects the card.
LEMMA BeginKeeps ==
  ASSUME CardInv, NEW name, NEW plan, NEW n, M!Begin(name, plan, n),
         PlanOf(name, plan), plan # <<>>,
         mmc' \in MmcT, mmc'.type = "SDV2_HC" => card.hc,
         name = "init" => Head(plan) # "SEND_IF_COND",
         plan = <<"SET_BLOCKLEN">> => mmc'.type # "SDV2_SC",
         name \in {"read", "write"} =>
           n \in 0 .. Blocks - 1 /\ spent.up /\ mmc.type # "unknown" /\ UNCHANGED mmc
  PROVE  CardInv'
  <1> USE DEF CardInv
  <1>1. /\ mutex' = "mmc" /\ card' = [card EXCEPT !.selected = TRUE]
        /\ req' = [pc |-> "command", name |-> name, todo |-> plan, n |-> n, ret |-> "none", got |-> -1]
        /\ spent' = [spent EXCEPT !.calls = @ + 1, !.up = @ /\ name \in {"read", "write"}]
    BY DEF M!Begin, M!NoRequest
  <1>2. card' \in CardT /\ card'.selected = TRUE /\ card'.hc = card.hc
    BY <1>1 DEF CardShape, CardT
  <1>3. spent' \in SpentT /\ (spent'.up <=> spent.up /\ name \in {"read", "write"})
    <2>1. spent \in SpentT
      BY DEF CardShape
    <2>2. PICK up \in BOOLEAN : up <=> spent.up /\ name \in {"read", "write"}
      OBVIOUS
    <2>3. PICK calls_ \in Nat : calls_ = spent.calls + 1
      BY <2>1 DEF SpentT
    <2>4. spent' = [spent EXCEPT !.calls = calls_, !.up = up]
      BY <1>1, <2>2, <2>3
    <2>5. spent' \in SpentT /\ spent'.up = up
      BY <2>1, <2>4 DEF SpentT
    <2> QED BY <2>2, <2>5
  <1>4. /\ req'.pc = "command" /\ req'.name = name /\ req'.todo = plan /\ req'.n = n
        /\ req'.ret = "none"
    BY <1>1
  <1>5. CardShape'
    BY <1>2, <1>3, <1>4 DEF CardShape
  <1>6. CardPlan'
    BY <1>4 DEF CardPlan
  <1>7. CardType'
    BY <1>2, <1>4 DEF CardType
  <1>8. CardUp'
    BY <1>2, <1>3, <1>4 DEF CardUp, CountsRight
  <1>9. CardData'
    BY <1>4 DEF CardData
  <1>10. M!BusGivenBack'
    BY <1>1, <1>2, <1>4 DEF M!BusGivenBack
  <1> QED BY <1>5, <1>6, <1>7, <1>8, <1>9, <1>10

LEMMA CallsKeep ==
  ASSUME CardInv,
         M!sdmmc_init \/ M!sdmmc_init_wait_card_ready \/ M!sdmmc_init_end \/ M!sdmmc_read_block
         \/ M!sdmmc_write_block
  PROVE  CardInv'
  <1>0. mmc \in MmcT /\ (mmc.type = "SDV2_HC" => card.hc)
    BY DEF CardInv, CardShape, CardType
  <1>1. CASE M!sdmmc_init
    <2> DEFINE plan == <<"GO_IDLE_STATE", "SEND_IF_COND", "READ_OCR", "APP_CMD", "SD_SEND_OP_COND">>
    <2>1. M!Begin("init", plan, 0) /\ mmc' = [mmc EXCEPT !.type = "unknown"]
      BY <1>1 DEF M!sdmmc_init
    <2>2. PlanOf("init", plan) /\ Head(plan) = "GO_IDLE_STATE" /\ plan # <<>> /\ plan # <<"SET_BLOCKLEN">>
      BY DEF InitTodo, PlanOf
    <2>3. mmc' \in MmcT /\ mmc'.type = "unknown"
      BY <1>0, <2>1 DEF MmcT
    <2> HIDE DEF plan
    <2> QED BY <2>1, <2>2, <2>3, BeginKeeps
  <1>2. CASE M!sdmmc_init_wait_card_ready
    <2> DEFINE plan == <<"APP_CMD", "SD_SEND_OP_COND">>
    <2>1. M!Begin("wait", plan, 0) /\ UNCHANGED mmc
      BY <1>2 DEF M!sdmmc_init_wait_card_ready
    <2>2. PlanOf("wait", plan) /\ plan # <<>> /\ plan # <<"SET_BLOCKLEN">>
      BY DEF WaitTodo, PlanOf
    <2> HIDE DEF plan
    <2> QED BY <1>0, <2>1, <2>2, BeginKeeps
  <1>3. CASE M!sdmmc_init_end
    <2>1. PICK plan \in EndTodo : /\ M!Begin("end", plan, 0) /\ UNCHANGED mmc /\ plan # <<>>
                                  /\ plan = <<"SET_BLOCKLEN">> => mmc.type # "SDV2_SC"
      <3>1. CASE mmc.type = "SDV2_SC"
        <4>1. M!Begin("end", <<"READ_OCR", "SET_BLOCKLEN">>, 0) /\ UNCHANGED mmc
          BY <1>3, <3>1 DEF M!sdmmc_init_end
        <4> QED BY <4>1 DEF EndTodo
      <3>2. CASE mmc.type # "SDV2_SC"
        <4>1. M!Begin("end", <<"SET_BLOCKLEN">>, 0) /\ UNCHANGED mmc
          BY <1>3, <3>2 DEF M!sdmmc_init_end
        <4> QED BY <3>2, <4>1 DEF EndTodo
      <3> QED BY <3>1, <3>2
    <2>2. PlanOf("end", plan)
      BY DEF PlanOf
    <2> QED BY <1>0, <2>1, <2>2, BeginKeeps
  <1>4. CASE M!sdmmc_read_block
    <2> DEFINE plan == <<"READ_SINGLE_BLOCK">>
    <2>1. PICK n \in 0 .. Blocks - 1 :
            M!Begin("read", plan, n) /\ UNCHANGED mmc /\ mmc.type # "unknown" /\ spent.up
      BY <1>4 DEF M!sdmmc_read_block
    <2>2. PlanOf("read", plan) /\ plan # <<>> /\ plan # <<"SET_BLOCKLEN">>
      BY DEF ReadTodo, PlanOf
    <2> HIDE DEF plan
    <2> QED BY <1>0, <2>1, <2>2, BeginKeeps
  <1>5. CASE M!sdmmc_write_block
    <2> DEFINE plan == <<"WRITE_SINGLE_BLOCK">>
    <2>1. PICK n \in 0 .. Blocks - 1 :
            M!Begin("write", plan, n) /\ UNCHANGED mmc /\ mmc.type # "unknown" /\ spent.up
      BY <1>5 DEF M!sdmmc_write_block
    <2>2. PlanOf("write", plan) /\ plan # <<>> /\ plan # <<"SET_BLOCKLEN">>
      BY DEF WriteTodo, PlanOf
    <2> HIDE DEF plan
    <2> QED BY <1>0, <2>1, <2>2, BeginKeeps
  <1> QED BY <1>1, <1>2, <1>3, <1>4, <1>5

\* What a step of a call, which keeps the bus, does to the rest.
Holding ==
  /\ UNCHANGED <<mutex, spent>>
  /\ card' \in CardT /\ card'.hc = card.hc /\ card'.selected = card.selected
  /\ req.pc # "idle" /\ req'.pc # "idle" /\ req'.name = req.name /\ req'.n = req.n

LEMMA HoldingKeeps ==
  ASSUME CardInv, Holding
  PROVE  /\ card' \in CardT /\ spent' \in SpentT
         /\ req'.name \in {"read", "write"} => req'.n \in 0 .. Blocks - 1
         /\ IF req.name \in {"read", "write"} THEN spent'.up /\ mmc.type # "unknown" ELSE ~spent'.up
         /\ M!BusGivenBack'
  BY DEF Holding, CardInv, CardShape, CardPlan, CardUp, M!BusGivenBack

\* A command fails, or what it answers is that of another card: the bus is given
\* back, and after SET_BLOCKLEN the card is not known any more.
LEMMA FailedKeeps ==
  ASSUME CardInv, Holding, req.pc = "command", req'.pc = "release", mmc' \in MmcT,
         card'.data = card.data, req' = [req EXCEPT !.pc = "release", !.ret = req'.ret],
         \/ req'.ret = "error" /\ UNCHANGED mmc
         \/ req'.ret = "ok" /\ mmc'.type = "unknown" /\ req.name = "end"
  PROVE  CardInv'
  <1> USE DEF CardInv
  <1>1. CardShape'
    BY HoldingKeeps DEF CardShape
  <1>2. CardPlan'
    BY HoldingKeeps DEF CardPlan
  <1>3. CardType'
    BY DEF CardType, Holding
  <1>4. CardUp'
    BY HoldingKeeps DEF CardUp, CountsRight, Holding
  <1>5. CardData'
    BY DEF CardData, Holding
  <1> QED BY <1>1, <1>2, <1>3, <1>4, <1>5, HoldingKeeps

\* A command succeeds: the call goes on with the rest of its plan.
LEMMA AnsweredKeeps ==
  ASSUME CardInv, Holding, req.pc = "command", req'.pc = "command", mmc' \in MmcT,
         PlanOf(req.name, req'.todo), CardType',
         req.name = "end" /\ req'.todo = <<>> => CountsRight',
         req.name \in {"read", "write"} => UNCHANGED mmc
  PROVE  CardInv'
  <1> USE DEF CardInv
  <1>1. CardShape'
    BY HoldingKeeps DEF CardShape
  <1>2. CardPlan'
    BY HoldingKeeps DEF CardPlan, Holding
  <1>3. CardUp'
    BY HoldingKeeps DEF CardUp, CountsRight, Holding
  <1>4. CardData'
    BY DEF CardData
  <1> QED BY <1>1, <1>2, <1>3, <1>4, HoldingKeeps

LEMMA CommandKeeps == ASSUME CardInv, M!sdmmc_send_command PROVE CardInv'
  <1> DEFINE cmd == Head(req.todo)
             size == M!Normalised(mmc.block_size)
  <1>1. /\ req.pc = "command" /\ req.todo # <<>> /\ UNCHANGED <<mutex, spent>>
        /\ PlanOf(req.name, req.todo)
    BY DEF M!sdmmc_send_command, CardInv, CardPlan
  <1>2. PICK r1 \in M!Answers(cmd) :
          /\ card' = M!CardAfter(cmd, r1)
          /\ IF M!Fails(r1)
             THEN \/ /\ cmd = "SET_BLOCKLEN"
                     /\ mmc' = [type |-> "unknown", block_size |-> size, unit |-> M!HighestBit(size)]
                     /\ M!Release("ok")
                  \/ cmd # "SET_BLOCKLEN" /\ M!Release("error") /\ UNCHANGED mmc
             ELSE \/ /\ mmc' = IF cmd = "SET_BLOCKLEN"
                               THEN [mmc EXCEPT !.block_size = size, !.unit = M!HighestBit(size)]
                               ELSE [mmc EXCEPT !.type = M!TypeAfter(cmd, r1)]
                     /\ req' = [req EXCEPT !.todo = Tail(@), !.ret = r1]
                  \/ cmd = "SEND_IF_COND" /\ r1 = "idle" /\ M!Release("error") /\ UNCHANGED mmc
    BY DEF M!sdmmc_send_command
  <1>3. mmc \in MmcT /\ card \in CardT
    BY DEF CardInv, CardShape
  <1>4. size \in Nat \ {0} /\ M!HighestBit(size) = size
    BY <1>3, NormalisedIs DEF MmcT
  <1> HIDE DEF size
  <1>5. card' \in CardT /\ card'.hc = card.hc /\ card'.selected = card.selected /\ card'.data = card.data
    BY <1>2, <1>3 DEF M!CardAfter, CardT
  <1>6. ASSUME NEW ret, M!Release(ret)
        PROVE  /\ Holding /\ req'.pc = "release" /\ req'.ret = ret
               /\ req' = [req EXCEPT !.pc = "release", !.ret = req'.ret]
    <2>1. req' = [req EXCEPT !.pc = "release", !.ret = ret]
      BY <1>6 DEF M!Release
    <2>2. req'.pc = "release" /\ req'.ret = ret /\ req'.name = req.name /\ req'.n = req.n
      BY <2>1
    <2> QED BY <1>1, <1>5, <2>1, <2>2 DEF Holding
  <1>7. cmd = "SET_BLOCKLEN" => req.name = "end"
    BY <1>1, InitGoesOn, WaitGoesOn, DataGoesOn DEF PlanOf
  <1>8. CASE M!Fails(r1) \/ (cmd = "SEND_IF_COND" /\ M!Release("error") /\ UNCHANGED mmc)
    <2>1. CASE M!Release("error") /\ UNCHANGED mmc
      BY <1>1, <1>3, <1>5, <1>6, <2>1, FailedKeeps
    <2>2. CASE cmd = "SET_BLOCKLEN" /\ M!Release("ok")
               /\ mmc' = [type |-> "unknown", block_size |-> size, unit |-> M!HighestBit(size)]
      <3>1. mmc' \in MmcT /\ mmc'.type = "unknown"
        BY <1>4, <2>2 DEF MmcT
      <3> QED BY <1>1, <1>5, <1>6, <1>7, <2>2, <3>1, FailedKeeps
    <2> QED BY <1>2, <1>8, <2>1, <2>2
  <1>9. CASE /\ ~ M!Fails(r1)
             /\ mmc' = IF cmd = "SET_BLOCKLEN"
                       THEN [mmc EXCEPT !.block_size = size, !.unit = M!HighestBit(size)]
                       ELSE [mmc EXCEPT !.type = M!TypeAfter(cmd, r1)]
             /\ req' = [req EXCEPT !.todo = Tail(@), !.ret = r1]
    <2>1. /\ req'.pc = "command" /\ req'.name = req.name /\ req'.n = req.n
          /\ req'.todo = Tail(req.todo)
      BY <1>1, <1>9
    <2>2. Holding
      BY <1>1, <1>5, <2>1 DEF Holding
    <2>3. CASE req.name = "init"
      <3>1. req.todo \in InitTodo
        BY <1>1, <2>3 DEF PlanOf
      <3>2. /\ Tail(req.todo) \in InitTodo /\ cmd # "SET_BLOCKLEN"
            /\ (Tail(req.todo) # <<>> /\ Head(Tail(req.todo)) = "SEND_IF_COND") => cmd = "GO_IDLE_STATE"
        BY <1>1, <3>1, InitGoesOn
      <3>3. M!TypeAfter(cmd, r1) \in {mmc.type, "SDV2_SC"}
        <4>1. cmd = "SEND_IF_COND" => card.st # "ready"
          BY <1>1, <2>3 DEF CardInv, CardType
        <4>2. cmd = "SEND_IF_COND" => r1 = "idle"
          BY <1>2, <1>9, <4>1 DEF M!Answers, M!Fails
        <4> QED BY <2>3, <4>2 DEF M!TypeAfter
      <3>4. mmc' = [mmc EXCEPT !.type = M!TypeAfter(cmd, r1)]
        BY <1>9, <3>2
      <3>5. mmc' \in MmcT /\ mmc'.type \in {mmc.type, "SDV2_SC"}
        BY <1>3, <3>3, <3>4 DEF MmcT
      <3>6. cmd = "GO_IDLE_STATE" => card'.st = "idle"
        <4>1. cmd = "GO_IDLE_STATE" => r1 = "idle"
          BY <1>2, <1>9 DEF M!Answers, M!Fails
        <4> QED BY <1>2, <1>3, <4>1 DEF M!CardAfter, CardT
      <3>7. CardType'
        BY <1>5, <2>1, <2>3, <3>2, <3>5, <3>6 DEF CardType, CardInv
      <3>8. PlanOf(req.name, req'.todo)
        BY <2>1, <2>3, <3>2 DEF PlanOf
      <3> QED BY <1>1, <2>1, <2>2, <2>3, <3>5, <3>7, <3>8, AnsweredKeeps
    <2>4. CASE req.name = "wait"
      <3>1. Tail(req.todo) \in WaitTodo /\ cmd \in {"APP_CMD", "SD_SEND_OP_COND"}
        BY <1>1, <2>4, WaitGoesOn DEF PlanOf
      <3>2. mmc' = mmc
        BY <1>3, <1>9, <2>4, <3>1 DEF M!TypeAfter, MmcT
      <3>3. CardType'
        BY <1>5, <2>1, <2>4, <3>2 DEF CardType, CardInv
      <3>4. PlanOf(req.name, req'.todo)
        BY <2>1, <2>4, <3>1 DEF PlanOf
      <3> QED BY <1>1, <1>3, <2>1, <2>2, <2>4, <3>2, <3>3, <3>4, AnsweredKeeps
    <2>5. CASE req.name = "end" /\ cmd = "READ_OCR"
      <3>1. Tail(req.todo) = <<"SET_BLOCKLEN">>
        BY <1>1, <2>5, EndGoesOn DEF PlanOf
      <3>2. mmc' = [mmc EXCEPT !.type = IF card.hc /\ card.st = "ready" THEN "SDV2_HC" ELSE "SDV2_SC"]
        BY <1>9, <2>5 DEF M!TypeAfter
      <3>3. /\ mmc' \in MmcT
            /\ mmc'.type = IF card.hc /\ card.st = "ready" THEN "SDV2_HC" ELSE "SDV2_SC"
        BY <1>3, <3>2 DEF MmcT
      <3>4. card' = card
        BY <1>2, <2>5 DEF M!CardAfter
      <3>5. CardType'
        BY <2>1, <2>5, <3>3, <3>4 DEF CardType
      <3>6. PlanOf(req.name, req'.todo) /\ req'.todo # <<>>
        BY <2>1, <2>5, <3>1 DEF PlanOf, EndTodo
      <3> QED BY <1>1, <2>1, <2>2, <2>5, <3>3, <3>5, <3>6, AnsweredKeeps
    <2>6. CASE req.name = "end" /\ cmd = "SET_BLOCKLEN"
      <3>1. Tail(req.todo) = <<>> /\ req.todo = <<"SET_BLOCKLEN">>
        BY <1>1, <2>6, EndGoesOn DEF PlanOf
      <3>2. mmc' = [mmc EXCEPT !.block_size = size, !.unit = M!HighestBit(size)]
        BY <1>9, <2>6
      <3>3. mmc' \in MmcT /\ mmc'.type = mmc.type /\ mmc'.unit = mmc'.block_size
        BY <1>3, <1>4, <3>2 DEF MmcT
      <3>4. card.st = "ready" /\ card' = card
        BY <1>2, <1>9, <2>6 DEF M!CardAfter, M!Answers, M!Fails
      <3>5. ~ (mmc.type = "SDV2_SC" /\ card.hc) /\ (mmc.type = "SDV2_HC" => card.hc)
        BY <1>1, <2>6, <3>1, <3>4 DEF CardInv, CardType
      <3>6. CountsRight'
        BY <1>3, <3>3, <3>4, <3>5 DEF CountsRight, MmcT
      <3>7. CardType'
        BY <2>1, <2>6, <3>1, <3>3, <3>4, <3>5 DEF CardType
      <3>8. PlanOf(req.name, req'.todo)
        BY <2>1, <2>6, <3>1 DEF PlanOf, EndTodo
      <3> QED BY <1>1, <2>1, <2>2, <2>6, <3>3, <3>6, <3>7, <3>8, AnsweredKeeps
    <2>7. CASE req.name \in {"read", "write"}
      <3>1. Tail(req.todo) = <<>> /\ cmd \in {"READ_SINGLE_BLOCK", "WRITE_SINGLE_BLOCK"}
        BY <1>1, <2>7, DataGoesOn DEF PlanOf
      <3>2. mmc' = mmc
        BY <1>3, <1>9, <2>7, <3>1 DEF M!TypeAfter, MmcT
      <3>3. CardType'
        BY <1>5, <2>1, <2>7, <3>2 DEF CardType, CardInv
      <3>4. PlanOf(req.name, req'.todo)
        BY <2>1, <2>7, <3>1 DEF PlanOf, ReadTodo, WriteTodo
      <3> QED BY <1>1, <1>3, <2>1, <2>2, <2>7, <3>2, <3>3, <3>4, AnsweredKeeps
    <2> QED
      <3>1. req.name = "end" => cmd \in {"READ_OCR", "SET_BLOCKLEN"}
        BY <1>1, EndGoesOn DEF PlanOf
      <3> QED BY <1>1, <2>3, <2>4, <2>5, <2>6, <2>7, <3>1 DEF PlanOf
  <1> QED BY <1>2, <1>8, <1>9

\* The call ends, or what it sent is on its way, and the driver is as it was.
LEMMA EndingKeeps ==
  ASSUME CardInv, Holding, UNCHANGED mmc, req'.pc \in {"busy", "release"}, req'.pc = "busy" => req.name = "write",
         req.name = "end" /\ req'.ret = "ok" => CountsRight,
         CardData'
  PROVE  CardInv'
  <1> USE DEF CardInv
  <1>1. CardShape'
    BY HoldingKeeps DEF CardShape
  <1>2. CardPlan'
    BY HoldingKeeps DEF CardPlan, Holding
  <1>3. CardType'
    BY DEF CardType, Holding
  <1>4. CardUp'
    BY HoldingKeeps DEF CardUp, CountsRight, Holding
  <1> QED BY <1>1, <1>2, <1>3, <1>4, HoldingKeeps

\* Where the driver counts right, the block it names is the one it was asked for.
LEMMA AddressRight ==
  ASSUME CardInv, req.pc # "idle", req.name \in {"read", "write"}
  PROVE  M!At(M!Address(req.n)) = req.n /\ req.n \in 0 .. Blocks - 1
  <1>1. req.n \in Nat /\ req.n \in 0 .. Blocks - 1
    BY DEF CardInv, CardPlan
  <1>2. mmc \in MmcT /\ mmc.type # "unknown" /\ CountsRight
    BY DEF CardInv, CardShape, CardUp
  <1>3. CASE card.hc
    BY <1>1, <1>2, <1>3 DEF CountsRight, M!At, M!Address
  <1>4. CASE ~card.hc
    <2>1. mmc.block_size \in Nat \ {0} /\ mmc.unit = mmc.block_size /\ mmc.type # "SDV2_HC"
      BY <1>2, <1>4 DEF CountsRight, MmcT
    <2>2. \A n \in Nat, b \in Nat \ {0} : (n * b) \div b = n
      OBVIOUS
    <2>3. M!At(M!Address(req.n)) = (req.n * mmc.block_size) \div mmc.block_size
      BY <1>4, <2>1 DEF M!At, M!Address
    <2> QED BY <1>1, <2>1, <2>2, <2>3
  <1> QED BY <1>1, <1>3, <1>4

LEMMA AppKeeps == ASSUME CardInv, M!sdmmc_send_app_command PROVE CardInv'
  <1>1. PICK ret : req' = [req EXCEPT !.pc = "release", !.ret = ret]
    BY DEF M!sdmmc_send_app_command, M!Release
  <1>2. /\ req.pc = "command" /\ req.todo = <<>> /\ req.name \in {"init", "wait", "end"}
        /\ UNCHANGED <<mmc, card, mutex, spent>>
    BY DEF M!sdmmc_send_app_command
  <1>3. req'.pc = "release" /\ req'.name = req.name /\ req'.n = req.n
    BY <1>1
  <1>4. Holding
    BY <1>2, <1>3 DEF Holding, CardInv, CardShape
  <1>5. CardData'
    BY <1>2, <1>3 DEF CardData
  <1>6. req.name = "end" => CountsRight
    BY <1>2 DEF CardInv, CardUp
  <1> QED BY <1>2, <1>3, <1>4, <1>5, <1>6, EndingKeeps

LEMMA ReadKeeps == ASSUME CardInv, M!ReadData PROVE CardInv'
  <1>1. req.pc = "command" /\ req.name = "read" /\ UNCHANGED <<mmc, card, mutex, spent>>
    BY DEF M!ReadData
  <1>2. M!At(M!Address(req.n)) = req.n
    BY <1>1, AddressRight
  <1>3. /\ req'.pc = "release" /\ req'.name = req.name /\ req'.n = req.n
        /\ req'.ret = "ok" => req'.got = card.data[req.n]
    <2>1. CASE M!Release("error")
      BY <2>1 DEF M!Release
    <2>2. CASE \E garbled \in BOOLEAN :
                 req' = [req EXCEPT !.pc = "release", !.ret = IF M!CrcDiffers(garbled) THEN "error" ELSE "ok",
                           !.got = IF garbled THEN -1 ELSE card.data[M!At(M!Address(req.n))]]
      <3>1. CASE req' = [req EXCEPT !.pc = "release", !.ret = "error", !.got = -1]
        BY <3>1
      <3>2. CASE req' = [req EXCEPT !.pc = "release", !.ret = "ok", !.got = card.data[req.n]]
        BY <3>2
      <3>3. \/ req' = [req EXCEPT !.pc = "release", !.ret = "error", !.got = -1]
            \/ req' = [req EXCEPT !.pc = "release", !.ret = "ok", !.got = card.data[req.n]]
        BY <1>2, <2>2 DEF M!CrcDiffers
      <3> QED BY <3>1, <3>2, <3>3
    <2> QED BY <2>1, <2>2 DEF M!ReadData
  <1>4. Holding
    BY <1>1, <1>3 DEF Holding, CardInv, CardShape
  <1>5. CardData'
    BY <1>1, <1>3 DEF CardData
  <1> QED BY <1>1, <1>3, <1>4, <1>5, EndingKeeps

LEMMA WriteKeeps == ASSUME CardInv, M!WriteData PROVE CardInv'
  <1>1. req.pc = "command" /\ req.name = "write" /\ UNCHANGED <<mmc, mutex, spent>>
    BY DEF M!WriteData
  <1>2. M!At(M!Address(req.n)) = req.n /\ req.n \in 0 .. Blocks - 1
    BY <1>1, AddressRight
  <1>3. card \in CardT /\ spent.calls \in Nat
    BY DEF CardInv, CardShape, SpentT
  <1>4. PICK response \in M!Responses :
          \E stored \in {response = "ok", response = "ok" \/ (response = "none" /\ M!There)} :
            /\ card' = IF stored THEN [card EXCEPT !.data[M!At(M!Address(req.n))] = spent.calls] ELSE card
            /\ req' = [req EXCEPT !.pc = IF response = "ok" THEN "busy" ELSE "release",
                         !.ret = IF response = "ok" THEN "ok" ELSE "error"]
    BY DEF M!WriteData
  <1>5. /\ req'.pc = (IF response = "ok" THEN "busy" ELSE "release") /\ req'.name = req.name
        /\ req'.n = req.n /\ req'.ret = IF response = "ok" THEN "ok" ELSE "error"
    BY <1>4
  <1>6. \/ card' = [card EXCEPT !.data = [@ EXCEPT ![req.n] = spent.calls]]
        \/ response # "ok" /\ card' = card
    <2>1. PICK stored \in BOOLEAN :
            /\ response = "ok" => stored
            /\ card' = IF stored THEN [card EXCEPT !.data[M!At(M!Address(req.n))] = spent.calls] ELSE card
      BY <1>4, Zenon
    <2> QED BY <1>2, <2>1
  <1>7. /\ card' \in CardT /\ card'.hc = card.hc /\ card'.selected = card.selected
        /\ response = "ok" => card'.data[req.n] = spent.calls
    <2>1. CASE response # "ok" /\ card' = card
      BY <1>3, <2>1
    <2>2. CASE card' = [card EXCEPT !.data = [@ EXCEPT ![req.n] = spent.calls]]
      <3> DEFINE data == [card.data EXCEPT ![req.n] = spent.calls]
      <3>1. data \in [0 .. Blocks - 1 -> Nat] /\ data[req.n] = spent.calls
        BY <1>2, <1>3 DEF CardT
      <3>2. card' = [card EXCEPT !.data = data]
        BY <2>2
      <3> HIDE DEF data
      <3> QED BY <1>3, <3>1, <3>2 DEF CardT
    <2> QED BY <1>6, <2>1, <2>2
  <1>8. Holding
    BY <1>1, <1>5, <1>7 DEF Holding
  <1>9. CardData'
    BY <1>1, <1>5, <1>7 DEF CardData
  <1> QED BY <1>1, <1>5, <1>8, <1>9, EndingKeeps

LEMMA ReadyKeeps == ASSUME CardInv, M!sdmmc_wait_for_ready PROVE CardInv'
  <1>1. req.pc = "busy" /\ UNCHANGED <<mmc, card, mutex, spent>>
    BY DEF M!sdmmc_wait_for_ready
  <1>2. PICK ret \in {"ok", "error"} : req' = [req EXCEPT !.pc = "release", !.ret = ret]
    BY DEF M!sdmmc_wait_for_ready, M!Release
  <1>3. req'.pc = "release" /\ req'.name = req.name /\ req'.n = req.n
    BY <1>2
  <1>4. req.name = "write"
    BY <1>1 DEF CardInv, CardPlan
  <1>5. Holding
    BY <1>1, <1>3 DEF Holding, CardInv, CardShape
  <1>6. CardData'
    <2>1. card.data[req.n] = spent.calls
      BY <1>1, <1>4 DEF CardInv, CardData
    <2> QED BY <1>1, <1>3, <1>4, <2>1 DEF CardData
  <1> QED BY <1>1, <1>3, <1>4, <1>5, <1>6, EndingKeeps

\* The call returns and gives the bus back.
LEMMA ReleaseKeeps == ASSUME CardInv, M!release_bus PROVE CardInv'
  <1> USE DEF CardInv
  <1>1. /\ req.pc = "release" /\ card' = [card EXCEPT !.selected = FALSE] /\ mutex' = "none"
        /\ req' = [req EXCEPT !.pc = "idle"] /\ UNCHANGED mmc
    BY DEF M!release_bus
  <1>2. card' \in CardT /\ card'.selected = FALSE /\ card'.hc = card.hc /\ card'.data = card.data
    BY <1>1 DEF CardShape, CardT
  <1>3. /\ req'.pc = "idle" /\ req'.name = req.name /\ req'.n = req.n /\ req'.ret = req.ret
        /\ req'.got = req.got
    BY <1>1
  <1>4. /\ spent' \in SpentT /\ spent'.calls = spent.calls
        /\ spent'.up <=> (spent.up \/ (req.name = "end" /\ req.ret = "ok"))
    <2>1. spent \in SpentT
      BY DEF CardShape
    <2>2. PICK up \in BOOLEAN : up <=> (spent.up \/ (req.name = "end" /\ req.ret = "ok"))
      OBVIOUS
    <2>3. spent' = [spent EXCEPT !.up = up]
      BY <2>2 DEF M!release_bus
    <2> QED BY <2>1, <2>2, <2>3 DEF SpentT
  <1>5. CardShape'
    BY <1>1, <1>2, <1>3, <1>4 DEF CardShape
  <1>6. CardPlan' /\ CardType'
    BY <1>1, <1>2, <1>3 DEF CardPlan, CardType
  <1>7. CardUp'
    BY <1>1, <1>2, <1>3, <1>4 DEF CardUp, CountsRight
  <1>8. CardData'
    BY <1>1, <1>2, <1>3, <1>4 DEF CardData
  <1>9. M!BusGivenBack'
    BY <1>1, <1>2, <1>3 DEF M!BusGivenBack
  <1> QED BY <1>5, <1>6, <1>7, <1>8, <1>9

LEMMA CardNext == CardInv /\ [M!Next]_cardVars => CardInv'
  <1> SUFFICES ASSUME CardInv, [M!Next]_cardVars PROVE CardInv'
    OBVIOUS
  <1>1. CASE UNCHANGED cardVars
    BY <1>1 DEF cardVars, CardInv, CardShape, CardPlan, CardType, CardUp, CountsRight, CardData,
                M!BusGivenBack
  <1>2. CASE M!Next
    BY <1>2, OthersKeep, CallsKeep, CommandKeeps, AppKeeps, ReadKeeps, WriteKeeps, ReadyKeeps,
       ReleaseKeeps DEF M!Next
  <1> QED BY <1>1, <1>2

\* A read or write that returns 0 was about the block it was asked for, on a
\* small card and a large one, and every error path gives the bus back.
THEOREM CardSoundAlways == AllSpec => []CardSound
  <1>1. CardInv => CardSound
    BY DEF CardInv, CardData, CardSound, M!CardSound, M!BlockRight
  <1>2. [AllNext]_allVars => [M!Next]_cardVars
    BY DEF AllNext, allVars, cardVars
  <1>3. CardInv /\ [AllNext]_allVars => CardInv'
    BY <1>2, CardNext
  <1> QED BY <1>1, <1>3, CardInit, PTL DEF AllSpec

(***************************************************************************)
(* The radio chip (Cc1101).                                                *)
(***************************************************************************)

States == {"idle", "settling", "rx", "tx", "fstxon", "rxover", "txunder"}
Commands == {"flush_rx", "flush_tx", "quiet", "state_rx", "start_freq_synth", "state_tx"}
PacketBytes == Nat \X Nat

\* The places of a call that say it is not sending, nor is the chip.
Silent == {"load", "tx?", "rx?", "fstxon?", "receive", "length", "body", "status"}

Chips == [st : States, to : States, rx : Seq(PacketBytes), tx : Seq(PacketBytes),
          in : PacketBytes, out : PacketBytes, torn : BOOLEAN]
Rows == [len : PacketLengths, ok : BOOLEAN]
Places == {"idle", "return", "rx?", "fstxon?", "tx?", "poll", "tx_bytes", "rx_bytes", "load",
           "receive", "length", "body", "status"}
Names == {"none", "flush", "calibrate", "config", "set_patable", "enter_rx", "enter_fstxon",
          "rx_fifo_state", "tx_fifo_state", "send", "receive"}
Todos == {<<>>} \cup {<<c>> : c \in Commands} \cup {<<"state_idle", c>> : c \in Commands}
SpiCalls == [pc : Places, name : Names, todo : Todos, size : Nat, ret : Int, status : Nat,
             over : BOOLEAN, buffer : Seq(PacketBytes), appended : Seq(PacketBytes)]

RadioShape ==
  /\ radio \in Chips /\ packets \in Seq(Rows) /\ spi \in SpiCalls
  /\ radio.in # C!None => radio.st = "rx"
  /\ radio.out # C!None => radio.st = "tx"

\* What a call has still to tell the chip, and when the chip is sure to be idle.
TodoPart ==
  /\ spi.pc \in Silent \cup {"idle", "tx_bytes"} => spi.todo = <<>>
  /\ spi.todo \in {<<"flush_rx">>, <<"flush_tx">>} => radio.st = "idle"
  /\ spi.name = "receive" => spi.pc \in {"receive", "length", "body", "status", "return", "idle"}

\* What is in the receive FIFO, and the byte that comes in next.
Stream == IF radio.in = C!None THEN radio.rx ELSE Append(radio.rx, radio.in)

\* Byte b can come from the air; c is n bytes after it or of a later packet; c can
\* be the next.
OnAir(b) == b[1] \in 1 .. Len(packets) /\ b[2] <= C!Length(b) + 2
Ordered(b, c, n) == b[1] < c[1] \/ (b[1] = c[1] /\ b[2] + n = c[2])
Follows(b, c) == c[2] # 0 => c = <<b[1], b[2] + 1>>

\* The bytes that came in are of one packet after the other, those of a packet in
\* order, without a gap but where a packet was cut.
StreamPart ==
  /\ \A i \in DOMAIN Stream : OnAir(Stream[i])
  /\ \A i, j \in DOMAIN Stream : i < j => Ordered(Stream[i], Stream[j], j - i)
  /\ \A i \in DOMAIN Stream : i > 1 => Follows(Stream[i - 1], Stream[i])

\* The FIFO starts with a packet, but while one is read from it.
HeadPart ==
  (spi.pc \notin {"body", "status"} /\ Stream # <<>>) => Stream[1][2] = 0

\* The FIFO rx starts with what is left of packet p of the packets pk from byte n.
Starts(rx, pk, p, n) ==
  /\ p \in 1 .. Len(pk)
  /\ Len(rx) >= pk[p].len + 3 - n
  /\ \A k \in 1 .. (pk[p].len + 3 - n) : rx[k] = <<p, n + k - 1>>

\* The call has the first n bytes of packet p, and answers with its length.
Taken(s, pk, p, n) ==
  /\ p \in 1 .. Len(pk)
  /\ s.buffer = [i \in 1 .. n |-> <<p, i - 1>>]
  /\ s.ret = pk[p].len + 1

\* How much of its packet a receive call has taken: nothing yet, its length, its
\* data, all of it; or the call has reported an error and empties the FIFO.
AskedPart ==
  spi.pc \in {"receive", "length"} =>
    /\ spi.name = "receive" /\ spi.size = CC1101_FIFO_SIZE
    /\ \E p \in 1 .. Len(packets) :
         /\ Starts(radio.rx, packets, p, 0)
         /\ spi.pc = "length" => spi.status >= packets[p].len + 3
BodyPart ==
  spi.pc = "body" => \E p \in 1 .. Len(packets) :
    /\ spi.name = "receive" /\ spi.size = packets[p].len
    /\ Taken(spi, packets, p, 1) /\ Starts(radio.rx, packets, p, 1)
StatusPart ==
  spi.pc = "status" => \E p \in 1 .. Len(packets) :
    /\ Taken(spi, packets, p, packets[p].len + 1)
    /\ Starts(radio.rx, packets, p, packets[p].len + 1)
AnswerPart ==
  (spi.pc \in {"return", "idle"} /\ spi.name = "receive" /\ spi.ret > 0) =>
    \E p \in 1 .. Len(packets) :
      /\ Taken(spi, packets, p, packets[p].len + 1) /\ packets[p].ok /\ spi.todo = <<>>
      /\ spi.appended = <<<<p, packets[p].len + 1>>, <<p, packets[p].len + 2>>>>
RefusedPart ==
  (spi.pc \in {"return", "idle"} /\ spi.name = "receive" /\ spi.ret < 0) =>
    \/ spi.todo = C!cc1101_flush_rx_fifo \/ spi.todo = <<"flush_rx">>
    \/ spi.todo = <<>> /\ radio.rx = <<>> /\ radio.st = "idle"
ReceivePart == AskedPart /\ BodyPart /\ StatusPart /\ AnswerPart /\ RefusedPart

\* The FIFO to send from holds what is left of one packet.
SendPart ==
  /\ ~radio.torn
  /\ spi.pc \in Silent => ~C!Sending
  /\ spi.todo # <<>> /\ spi.todo # <<"quiet">> => ~C!Sending
  /\ radio.out # C!None => radio.tx # <<>> /\ radio.tx[1] = radio.out
  /\ radio.tx # <<>> =>
       /\ radio.out = C!None => radio.tx[1][2] = 0
       /\ radio.tx[1][1] \in 1 .. Len(packets)
       /\ radio.tx[1][2] + Len(radio.tx) = C!Length(radio.tx[1]) + 1
       /\ \A i \in DOMAIN radio.tx : radio.tx[i] = <<radio.tx[1][1], radio.tx[1][2] + i - 1>>
  /\ spi.pc = "load" =>
       /\ radio.tx = <<>> /\ spi.name = "send"
       /\ \E p \in 1 .. Len(packets) :
            /\ spi.size = packets[p].len + 1
            /\ spi.buffer = [i \in 1 .. (packets[p].len + 1) |-> <<p, i - 1>>]

\* A packet in it is on its way, or about to be, or about to be flushed, or was left.
LeftPart ==
  radio.tx # <<>> =>
    \/ radio.st = "tx" \/ radio.tx[1][1] = past.left
    \/ spi.name = "send" /\ spi.pc \in {"tx?", "poll"}
    \/ spi.pc = "return" /\ spi.todo \in {C!cc1101_flush_tx_fifo, <<"flush_tx">>}

RadioParts ==
  RadioShape /\ TodoPart /\ StreamPart /\ HeadPart /\ ReceivePart /\ SendPart /\ LeftPart
\* What is remembered of the calls.
PastShape ==
  past = [calls |-> past.calls, odd |-> past.odd, left |-> past.left] /\ past.odd \in BOOLEAN

RadioInv == PastShape /\ (~past.odd => RadioParts)

LEMMA RadioAssumed ==
  /\ CC1101_FIFO_SIZE \in 1 .. 255
  /\ \A l \in PacketLengths : l \in Nat /\ 1 <= l /\ l <= CC1101_FIFO_SIZE - 1
  BY PartAssumptions DEF C!Cc1101Assumption

LEMMA LengthIs ==
  ASSUME RadioShape
  PROVE  \A p \in 1 .. Len(packets) :
           /\ packets[p].len \in Nat /\ packets[p].ok \in BOOLEAN
           /\ 1 <= packets[p].len /\ packets[p].len <= CC1101_FIFO_SIZE - 1
<1>1. SUFFICES ASSUME NEW p \in 1 .. Len(packets)
               PROVE  /\ packets[p].len \in Nat /\ packets[p].ok \in BOOLEAN
                      /\ 1 <= packets[p].len /\ packets[p].len <= CC1101_FIFO_SIZE - 1
  OBVIOUS
<1>2. packets[p] \in Rows
  BY DEF RadioShape
<1>3. packets[p].len \in PacketLengths /\ packets[p].ok \in BOOLEAN
  BY <1>2 DEF Rows
<1> QED
  BY <1>3, RadioAssumed

LEMMA EmptyIs ==
  ASSUME NEW t \in Seq(PacketBytes)
  PROVE  t = <<>> <=> Len(t) = 0
  OBVIOUS

LEMMA StreamIs ==
  ASSUME RadioShape
  PROVE  /\ Stream \in Seq(PacketBytes)
         /\ radio.in = C!None => Stream = radio.rx
         /\ radio.in # C!None => /\ Len(Stream) = Len(radio.rx) + 1
                                 /\ Stream[Len(radio.rx) + 1] = radio.in
         /\ \A i \in DOMAIN radio.rx : i \in DOMAIN Stream /\ Stream[i] = radio.rx[i]
         /\ Len(radio.rx) <= Len(Stream)
<1>1. radio.rx \in Seq(PacketBytes) /\ radio.in \in PacketBytes
  BY DEF RadioShape, Chips, Rows, SpiCalls
<1> QED
  BY <1>1 DEF Stream

\* Packets are only added.
PacketsGrow ==
  Len(packets) <= Len(packets') /\ \A p \in 1 .. Len(packets) : packets'[p] = packets[p]

\* What stays of the stream, from byte k + 1 on, is one, and with more packets too.
LEMMA StreamKept ==
  ASSUME StreamPart, RadioShape, RadioShape', NEW k \in Nat,
         PacketsGrow,
         Len(Stream') + k <= Len(Stream), \A i \in 1 .. Len(Stream') : Stream'[i] = Stream[i + k]
  PROVE  StreamPart'
<1>1. Stream \in Seq(PacketBytes) /\ Stream' \in Seq(PacketBytes)
  <2>1. radio.rx' \in Seq(PacketBytes) /\ radio.in' \in PacketBytes
    BY DEF RadioShape, Chips, Rows, SpiCalls
  <2>2. Stream' \in Seq(PacketBytes)
    BY <2>1 DEF Stream
  <2> QED
    BY <2>2, StreamIs
<1>2. PICK m \in Nat : m = Len(Stream)
  BY <1>1
<1>3. PICK n \in Nat : n = Len(Stream')
  BY <1>1
<1>4. DOMAIN Stream = 1 .. m /\ DOMAIN Stream' = 1 .. n /\ n + k <= m
  BY <1>1, <1>2, <1>3
<1>5. \A i \in 1 .. n : i + k \in 1 .. m /\ Stream'[i] = Stream[i + k]
  BY <1>3, <1>4
<1>6. \A i \in 1 .. n : OnAir(Stream[i])'
  <2>1. TAKE i \in 1 .. n
  <2>2. OnAir(Stream[i + k]) /\ Stream'[i] = Stream[i + k]
    BY <1>4, <1>5 DEF StreamPart
  <2>3. PICK l \in Nat : l = Len(packets)
    BY DEF RadioShape, Chips, Rows, SpiCalls
  <2>4. PICK q \in Nat : q = Len(packets')
    BY DEF RadioShape, Chips, Rows, SpiCalls
  <2> QED
    BY <2>2, <2>3, <2>4 DEF OnAir, C!Length, PacketsGrow
<1>7. \A i, j \in 1 .. n : i < j => Ordered(Stream'[i], Stream'[j], j - i)
  <2>1. SUFFICES ASSUME NEW i \in 1 .. n, NEW j \in 1 .. n, i < j PROVE Ordered(Stream'[i], Stream'[j], j - i)
    OBVIOUS
  <2>2. i + k < j + k /\ (j + k) - (i + k) = j - i
    BY <2>1
  <2>3. Ordered(Stream[i + k], Stream[j + k], (j + k) - (i + k))
    BY <1>4, <1>5, <2>2 DEF StreamPart
  <2> QED
    BY <1>5, <2>2, <2>3
<1>8. \A i \in 1 .. n : i > 1 => Follows(Stream'[i - 1], Stream'[i])
  <2>1. SUFFICES ASSUME NEW i \in 1 .. n, i > 1 PROVE Follows(Stream'[i - 1], Stream'[i])
    OBVIOUS
  <2>2. i - 1 \in 1 .. n /\ i + k > 1 /\ (i - 1) + k = (i + k) - 1
    BY <2>1
  <2>3. Follows(Stream[(i + k) - 1], Stream[i + k])
    BY <1>4, <1>5, <2>2 DEF StreamPart
  <2> QED
    BY <1>5, <2>2, <2>3
<1> QED
  BY <1>4, <1>6, <1>7, <1>8 DEF StreamPart, Ordered, Follows

\* What a call has of its packet it keeps while bytes and packets come in.
LEMMA ReceiveStays ==
  ASSUME RadioShape, RadioShape', ReceivePart, PacketsGrow, spi' = spi,
         Len(radio.rx) <= Len(radio'.rx), \A i \in 1 .. Len(radio.rx) : radio'.rx[i] = radio.rx[i],
         radio.st = "idle" => radio'.st = "idle" /\ radio'.rx = radio.rx
  PROVE  ReceivePart'
<1>1. spi' = spi
  OBVIOUS
<1>2. PICK l \in Nat, m \in Nat : l = Len(packets) /\ m = Len(packets')
  BY DEF RadioShape
<1>3. \A p \in 1 .. l : p \in 1 .. m /\ packets'[p] = packets[p]
  BY <1>2 DEF PacketsGrow
<1>4. PICK a \in Nat, b \in Nat : a = Len(radio.rx) /\ b = Len(radio'.rx)
  BY DEF RadioShape, Chips, Rows, SpiCalls
<1>5. \A p \in 1 .. l : packets[p].len \in Nat
  BY <1>2, LengthIs
<1>6. \A p \in 1 .. l, n \in Nat : Starts(radio.rx, packets, p, n) => Starts(radio'.rx, packets', p, n)
  <2>1. SUFFICES ASSUME NEW p \in 1 .. l, NEW n \in Nat, Starts(radio.rx, packets, p, n)
                 PROVE  Starts(radio'.rx, packets', p, n)
    OBVIOUS
  <2>2. a <= b /\ \A i \in 1 .. a : radio'.rx[i] = radio.rx[i]
    BY <1>4
  <2>3. PICK h \in Int : h = packets[p].len + 3 - n
    BY <1>5
  <2>4. a >= h /\ \A k \in 1 .. h : radio.rx[k] = <<p, n + k - 1>>
    BY <2>1, <2>3, <1>4 DEF Starts
  <2>5. b >= h /\ \A k \in 1 .. h : radio'.rx[k] = <<p, n + k - 1>>
    <3>1. b >= h
      BY <2>2, <2>4
    <3>2. ASSUME NEW k \in 1 .. h PROVE radio'.rx[k] = <<p, n + k - 1>>
      <4>1. k \in 1 .. a
        BY <2>4
      <4>2. radio'.rx[k] = radio.rx[k]
        BY <4>1, <2>2
      <4> QED
        BY <4>2, <2>4
    <3> QED
      BY <3>1, <3>2
  <2> QED
    BY <2>3, <2>5, <1>2, <1>3, <1>4 DEF Starts
<1>7. \A p \in 1 .. l, n \in Nat : Taken(spi, packets, p, n) => Taken(spi', packets', p, n)
  BY <1>2, <1>3 DEF Taken
<1>8. \A p \in 1 .. l : packets[p].len + 1 \in Nat
  BY <1>5
<1>9. 0 \in Nat /\ 1 \in Nat
  OBVIOUS
<1>10. AskedPart'
  BY <1>1, <1>2, <1>3, <1>6, <1>9 DEF ReceivePart, AskedPart
<1>11. BodyPart'
  BY <1>1, <1>2, <1>3, <1>6, <1>7, <1>9 DEF ReceivePart, BodyPart
<1>12. StatusPart'
  BY <1>1, <1>2, <1>3, <1>6, <1>7, <1>8 DEF ReceivePart, StatusPart
<1>13. AnswerPart'
  BY <1>1, <1>2, <1>3, <1>7, <1>8 DEF ReceivePart, AnswerPart
<1>14. RefusedPart'
  BY <1>1 DEF ReceivePart, RefusedPart, C!cc1101_flush_rx_fifo
<1> QED
  BY <1>10, <1>11, <1>12, <1>13, <1>14 DEF ReceivePart

\* What is to send stays while the chip does something else.
LEMMA SendStays ==
  ASSUME RadioShape, RadioShape', SendPart, PacketsGrow, spi' = spi, C!Sending' => C!Sending,
         radio'.tx = radio.tx, radio'.out = radio.out, radio'.torn = radio.torn
  PROVE  SendPart'
<1>2. PICK l \in Nat, m \in Nat : l = Len(packets) /\ m = Len(packets')
  BY DEF RadioShape
<1>3. \A p \in 1 .. l : p \in 1 .. m /\ packets'[p] = packets[p]
  BY <1>2 DEF PacketsGrow
<1>4. /\ spi'.pc \in Silent => ~C!Sending'
      /\ spi'.todo # <<>> /\ spi'.todo # <<"quiet">> => ~C!Sending'
      /\ ~radio'.torn
      /\ radio'.out # C!None => radio'.tx # <<>> /\ radio'.tx[1] = radio'.out
  BY DEF SendPart
<1>5. ASSUME radio'.tx # <<>>
      PROVE  /\ radio'.out = C!None => radio'.tx[1][2] = 0
             /\ radio'.tx[1][1] \in 1 .. m
             /\ radio'.tx[1][2] + Len(radio'.tx) = packets'[radio'.tx[1][1]].len + 1
             /\ \A i \in DOMAIN radio'.tx : radio'.tx[i] = <<radio'.tx[1][1], radio'.tx[1][2] + i - 1>>
  <2>1. /\ radio.out = C!None => radio.tx[1][2] = 0
        /\ radio.tx[1][1] \in 1 .. l
        /\ radio.tx[1][2] + Len(radio.tx) = packets[radio.tx[1][1]].len + 1
        /\ \A i \in DOMAIN radio.tx : radio.tx[i] = <<radio.tx[1][1], radio.tx[1][2] + i - 1>>
    BY <1>2, <1>5 DEF SendPart, C!Length
  <2>2. radio.tx[1][1] \in 1 .. m /\ packets'[radio.tx[1][1]] = packets[radio.tx[1][1]]
    BY <2>1, <1>3
  <2> QED
    BY <2>1, <2>2
<1>6. ASSUME spi'.pc = "load"
      PROVE  /\ radio'.tx = <<>> /\ spi'.name = "send"
             /\ \E p \in 1 .. m :
                  /\ spi'.size = packets'[p].len + 1
                  /\ spi'.buffer = [i \in 1 .. (packets'[p].len + 1) |-> <<p, i - 1>>]
  <2>1. radio.tx = <<>> /\ spi.name = "send"
    BY <1>6 DEF SendPart
  <2>2. PICK p \in 1 .. l : /\ spi.size = packets[p].len + 1
                           /\ spi.buffer = [i \in 1 .. (packets[p].len + 1) |-> <<p, i - 1>>]
    BY <1>6, <1>2 DEF SendPart
  <2>3. p \in 1 .. m /\ packets'[p].len = packets[p].len
    BY <1>3
  <2>4. spi'.size = packets'[p].len + 1
    BY <2>2, <2>3
  <2>5. spi'.buffer = [i \in 1 .. (packets'[p].len + 1) |-> <<p, i - 1>>]
    BY <2>2, <2>3
  <2> QED
    BY <2>1, <2>3, <2>4, <2>5
<1>7. Len(packets') = m
  BY <1>2
<1> QED
  BY <1>4, <1>5, <1>6, <1>7 DEF SendPart, C!Length

LEMMA StreamStays ==
  ASSUME radio'.rx = radio.rx, radio'.in = radio.in, packets' = packets
  PROVE  Stream' = Stream /\ (StreamPart => StreamPart')
<1>1. Stream' = Stream
  BY DEF Stream
<1> QED
  BY <1>1 DEF StreamPart, OnAir, Ordered, Follows, C!Length

\* A change of state of the chip reaches the state that was asked for.
LEMMA SettleKeeps ==
  ASSUME RadioParts, C!Settle
  PROVE  RadioParts'
<1>1. radio.st = "settling" /\ radio' = [radio EXCEPT !.st = radio.to] /\ UNCHANGED <<packets, spi, past>>
  BY DEF C!Settle
<1>2. RadioShape'
  BY <1>1 DEF RadioParts, RadioShape, Chips, Rows, SpiCalls, States
<1>3. /\ radio'.rx = radio.rx /\ radio'.in = radio.in /\ radio'.tx = radio.tx /\ radio'.out = radio.out
      /\ radio'.torn = radio.torn /\ radio'.st = radio.to
  BY <1>1 DEF RadioParts, RadioShape, Chips, Rows, SpiCalls
<1>4. TodoPart'
  BY <1>1 DEF RadioParts, TodoPart
<1>5. StreamPart' /\ HeadPart'
  BY <1>1, <1>3, StreamStays DEF RadioParts, HeadPart
<1>s. PacketsGrow
  BY <1>1 DEF RadioParts, RadioShape, Chips, Rows, SpiCalls, PacketsGrow
<1>6. ReceivePart'
  BY <1>1, <1>2, <1>3, <1>s, ReceiveStays DEF RadioParts, RadioShape, Chips, Rows, SpiCalls
<1>7. SendPart'
  BY <1>1, <1>2, <1>3, <1>s, SendStays DEF RadioParts, C!Sending
<1>8. LeftPart'
  BY <1>1, <1>3 DEF RadioParts, LeftPart
<1> QED
  BY <1>2, <1>4, <1>5, <1>6, <1>7, <1>8 DEF RadioParts

\* What is kept when one more packet is known of.
LEMMA OneMore ==
  ASSUME RadioShape, NEW q \in Rows, packets' = Append(packets, q)
  PROVE  /\ packets' \in Seq(Rows)
         /\ Len(packets') = Len(packets) + 1 /\ Len(packets) \in Nat
         /\ \A p \in 1 .. Len(packets) : p \in 1 .. Len(packets') /\ packets'[p] = packets[p]
         /\ packets'[Len(packets) + 1] = q
  BY DEF RadioShape, Chips, Rows, SpiCalls

LEMMA PacketComesKeeps ==
  ASSUME RadioParts, C!PacketComes
  PROVE  RadioParts'
<1>0. RadioShape
  BY DEF RadioParts
<1>1. PICK q \in Rows : packets' = Append(packets, q)
  BY DEF C!PacketComes, Rows
<1>2. PICK n \in Nat : n = Len(packets)
  BY <1>0, <1>1, OneMore
<1>3. /\ radio.st = "rx" /\ radio.in = C!None /\ radio' = [radio EXCEPT !.in = <<n + 1, 0>>]
      /\ UNCHANGED <<spi, past>>
  BY <1>2 DEF C!PacketComes
<1>4. /\ packets' \in Seq(Rows) /\ Len(packets') = n + 1
      /\ \A p \in 1 .. n : p \in 1 .. (n + 1) /\ packets'[p] = packets[p]
  BY <1>0, <1>1, <1>2, OneMore
<1>a. <<n + 1, 0>> \in PacketBytes
  BY DEF PacketBytes
<1>5. /\ radio'.rx = radio.rx /\ radio'.in = <<n + 1, 0>> /\ radio'.tx = radio.tx /\ radio'.out = radio.out
      /\ radio'.torn = radio.torn /\ radio'.st = radio.st /\ radio'.to = radio.to
      /\ radio' \in Chips
  BY <1>0, <1>3, <1>a DEF RadioShape, Chips, Rows, SpiCalls
<1>6. RadioShape'
  BY <1>0, <1>3, <1>4, <1>5 DEF RadioShape, Chips, Rows, SpiCalls
<1>7. TodoPart'
  BY <1>3, <1>5 DEF RadioParts, TodoPart
<1>8. PICK m \in Nat : m = Len(radio.rx)
  BY <1>0 DEF RadioShape, Chips, Rows, SpiCalls
<1>9. /\ DOMAIN Stream = 1 .. m /\ DOMAIN Stream' = 1 .. (m + 1) /\ Stream'[m + 1] = <<n + 1, 0>>
      /\ \A i \in 1 .. m : Stream'[i] = Stream[i] /\ Stream[i] \in PacketBytes
      /\ Stream = radio.rx /\ Stream' = Append(radio.rx, <<n + 1, 0>>)
  <2>1. Stream = radio.rx /\ Stream' = Append(radio.rx, <<n + 1, 0>>) /\ <<n + 1, 0>> \in PacketBytes
    BY <1>3, <1>5 DEF Stream, C!None, PacketBytes
  <2> QED
    BY <2>1, <1>0, <1>8 DEF RadioShape, Chips, Rows, SpiCalls
<1>10. StreamPart'
  <2>1. \A i \in 1 .. (m + 1) : OnAir(Stream[i])'
    <3>1. ASSUME NEW i \in 1 .. m PROVE OnAir(Stream[i])'
      <4>1. OnAir(Stream[i]) /\ Stream'[i] = Stream[i]
        BY <1>9 DEF RadioParts, StreamPart
      <4> QED
        BY <4>1, <1>2, <1>4 DEF OnAir, C!Length
    <3>2. OnAir(Stream[m + 1])'
      <4>1. packets'[n + 1].len \in Nat
        <5>1. packets'[n + 1] = q /\ q.len \in PacketLengths
          BY <1>0, <1>1, <1>2, OneMore DEF Rows
        <5> QED
          BY <5>1, RadioAssumed
      <4> QED
        BY <4>1, <1>4, <1>9 DEF OnAir, C!Length
    <3> QED
      BY <3>1, <3>2
  <2>2. \A i, j \in 1 .. (m + 1) : i < j => Ordered(Stream'[i], Stream'[j], j - i)
    <3>1. SUFFICES ASSUME NEW i \in 1 .. (m + 1), NEW j \in 1 .. (m + 1), i < j
                   PROVE  Ordered(Stream'[i], Stream'[j], j - i)
      OBVIOUS
    <3>2. i \in 1 .. m
      BY <3>1
    <3>3. CASE j \in 1 .. m
      BY <3>1, <3>2, <3>3, <1>9 DEF RadioParts, StreamPart
    <3>4. CASE j = m + 1
      <4>1. OnAir(Stream[i]) /\ Stream'[i] = Stream[i] /\ Stream[i] \in PacketBytes
        BY <3>2, <1>9 DEF RadioParts, StreamPart
      <4> QED
        BY <4>1, <3>4, <1>2, <1>9 DEF OnAir, Ordered, PacketBytes
    <3> QED
      BY <3>3, <3>4
  <2>3. \A i \in 1 .. (m + 1) : i > 1 => Follows(Stream'[i - 1], Stream'[i])
    <3>1. SUFFICES ASSUME NEW i \in 1 .. (m + 1), i > 1 PROVE Follows(Stream'[i - 1], Stream'[i])
      OBVIOUS
    <3>2. CASE i = m + 1
      BY <3>2, <1>9 DEF Follows
    <3>3. CASE i \in 1 .. m
      <4>1. i - 1 \in 1 .. m
        BY <3>1, <3>3
      <4> QED
        BY <4>1, <3>1, <3>3, <1>9 DEF RadioParts, StreamPart
    <3> QED
      BY <3>2, <3>3
  <2>4. \A i \in DOMAIN Stream' : OnAir(Stream[i])'
    BY <1>9, <2>1
  <2>5. \A i, j \in DOMAIN Stream' : i < j => Ordered(Stream'[i], Stream'[j], j - i)
    BY <1>9, <2>2
  <2>6. \A i \in DOMAIN Stream' : i > 1 => Follows(Stream'[i - 1], Stream'[i])
    BY <1>9, <2>3
  <2> QED
    BY <2>4, <2>5, <2>6 DEF StreamPart, Ordered, Follows
<1>11. HeadPart'
  BY <1>3, <1>8, <1>9 DEF RadioParts, HeadPart
<1>s. PacketsGrow
  BY <1>2, <1>4 DEF PacketsGrow
<1>12. ReceivePart'
  BY <1>3, <1>5, <1>6, <1>8, <1>s, ReceiveStays DEF RadioParts
<1>13. SendPart'
  BY <1>3, <1>5, <1>6, <1>s, SendStays DEF RadioParts, C!Sending
<1>14. LeftPart'
  BY <1>3, <1>5 DEF RadioParts, LeftPart
<1> QED
  BY <1>6, <1>7, <1>10, <1>11, <1>12, <1>13, <1>14 DEF RadioParts

\* A byte comes in: the stream grows, or the FIFO is full and what was to come is lost.
LEMMA ByteInKeeps ==
  ASSUME RadioParts, C!ByteIn
  PROVE  RadioParts'
<1>0. RadioShape
  BY DEF RadioParts
<1>1. radio.in # C!None /\ radio.st = "rx" /\ radio.out = C!None /\ UNCHANGED <<packets, spi, past>>
  BY <1>0 DEF C!ByteIn, RadioShape, Chips, Rows, SpiCalls
<1>2. PICK m \in Nat : m = Len(radio.rx)
  BY <1>0 DEF RadioShape, Chips, Rows, SpiCalls
<1>3. PICK l \in Nat : l = Len(packets)
  BY <1>0 DEF RadioShape, Chips, Rows, SpiCalls
<1>4. PICK p \in Nat, n \in Nat : radio.in = <<p, n>>
  BY <1>0 DEF RadioShape, Chips, Rows, SpiCalls, PacketBytes
<1>5. /\ DOMAIN Stream = 1 .. (m + 1) /\ Stream[m + 1] = <<p, n>> /\ Stream \in Seq(PacketBytes)
      /\ Stream = Append(radio.rx, <<p, n>>) /\ Len(Stream) = m + 1
      /\ \A i \in 1 .. m : Stream[i] = radio.rx[i]
  <2>1. Stream = Append(radio.rx, <<p, n>>)
    BY <1>1, <1>4 DEF Stream
  <2>2. radio.rx \in Seq(PacketBytes) /\ <<p, n>> \in PacketBytes
    BY <1>0, <1>4 DEF RadioShape, Chips, Rows, SpiCalls
  <2> QED
    BY <2>1, <2>2, <1>2
<1>6. p \in 1 .. l /\ n <= packets[p].len + 2 /\ packets[p].len \in Nat
  <2>1. OnAir(<<p, n>>)
    <3>1. m + 1 \in DOMAIN Stream
      BY <1>5
    <3>2. OnAir(Stream[m + 1])
      BY <3>1 DEF RadioParts, StreamPart
    <3> QED
      BY <3>2, <1>5
  <2> QED
    BY <2>1, <1>0, <1>3, LengthIs DEF OnAir, C!Length
<1>s. PacketsGrow
  BY <1>0, <1>1 DEF PacketsGrow, RadioShape, Chips, Rows, SpiCalls
<1>7. CASE m = CC1101_FIFO_SIZE
  <2>1. radio' = C!Goes(radio, "rxover")
    BY <1>2, <1>7 DEF C!ByteIn
  <2>2. /\ radio'.rx = radio.rx /\ radio'.in = C!None /\ radio'.tx = radio.tx /\ radio'.out = radio.out
        /\ radio'.torn = radio.torn /\ radio'.st = "rxover"
    BY <2>1, <1>0, <1>1 DEF C!Goes, RadioShape, Chips, Rows, SpiCalls
  <2>3. RadioShape'
    BY <2>1, <2>2, <1>0, <1>1 DEF C!Goes, RadioShape, Chips, Rows, SpiCalls, States, PacketBytes, C!None
  <2>4. Stream' = radio.rx /\ Len(Stream') = m
    BY <2>2, <1>2 DEF Stream
  <2>5. StreamPart'
    <3>1. Len(Stream') + 0 <= Len(Stream) /\ \A i \in 1 .. Len(Stream') : Stream'[i] = Stream[i + 0]
      BY <2>4, <1>2, <1>5
    <3> QED
      BY <3>1, <2>3, <1>0, <1>s, StreamKept DEF RadioParts
  <2>6. HeadPart'
    <3>1. ASSUME Stream' # <<>> PROVE Stream # <<>> /\ Stream'[1] = Stream[1]
      <4>1. radio.rx # <<>> /\ radio.rx \in Seq(PacketBytes)
        BY <3>1, <2>4, <1>0 DEF RadioShape, Chips, Rows, SpiCalls
      <4>2. m >= 1
        BY <4>1, <1>2
      <4> QED
        BY <4>2, <2>4, <1>2, <1>5
    <3> QED
      BY <3>1, <1>1 DEF RadioParts, HeadPart
  <2>7. TodoPart'
    BY <1>1 DEF RadioParts, TodoPart
  <2>8. ReceivePart'
    BY <2>2, <2>3, <1>0, <1>1, <1>s, ReceiveStays DEF RadioParts
  <2>9. SendPart'
    BY <2>2, <2>3, <1>0, <1>1, <1>s, SendStays DEF RadioParts, C!Sending
  <2>10. LeftPart'
    BY <2>2, <1>1 DEF RadioParts, LeftPart
  <2> QED
    BY <2>3, <2>5, <2>6, <2>7, <2>8, <2>9, <2>10 DEF RadioParts
<1>8. CASE m # CC1101_FIFO_SIZE
  <2> DEFINE next == IF n = packets[p].len + 2 THEN C!None ELSE <<p, n + 1>>
  <2>1. radio' = [radio EXCEPT !.rx = Append(@, radio.in), !.in = next]
    BY <1>1, <1>2, <1>4, <1>8 DEF C!ByteIn, C!Length
  <2>a. next \in PacketBytes
    BY <1>6 DEF PacketBytes, C!None
  <2> HIDE DEF next
  <2>2. /\ radio'.rx = Stream /\ radio'.in = next /\ radio'.tx = radio.tx /\ radio'.out = radio.out
        /\ radio'.torn = radio.torn /\ radio'.st = radio.st /\ radio'.to = radio.to
        /\ radio' \in Chips
    BY <2>1, <2>a, <1>0, <1>4, <1>5 DEF RadioShape, Chips, Rows, SpiCalls
  <2>3. RadioShape'
    BY <2>2, <1>0, <1>1 DEF RadioShape, Chips, Rows, SpiCalls
  <2>4. StreamPart' /\ HeadPart'
    <3>1. CASE n = packets[p].len + 2
      <4>1. Stream' = Stream
        BY <2>2, <3>1 DEF Stream, next
      <4>2. StreamPart'
        BY <4>1, <1>1 DEF RadioParts, StreamPart, OnAir, Ordered, Follows, C!Length
      <4> QED
        BY <4>1, <4>2, <1>1 DEF RadioParts, HeadPart
    <3>2. CASE n # packets[p].len + 2
      <4>1. next = <<p, n + 1>> /\ next # C!None
        BY <3>2, <1>6 DEF next, C!None
      <4>2. Stream' = Append(Stream, <<p, n + 1>>)
        BY <4>1, <2>2 DEF Stream
      <4>3. /\ DOMAIN Stream' = 1 .. (m + 2) /\ Stream'[m + 2] = <<p, n + 1>>
            /\ \A i \in 1 .. (m + 1) : Stream'[i] = Stream[i]
        <5>1. <<p, n + 1>> \in PacketBytes
          BY DEF PacketBytes
        <5> QED
          BY <5>1, <4>2, <1>5
      <4>4. \A i \in DOMAIN Stream' : OnAir(Stream[i])'
        <5>1. \A i \in 1 .. (m + 1) : OnAir(Stream[i])'
          BY <1>1, <1>5, <4>3 DEF RadioParts, StreamPart, OnAir, C!Length
        <5>2. OnAir(Stream[m + 2])'
          BY <1>1, <1>3, <1>6, <3>2, <4>3 DEF OnAir, C!Length
        <5> QED
          BY <5>1, <5>2, <4>3
      <4>5. \A i, j \in DOMAIN Stream' : i < j => Ordered(Stream'[i], Stream'[j], j - i)
        <5>1. SUFFICES ASSUME NEW i \in 1 .. (m + 2), NEW j \in 1 .. (m + 2), i < j
                       PROVE  Ordered(Stream'[i], Stream'[j], j - i)
          BY <4>3
        <5>2. i \in 1 .. (m + 1)
          BY <5>1
        <5>3. CASE j \in 1 .. (m + 1)
          BY <5>1, <5>2, <5>3, <1>5, <4>3 DEF RadioParts, StreamPart
        <5>4. CASE j = m + 2 /\ i \in 1 .. m
          <6>1. Ordered(Stream[i], Stream[m + 1], (m + 1) - i)
            <7>1. i \in DOMAIN Stream /\ m + 1 \in DOMAIN Stream /\ i < m + 1
              BY <5>4, <1>5
            <7> QED
              BY <7>1 DEF RadioParts, StreamPart
          <6>2. PICK x \in Nat, y \in Nat : Stream[i] = <<x, y>>
            <7>1. Stream[i] \in PacketBytes
              BY <5>2, <1>5
            <7> QED
              BY <7>1 DEF PacketBytes
          <6>3. x < p \/ (x = p /\ y + ((m + 1) - i) = n)
            BY <6>1, <6>2, <1>5 DEF Ordered
          <6>4. y + ((m + 2) - i) = (y + ((m + 1) - i)) + 1
            BY <5>4
          <6>5. Stream'[i] = <<x, y>> /\ Stream'[j] = <<p, n + 1>>
            BY <6>2, <5>2, <5>4, <4>3
          <6> QED
            BY <6>3, <6>4, <6>5, <5>4 DEF Ordered
        <5>5. CASE j = m + 2 /\ i = m + 1
          BY <5>5, <1>5, <4>3 DEF Ordered
        <5> QED
          BY <5>1, <5>2, <5>3, <5>4, <5>5
      <4>6. \A i \in DOMAIN Stream' : i > 1 => Follows(Stream'[i - 1], Stream'[i])
        <5>1. SUFFICES ASSUME NEW i \in 1 .. (m + 2), i > 1 PROVE Follows(Stream'[i - 1], Stream'[i])
          BY <4>3
        <5>2. i - 1 \in 1 .. (m + 1)
          BY <5>1
        <5>3. CASE i \in 1 .. (m + 1)
          BY <5>1, <5>2, <5>3, <1>5, <4>3 DEF RadioParts, StreamPart
        <5>4. CASE i = m + 2
          BY <5>2, <5>4, <1>5, <4>3 DEF Follows
        <5> QED
          BY <5>1, <5>3, <5>4
      <4>7. HeadPart'
        <5>1. Stream # <<>> /\ Stream'[1] = Stream[1]
          <6>1. 1 \in 1 .. (m + 1) /\ m + 1 # 0
            OBVIOUS
          <6>2. Stream # <<>>
            BY <6>1, <1>5, EmptyIs
          <6> QED
            BY <6>1, <6>2, <4>3
        <5> QED
          BY <5>1, <1>1 DEF RadioParts, HeadPart
      <4> QED
        BY <4>4, <4>5, <4>6, <4>7 DEF StreamPart, Ordered, Follows
    <3> QED
      BY <3>1, <3>2
  <2>7. TodoPart'
    BY <1>1 DEF RadioParts, TodoPart
  <2>8. ReceivePart'
    <3>1. Len(radio.rx) <= Len(radio'.rx) /\ \A i \in 1 .. Len(radio.rx) : radio'.rx[i] = radio.rx[i]
      BY <2>2, <1>2, <1>5
    <3> QED
      BY <3>1, <2>3, <1>0, <1>1, <1>s, ReceiveStays DEF RadioParts
  <2>9. SendPart'
    BY <2>2, <2>3, <1>0, <1>1, <1>s, SendStays DEF RadioParts, C!Sending
  <2>10. LeftPart'
    BY <2>2, <1>1 DEF RadioParts, LeftPart
  <2> QED
    BY <2>3, <2>4, <2>7, <2>8, <2>9, <2>10 DEF RadioParts
<1> QED
  BY <1>7, <1>8

\* A byte leaves: it is the next of its packet, and with the last one the FIFO is empty.
LEMMA ByteOutKeeps ==
  ASSUME RadioParts, C!ByteOut
  PROVE  RadioParts'
<1>0. RadioShape /\ SendPart
  BY DEF RadioParts
<1>1. radio.st = "tx" /\ radio.in = C!None /\ UNCHANGED <<packets, spi, past>>
  BY <1>0 DEF C!ByteOut, RadioShape, Chips, Rows, SpiCalls
<1>s. PacketsGrow
  BY <1>0, <1>1 DEF PacketsGrow, RadioShape, Chips, Rows, SpiCalls
<1>2. C!Sending /\ spi.pc \notin Silent /\ spi.todo \in {<<>>, <<"quiet">>} /\ ~radio.torn
  BY <1>0, <1>1 DEF C!Sending, SendPart
<1>3. SUFFICES /\ RadioShape' /\ SendPart' /\ LeftPart'
               /\ radio'.rx = radio.rx /\ radio'.in = C!None /\ radio'.st # "idle"
  <2>1. StreamPart' /\ HeadPart'
    BY <1>1, StreamStays, <1>3 DEF RadioParts, HeadPart
  <2>2. TodoPart'
    BY <1>1 DEF RadioParts, TodoPart
  <2>3. ReceivePart'
    BY <1>0, <1>1, <1>s, <1>3, ReceiveStays DEF RadioParts, RadioShape, Chips, Rows, SpiCalls
  <2> QED
    BY <2>1, <2>2, <2>3, <1>3 DEF RadioParts
<1>4. CASE radio.tx = <<>>
  <2>1. radio' = C!Goes(radio, "txunder") /\ radio.out = C!None
    BY <1>0, <1>4 DEF C!ByteOut, SendPart
  <2>2. /\ radio'.rx = radio.rx /\ radio'.in = C!None /\ radio'.tx = radio.tx /\ radio'.out = C!None
        /\ radio'.torn = radio.torn /\ radio'.st = "txunder"
    BY <2>1, <1>0, <1>1 DEF C!Goes, RadioShape, Chips, Rows, SpiCalls
  <2>3. RadioShape'
    BY <2>1, <2>2, <1>0, <1>1 DEF C!Goes, RadioShape, Chips, Rows, SpiCalls, States, PacketBytes, C!None
  <2>4. SendPart'
    BY <2>1, <2>2, <2>3, <1>0, <1>1, <1>s, SendStays DEF C!Sending
  <2>5. LeftPart'
    BY <2>2, <1>4 DEF LeftPart
  <2> QED
    BY <2>2, <2>3, <2>4, <2>5
<1>5. CASE radio.tx # <<>>
  <2>1. PICK m \in Nat : m = Len(radio.tx) /\ m >= 1
    BY <1>0, <1>5 DEF RadioShape, Chips, Rows, SpiCalls
  <2>2. PICK p \in Nat, n \in Nat : radio.tx[1] = <<p, n>> /\ Head(radio.tx) = <<p, n>>
    <3>1. radio.tx \in Seq(PacketBytes)
      BY <1>0 DEF RadioShape, Chips, Rows, SpiCalls
    <3>2. radio.tx[1] \in PacketBytes /\ Head(radio.tx) = radio.tx[1]
      BY <3>1, <2>1, <1>5
    <3> QED
      BY <3>2 DEF PacketBytes
  <2>3. PICK l \in Nat : l = Len(packets)
    BY <1>0 DEF RadioShape, Chips, Rows, SpiCalls
  <2>4. /\ p \in 1 .. l /\ packets[p].len \in Nat /\ n + m = packets[p].len + 1
        /\ \A i \in 1 .. m : radio.tx[i] = <<p, n + i - 1>>
        /\ radio.out = C!None => n = 0
        /\ radio.out # C!None => radio.out = <<p, n>>
    <3>1. p \in 1 .. l /\ n + m = packets[p].len + 1
      BY <1>0, <1>5, <2>1, <2>2, <2>3 DEF SendPart, C!Length
    <3>2. packets[p].len \in Nat
      BY <3>1, <1>0, <2>3, LengthIs
    <3>3. \A i \in 1 .. m : radio.tx[i] = <<p, n + i - 1>>
      BY <1>0, <1>5, <2>1, <2>2 DEF SendPart
    <3>4. radio.out = C!None => n = 0
      BY <1>0, <1>5, <2>2 DEF SendPart
    <3>5. radio.out # C!None => radio.out = <<p, n>>
      BY <1>0, <2>2 DEF SendPart
    <3> QED
      BY <3>1, <3>2, <3>3, <3>4, <3>5
  <2>l. PICK len \in Nat : len = packets[p].len
    BY <2>4
  <2>5. /\ Len(Tail(radio.tx)) = m - 1 /\ Tail(radio.tx) \in Seq(PacketBytes)
        /\ \A i \in 1 .. (m - 1) : Tail(radio.tx)[i] = <<p, n + i>>
    <3>1. radio.tx \in Seq(PacketBytes)
      BY <1>0 DEF RadioShape, Chips, Rows, SpiCalls
    <3>2. /\ Len(Tail(radio.tx)) = m - 1 /\ Tail(radio.tx) \in Seq(PacketBytes)
          /\ \A i \in 1 .. (m - 1) : Tail(radio.tx)[i] = radio.tx[i + 1]
      BY <3>1, <2>1, <1>5
    <3>3. \A i \in 1 .. (m - 1) : i + 1 \in 1 .. m /\ n + (i + 1) - 1 = n + i
      OBVIOUS
    <3> QED
      BY <3>2, <3>3, <2>4
  <2>6. (radio.torn \/ ~(<<p, n>> = IF radio.out = C!None THEN <<p, 0>> ELSE radio.out)) = FALSE
    BY <2>4, <1>2
  <2> DEFINE
    torn == radio.torn \/ ~(<<p, n>> = IF radio.out = C!None THEN <<p, 0>> ELSE radio.out)
    c == [radio EXCEPT !.tx = Tail(@), !.torn = torn, !.out = C!None]
  <2>9. radio' = IF n = packets[p].len THEN C!Goes(c, "rx") ELSE [c EXCEPT !.out = <<p, n + 1>>]
    <3>1. <<p, n>>[1] = p /\ <<p, n>>[2] = n
      OBVIOUS
    <3> QED
      BY <3>1, <2>2, <1>5, Zenon DEF C!ByteOut, C!Length
  <2>10. c = [radio EXCEPT !.tx = Tail(@), !.torn = FALSE, !.out = C!None]
    BY <2>6
  <2> HIDE DEF c
  <2>7. CASE n = packets[p].len
    <3>1. radio' = C!Goes([radio EXCEPT !.tx = Tail(@), !.torn = FALSE, !.out = C!None], "rx")
      BY <2>7, <2>9, <2>10
    <3>a. m = 1
      BY <2>l, <2>4, <2>7
    <3>2. m = 1 /\ Tail(radio.tx) = <<>>
      <4>1. Len(Tail(radio.tx)) = 0 /\ Tail(radio.tx) \in Seq(PacketBytes)
        BY <3>a, <2>5
      <4> QED
        BY <4>1, <3>a, EmptyIs
    <3>3. /\ radio'.rx = radio.rx /\ radio'.in = C!None /\ radio'.tx = <<>> /\ radio'.out = C!None
          /\ radio'.torn = FALSE /\ radio'.st = "rx"
          /\ radio' \in Chips
      BY <3>1, <3>2, <2>5, <1>0 DEF C!Goes, RadioShape, Chips, Rows, SpiCalls, States, PacketBytes, C!None
    <3>4. RadioShape'
      BY <3>3, <1>0, <1>1 DEF RadioShape, Chips, Rows, SpiCalls
    <3>5. SendPart'
      BY <3>3, <1>0, <1>1, <1>2 DEF SendPart, C!Sending, Silent
    <3>6. LeftPart'
      BY <3>3 DEF LeftPart
    <3> QED
      BY <3>3, <3>4, <3>5, <3>6
  <2>8. CASE n # packets[p].len
    <3>1. radio' = [radio EXCEPT !.tx = Tail(@), !.torn = FALSE, !.out = <<p, n + 1>>]
      <4>1. radio' = [[radio EXCEPT !.tx = Tail(@), !.torn = FALSE, !.out = C!None] EXCEPT !.out = <<p, n + 1>>]
        BY <2>8, <2>9, <2>10
      <4> QED
        BY <4>1, <1>0 DEF RadioShape, Chips, Rows, SpiCalls
    <3>b. m >= 2 /\ 1 \in 1 .. (m - 1)
      BY <2>l, <2>1, <2>4, <2>8
    <3>2. m >= 2 /\ Tail(radio.tx) # <<>> /\ Tail(radio.tx)[1] = <<p, n + 1>> /\ <<p, n + 1>> # C!None
      <4>1. Tail(radio.tx)[1] = <<p, n + 1>>
        BY <3>b, <2>5
      <4>2. Tail(radio.tx) # <<>>
        <5>1. Len(Tail(radio.tx)) # 0
          BY <3>b, <2>5
        <5> QED
          BY <5>1, <2>5, EmptyIs
      <4>3. n + 1 # 0
        OBVIOUS
      <4> QED
        BY <4>1, <4>2, <4>3, <3>b DEF C!None
    <3>a. <<p, n + 1>> \in PacketBytes
      BY DEF PacketBytes
    <3>3. /\ radio'.rx = radio.rx /\ radio'.in = C!None /\ radio'.tx = Tail(radio.tx)
          /\ radio'.out = <<p, n + 1>>
          /\ radio'.torn = FALSE /\ radio'.st = "tx"
          /\ radio' \in Chips
      BY <3>1, <3>a, <2>5, <1>0, <1>1 DEF RadioShape, Chips, Rows, SpiCalls
    <3>4. RadioShape'
      BY <3>3, <1>0, <1>1 DEF RadioShape, Chips, Rows, SpiCalls
    <3>5. SendPart'
      <4>1. /\ radio'.tx # <<>> /\ radio'.tx[1] = <<p, n + 1>> /\ Len(radio'.tx) = m - 1
            /\ DOMAIN radio'.tx = 1 .. (m - 1)
        BY <3>2, <3>3, <2>5
      <4>2. (n + 1) + (m - 1) = packets[p].len + 1
        BY <2>4
      <4>3. \A i \in 1 .. (m - 1) : radio'.tx[i] = <<p, (n + 1) + i - 1>>
        <5>1. \A i \in 1 .. (m - 1) : (n + 1) + i - 1 = n + i
          OBVIOUS
        <5> QED
          BY <5>1, <2>5, <3>3
      <4>4. radio'.tx[1][1] = p /\ radio'.tx[1][2] = n + 1
        BY <4>1
      <4>5. C!Length(radio.tx[1])' = packets[p].len
        BY <4>4, <1>1 DEF C!Length
      <4>6. radio'.tx[1][1] \in 1 .. Len(packets')
        BY <4>4, <1>1, <2>3, <2>4
      <4> QED
        <5>1. ~radio.torn' /\ (spi.pc \in Silent => ~C!Sending)'
          BY <3>3, <1>1, <1>2
        <5>2. (spi.todo # <<>> /\ spi.todo # <<"quiet">> => ~C!Sending)'
          BY <1>1, <1>2
        <5>3. (radio.out # C!None => radio.tx # <<>> /\ radio.tx[1] = radio.out)'
          BY <3>3, <4>1
        <5>4. radio'.out # C!None
          BY <3>2, <3>3
        <5>5. radio.tx[1][2]' + Len(radio.tx)' = C!Length(radio.tx[1])' + 1
          BY <4>1, <4>2, <4>4, <4>5
        <5>6. \A i \in DOMAIN radio'.tx : radio'.tx[i] = <<radio'.tx[1][1], radio'.tx[1][2] + i - 1>>
          BY <4>1, <4>3, <4>4
        <5>7. spi'.pc # "load"
          BY <1>1, <1>2 DEF Silent
        <5> QED
          BY <5>1, <5>2, <5>3, <5>4, <5>5, <5>6, <5>7, <4>6 DEF SendPart
    <3>6. LeftPart'
      BY <3>3 DEF LeftPart
    <3> QED
      BY <3>3, <3>4, <3>5, <3>6
  <2> QED
    BY <2>7, <2>8
<1> QED
  BY <1>4, <1>5

\* What is left of the stream when the chip drops what comes in, or all of it.
LEMMA StreamCut ==
  ASSUME StreamPart, RadioShape, RadioShape', packets' = packets,
         Stream' = Stream \/ Stream' = radio.rx \/ Stream' = <<>>
  PROVE  StreamPart' /\ (Stream' # <<>> => Stream # <<>> /\ Stream'[1] = Stream[1])
<1>1. /\ Stream \in Seq(PacketBytes) /\ radio.rx \in Seq(PacketBytes) /\ Stream' \in Seq(PacketBytes)
      /\ Len(radio.rx) <= Len(Stream) /\ \A i \in DOMAIN radio.rx : Stream[i] = radio.rx[i]
  <2>1. radio.rx \in Seq(PacketBytes) /\ radio.rx' \in Seq(PacketBytes) /\ radio.in' \in PacketBytes
    BY DEF RadioShape, Chips
  <2>2. Stream' \in Seq(PacketBytes)
    BY <2>1 DEF Stream
  <2> QED
    BY <2>1, <2>2, StreamIs
<1>2. PICK m \in Nat, n \in Nat : m = Len(Stream) /\ n = Len(Stream')
  BY <1>1
<1>3. n <= m /\ \A i \in 1 .. n : Stream'[i] = Stream[i]
  <2>1. CASE Stream' = Stream
    BY <2>1, <1>2
  <2>2. CASE Stream' = radio.rx
    BY <2>2, <1>1, <1>2
  <2>3. CASE Stream' = <<>>
    BY <2>3, <1>1, <1>2
  <2> QED
    BY <2>1, <2>2, <2>3
<1>4. StreamPart'
  <2>1. PacketsGrow
    BY DEF PacketsGrow, RadioShape
  <2>2. Len(Stream') + 0 <= Len(Stream) /\ \A i \in 1 .. Len(Stream') : Stream'[i] = Stream[i + 0]
    BY <1>2, <1>3
  <2> QED
    BY <2>1, <2>2, StreamKept
<1>5. ASSUME Stream' # <<>> PROVE Stream # <<>> /\ Stream'[1] = Stream[1]
  <2>1. n # 0
    BY <1>5, <1>1, <1>2, EmptyIs
  <2>2. 1 \in 1 .. n /\ m # 0
    BY <2>1, <1>3
  <2> QED
    BY <2>2, <1>1, <1>2, <1>3, EmptyIs
<1> QED
  BY <1>4, <1>5

\* A step of a call that leaves the chip alone and is not one of receiving.
LEMMA CallKeeps ==
  ASSUME RadioParts, UNCHANGED <<radio, packets>>, spi' \in SpiCalls, spi'.name # "receive",
         spi.pc \notin {"body", "status"},
         spi'.pc \notin {"load", "receive", "length", "body", "status"},
         spi'.pc \in Silent => ~C!Sending,
         spi'.todo # <<>> /\ spi'.todo # <<"quiet">> => ~C!Sending,
         TodoPart', LeftPart'
  PROVE  RadioParts'
<1>1. RadioShape'
  BY DEF RadioParts, RadioShape
<1>2. StreamPart' /\ HeadPart'
  <2>1. Stream' = Stream /\ StreamPart'
    BY StreamStays DEF RadioParts
  <2> QED
    BY <2>1 DEF RadioParts, HeadPart
<1>3. ReceivePart'
  BY DEF ReceivePart, AskedPart, BodyPart, StatusPart, AnswerPart, RefusedPart
<1>4. SendPart'
  <2>1. C!Sending' <=> C!Sending
    BY DEF C!Sending
  <2>2. spi'.pc # "load"
    OBVIOUS
  <2>3. SendPart
    BY DEF RadioParts
  <2> QED
    BY <2>1, <2>2, <2>3 DEF SendPart, C!Length
<1> QED
  BY <1>1, <1>2, <1>3, <1>4 DEF RadioParts

\* What a call may have to tell when it starts.
Beginnings ==
  {<<>>, <<"quiet">>, <<"state_rx">>, <<"state_idle", "quiet">>, <<"state_idle", "flush_rx">>,
   <<"state_idle", "flush_tx">>}

LEMMA BeginningsAre == Beginnings \subseteq Todos
  BY DEF Beginnings, Todos, Commands

LEMMA CallStartKeeps ==
  ASSUME RadioParts, NEW name \in Names,
         NEW pc \in {"return", "rx?", "fstxon?", "rx_bytes", "tx?"},
         NEW orders \in Beginnings, NEW odd, C!Start(name, pc, orders, odd), name # "receive",
         PastShape,
         pc \in Silent => orders = <<>> /\ ~C!Sending,
         orders \notin {<<>>, <<"quiet">>} => ~C!Sending
  PROVE  RadioParts'
<1> USE DEF PastShape
<1>1. /\ spi.pc = "idle" /\ UNCHANGED <<radio, packets>> /\ past'.left = past.left
      /\ spi' = [pc |-> pc, name |-> name, todo |-> orders, size |-> 0, ret |-> 0,
                 status |-> 0, over |-> FALSE, buffer |-> <<>>, appended |-> <<>>]
  BY DEF C!Start, C!NoCall
<1>2. orders \in Todos /\ pc \in Places
  BY BeginningsAre DEF Places
<1>3. <<>> \in Seq(PacketBytes)
  OBVIOUS
<1>4. spi' \in SpiCalls /\ spi'.pc = pc /\ spi'.name = name /\ spi'.todo = orders
  BY <1>1, <1>2, <1>3 DEF SpiCalls
<1>5. TodoPart'
  <2>2. orders \notin {<<"flush_rx">>, <<"flush_tx">>}
    BY DEF Beginnings
  <2> QED
    BY <2>2, <1>4 DEF TodoPart
<1>6. LeftPart'
  BY <1>1 DEF RadioParts, LeftPart
<1> QED
  BY <1>1, <1>4, <1>5, <1>6, CallKeeps

\* A call that is not odd was made at a time rf.c would.
LEMMA StartIs ==
  ASSUME PastShape, NEW name, NEW pc, NEW orders,
         NEW odd \in BOOLEAN, C!Start(name, pc, orders, odd), ~past'.odd
  PROVE  ~odd /\ ~past.odd
  BY DEF C!Start, PastShape

\* The calls but those that send and receive a packet.
LEMMA PlainCallsKeep ==
  ASSUME RadioParts, PastShape, ~past'.odd,
         \/ C!cc1101_reset \/ C!cc1101_init \/ C!Flush \/ C!cc1101_send_calibration_request
         \/ C!cc1101_power_down \/ C!cc1101_config \/ C!cc1101_set_patable \/ C!cc1101_enter_rx_mode
         \/ C!cc1101_enter_fstxon_state \/ C!cc1101_rx_fifo_state \/ C!cc1101_tx_fifo_state
  PROVE  RadioParts'
<1>1. C!Sending \in BOOLEAN /\ C!Underway \in BOOLEAN
  BY DEF C!Sending, C!Underway
<1>2. C!Sending => C!Underway
  BY DEF C!Underway
<1>3. /\ "return" \notin Silent /\ "rx_bytes" \notin Silent
      /\ <<>> \in Beginnings /\ <<"quiet">> \in Beginnings /\ <<"state_rx">> \in Beginnings
      /\ <<"state_idle", "quiet">> \in Beginnings
      /\ C!cc1101_flush_rx_fifo \in Beginnings /\ C!cc1101_flush_tx_fifo \in Beginnings
  BY DEF Silent, Beginnings, C!cc1101_flush_rx_fifo, C!cc1101_flush_tx_fifo
<1>4. ~(C!cc1101_reset \/ C!cc1101_init \/ C!cc1101_power_down)
  <2>1. ASSUME NEW name, NEW pc, NEW orders PROVE ~C!Start(name, pc, orders, TRUE)
    BY StartIs
  <2> QED
    BY <2>1 DEF C!cc1101_reset, C!cc1101_init, C!cc1101_power_down
<1>5. ASSUME C!Flush PROVE RadioParts'
  <2>1. PICK f \in {C!cc1101_flush_rx_fifo, C!cc1101_flush_tx_fifo} : C!Start("flush", "return", f, C!Underway)
    BY <1>5 DEF C!Flush
  <2>2. ~C!Sending
    BY <2>1, <1>1, <1>2, StartIs
  <2>3. f \in Beginnings
    BY <1>3
  <2> QED
    BY <2>1, <2>2, <2>3, <1>3, CallStartKeeps DEF Names
<1>6. ASSUME C!cc1101_send_calibration_request PROVE RadioParts'
  <2>1. C!Start("calibrate", "return", <<"quiet">>, FALSE)
    BY <1>6 DEF C!cc1101_send_calibration_request
  <2> QED
    BY <2>1, <1>3, CallStartKeeps DEF Names
<1>7. ASSUME C!cc1101_config PROVE RadioParts'
  <2>1. C!Start("config", "return", <<"state_idle", "quiet">>, C!Underway)
    BY <1>7 DEF C!cc1101_config
  <2>2. ~C!Sending
    BY <2>1, <1>1, <1>2, StartIs
  <2> QED
    BY <2>1, <2>2, <1>3, CallStartKeeps DEF Names
<1>8. ASSUME C!cc1101_set_patable PROVE RadioParts'
  <2>1. C!Start("set_patable", "return", <<"quiet">>, FALSE)
    BY <1>8 DEF C!cc1101_set_patable
  <2> QED
    BY <2>1, <1>3, CallStartKeeps DEF Names
<1>9. ASSUME C!cc1101_enter_rx_mode PROVE RadioParts'
  <2>1. C!Start("enter_rx", "rx?", <<>>, C!Sending)
    BY <1>9 DEF C!cc1101_enter_rx_mode
  <2>2. ~C!Sending
    BY <2>1, <1>1, StartIs
  <2> QED
    BY <2>1, <2>2, <1>3, CallStartKeeps DEF Names
<1>10. ASSUME C!cc1101_enter_fstxon_state PROVE RadioParts'
  <2>1. C!Start("enter_fstxon", "fstxon?", <<>>, C!Underway)
    BY <1>10 DEF C!cc1101_enter_fstxon_state
  <2>2. ~C!Sending
    BY <2>1, <1>1, <1>2, StartIs
  <2> QED
    BY <2>1, <2>2, <1>3, CallStartKeeps DEF Names
<1>11. ASSUME C!cc1101_rx_fifo_state PROVE RadioParts'
  <2>1. C!Start("rx_fifo_state", "rx_bytes", <<"state_rx">>, C!Sending)
    BY <1>11 DEF C!cc1101_rx_fifo_state
  <2>2. ~C!Sending
    BY <2>1, <1>1, StartIs
  <2> QED
    BY <2>1, <2>2, <1>3, CallStartKeeps DEF Names
<1>12. ASSUME C!cc1101_tx_fifo_state PROVE RadioParts'
  <2>1. C!Start("tx_fifo_state", "tx?", <<>>, C!Underway)
    BY <1>12 DEF C!cc1101_tx_fifo_state
  <2>2. ~C!Sending
    BY <2>1, <1>1, <1>2, StartIs
  <2> QED
    BY <2>1, <2>2, <1>3, CallStartKeeps DEF Names
<1> QED
  BY <1>4, <1>5, <1>6, <1>7, <1>8, <1>9, <1>10, <1>11, <1>12

\* A packet to send is handed over.
LEMMA SendPacketKeeps ==
  ASSUME RadioParts, PastShape, ~past'.odd,
         C!cc1101_send_packet
  PROVE  RadioParts'
<1> USE DEF PastShape
<1>0. RadioShape /\ SendPart
  BY DEF RadioParts
<1>1. PICK len \in PacketLengths :
        /\ packets' = Append(packets, [len |-> len, ok |-> TRUE])
        /\ spi' = [C!NoCall EXCEPT !.pc = "load", !.name = "send", !.size = len + 1,
                     !.buffer = [i \in 1 .. (len + 1) |-> <<Len(packets) + 1, i - 1>>]]
  BY DEF C!cc1101_send_packet
<1>2. spi.pc = "idle" /\ radio' = radio /\ ~C!Sending /\ radio.tx = <<>> /\ radio.out = C!None
  <2>1. /\ spi.pc = "idle" /\ radio' = radio
        /\ past' = [past EXCEPT !.calls = @ + 1, !.odd = @ \/ C!Underway \/ radio.tx # <<>>]
    BY DEF C!cc1101_send_packet
  <2>2. ~C!Underway /\ radio.tx = <<>>
    BY <2>1 DEF C!Underway
  <2> QED
    BY <2>1, <2>2, <1>0 DEF C!Underway, SendPart
<1>3. PICK n \in Nat : n = Len(packets)
  BY <1>0 DEF RadioShape
<1>4. len \in Nat
  BY RadioAssumed
<1> DEFINE row == [len |-> len, ok |-> TRUE]
           bytes == [i \in 1 .. (len + 1) |-> <<n + 1, i - 1>>]
<1>5. row \in Rows /\ packets' = Append(packets, row)
  BY <1>1 DEF Rows
<1> HIDE DEF row
<1>6. /\ packets' \in Seq(Rows) /\ Len(packets') = n + 1
      /\ \A p \in 1 .. n : packets'[p] = packets[p]
      /\ packets'[n + 1] = row
  BY <1>0, <1>3, <1>5, OneMore
<1>s. PacketsGrow
  BY <1>3, <1>6 DEF PacketsGrow
<1>7. bytes \in Seq(PacketBytes)
  <2>1. \A i \in 1 .. (len + 1) : i - 1 \in Nat
    OBVIOUS
  <2>2. \A i \in 1 .. (len + 1) : <<n + 1, i - 1>> \in PacketBytes
    BY <2>1, <1>3 DEF PacketBytes
  <2> QED
    <3>1. \A n1 \in Nat : \A t \in [1 .. n1 -> PacketBytes] : t \in Seq(PacketBytes)
      OBVIOUS
    <3>2. len + 1 \in Nat /\ bytes \in [1 .. (len + 1) -> PacketBytes]
      BY <2>2, <1>4
    <3> HIDE DEF bytes
    <3> QED
      BY <3>1, <3>2
<1> HIDE DEF bytes
<1>8. /\ spi' = [pc |-> "load", name |-> "send", todo |-> <<>>, size |-> len + 1, ret |-> 0,
                 status |-> 0, over |-> FALSE, buffer |-> bytes, appended |-> <<>>]
  BY <1>1, <1>3 DEF C!NoCall, bytes
<1>9. /\ spi' \in SpiCalls /\ spi'.pc = "load" /\ spi'.name = "send" /\ spi'.todo = <<>>
      /\ spi'.size = len + 1 /\ spi'.buffer = bytes
  <2>1. <<>> \in Seq(PacketBytes) /\ <<>> \in Todos /\ "load" \in Places /\ "send" \in Names
    BY DEF Todos, Places, Names
  <2> QED
    BY <2>1, <1>4, <1>7, <1>8 DEF SpiCalls
<1>10. RadioShape'
  BY <1>0, <1>2, <1>6, <1>9 DEF RadioShape
<1>11. Stream' = Stream /\ StreamPart'
  <2>1. Stream' = Stream
    BY <1>2 DEF Stream
  <2>2. PICK m \in Nat : m = Len(Stream)
    BY <1>0, StreamIs
  <2>3. Len(Stream') + 0 <= Len(Stream) /\ \A i \in 1 .. Len(Stream') : Stream'[i] = Stream[i + 0]
    BY <2>1, <2>2
  <2> QED
    BY <2>1, <2>3, <1>0, <1>10, <1>s, StreamKept DEF RadioParts
<1>12. HeadPart'
  BY <1>2, <1>11 DEF RadioParts, HeadPart
<1>13. TodoPart'
  BY <1>9 DEF TodoPart
<1>14. ReceivePart'
  BY <1>9 DEF ReceivePart, AskedPart, BodyPart, StatusPart, AnswerPart, RefusedPart
<1>15. SendPart'
  <2>1. /\ radio'.tx = <<>> /\ radio'.out = C!None /\ ~radio'.torn /\ ~C!Sending'
    BY <1>0, <1>2 DEF SendPart, C!Sending
  <2>2. n + 1 \in 1 .. Len(packets') /\ packets'[n + 1].len = len
    BY <1>3, <1>6 DEF row
  <2>3. spi'.size = packets'[n + 1].len + 1
        /\ spi'.buffer = [i \in 1 .. (packets'[n + 1].len + 1) |-> <<n + 1, i - 1>>]
    BY <2>2, <1>9 DEF bytes
  <2> QED
    BY <2>1, <2>2, <2>3, <1>9 DEF SendPart
<1>16. LeftPart'
  BY <1>2 DEF LeftPart
<1> QED
  BY <1>10, <1>11, <1>12, <1>13, <1>14, <1>15, <1>16 DEF RadioParts

\* A whole packet at the head of the FIFO is there byte by byte.
LEMMA CompleteIs ==
  ASSUME RadioShape, StreamPart, C!Complete
  PROVE  \E p \in 1 .. Len(packets) : Starts(radio.rx, packets, p, 0)
<1>1. PICK h \in DOMAIN radio.rx :
        radio.rx[1][2] = 0 /\ radio.rx[h] = <<radio.rx[1][1], C!Length(radio.rx[1]) + 2>>
  BY DEF C!Complete
<1>2. PICK m \in Nat : m = Len(radio.rx) /\ DOMAIN radio.rx = 1 .. m
  BY DEF RadioShape, Chips
<1>3. h \in 1 .. m /\ 1 \in 1 .. m
  BY <1>1, <1>2
<1>4. /\ \A i \in 1 .. m : i \in DOMAIN Stream /\ Stream[i] = radio.rx[i] /\ radio.rx[i] \in PacketBytes
  BY <1>2, StreamIs DEF RadioShape, Chips
<1>5. PICK p \in Nat : radio.rx[1] = <<p, 0>>
  BY <1>1, <1>3, <1>4 DEF PacketBytes
<1>6. p \in 1 .. Len(packets)
  <2>1. OnAir(radio.rx[1])
    BY <1>3, <1>4 DEF StreamPart
  <2> QED
    BY <2>1, <1>5 DEF OnAir
<1>7. PICK l \in Nat : l = packets[p].len
  BY <1>6, LengthIs
<1>8. radio.rx[h] = <<p, l + 2>>
  BY <1>1, <1>5, <1>7 DEF C!Length
<1>9. h = l + 3
  <2>1. h # 1
    BY <1>5, <1>7, <1>8
  <2>2. Ordered(Stream[1], Stream[h], h - 1)
    BY <2>1, <1>3, <1>4 DEF StreamPart
  <2>3. Ordered(<<p, 0>>, <<p, l + 2>>, h - 1)
    BY <2>2, <1>3, <1>4, <1>5, <1>8
  <2> QED
    BY <2>3, <1>3 DEF Ordered
<1>10. \A k \in 1 .. h : radio.rx[k] = <<p, k - 1>>
  <2>1. SUFFICES ASSUME NEW k \in 1 .. h PROVE radio.rx[k] = <<p, k - 1>>
    OBVIOUS
  <2>2. CASE k = 1
    BY <2>2, <1>5
  <2>3. CASE k = h
    BY <2>3, <1>8, <1>9
  <2>4. CASE k # 1 /\ k # h
    <3>1. k \in 1 .. m /\ 1 < k /\ k < h
      BY <2>1, <2>4, <1>3
    <3>2. PICK x \in Nat, y \in Nat : radio.rx[k] = <<x, y>>
      BY <3>1, <1>4 DEF PacketBytes
    <3>3. Ordered(<<p, 0>>, <<x, y>>, k - 1)
      <4>1. Ordered(Stream[1], Stream[k], k - 1)
        BY <3>1, <1>3, <1>4 DEF StreamPart
      <4> QED
        BY <4>1, <3>1, <3>2, <1>3, <1>4, <1>5
    <3>4. Ordered(<<x, y>>, <<p, l + 2>>, h - k)
      <4>1. Ordered(Stream[k], Stream[h], h - k)
        BY <3>1, <1>3, <1>4 DEF StreamPart
      <4> QED
        BY <4>1, <3>1, <3>2, <1>3, <1>4, <1>8
    <3> QED
      BY <3>1, <3>2, <3>3, <3>4 DEF Ordered
  <2> QED
    BY <2>2, <2>3, <2>4
<1>11. Starts(radio.rx, packets, p, 0)
  BY <1>2, <1>3, <1>6, <1>7, <1>9, <1>10 DEF Starts
<1> QED
  BY <1>6, <1>11

\* The head of the FIFO is asked for.
LEMMA ReceivePacketKeeps ==
  ASSUME RadioParts, PastShape, ~past'.odd,
         C!cc1101_receive_packet
  PROVE  RadioParts'
<1> USE DEF PastShape
<1>0. RadioShape /\ SendPart
  BY DEF RadioParts
<1>1. PICK size \in {2, CC1101_FIFO_SIZE} :
        /\ spi' = [C!NoCall EXCEPT !.pc = "receive", !.name = "receive", !.size = size]
        /\ past' = [past EXCEPT !.calls = @ + 1, !.odd = @ \/ size = 2 \/ ~C!Complete \/ C!Sending]
  BY DEF C!cc1101_receive_packet
<1>2. spi.pc = "idle" /\ UNCHANGED <<radio, packets>>
  BY DEF C!cc1101_receive_packet
<1>3. size = CC1101_FIFO_SIZE /\ C!Complete /\ ~C!Sending
  <2>1. ~(past.odd \/ size = 2 \/ ~C!Complete \/ C!Sending)
    BY <1>1
  <2> QED
    BY <2>1
<1>4. spi' = [pc |-> "receive", name |-> "receive", todo |-> <<>>, size |-> CC1101_FIFO_SIZE, ret |-> 0,
              status |-> 0, over |-> FALSE, buffer |-> <<>>, appended |-> <<>>]
  BY <1>1, <1>3 DEF C!NoCall
<1>5. /\ spi' \in SpiCalls /\ spi'.pc = "receive" /\ spi'.name = "receive" /\ spi'.todo = <<>>
      /\ spi'.size = CC1101_FIFO_SIZE
  <2>1. <<>> \in Seq(PacketBytes) /\ <<>> \in Todos /\ "receive" \in Places /\ "receive" \in Names
    BY DEF Todos, Places, Names
  <2>2. CC1101_FIFO_SIZE \in Nat
    BY RadioAssumed
  <2> QED
    BY <2>1, <2>2, <1>4 DEF SpiCalls
<1>6. RadioShape'
  BY <1>0, <1>2, <1>5 DEF RadioShape
<1>7. StreamPart' /\ HeadPart'
  BY <1>2, <1>5, StreamStays DEF RadioParts, HeadPart
<1>8. TodoPart'
  BY <1>5 DEF TodoPart
<1>9. ReceivePart'
  <2>1. \E p \in 1 .. Len(packets) : Starts(radio.rx, packets, p, 0)
    BY <1>0, <1>3, CompleteIs DEF RadioParts
  <2>2. AskedPart'
    BY <2>1, <1>2, <1>5 DEF AskedPart
  <2> QED
    BY <2>2, <1>5 DEF ReceivePart, BodyPart, StatusPart, AnswerPart, RefusedPart
<1>10. SendPart'
  <2>1. C!Sending' <=> C!Sending
    BY <1>2 DEF C!Sending
  <2> QED
    BY <2>1, <1>0, <1>2, <1>3, <1>5 DEF SendPart, C!Length
<1>11. LeftPart'
  BY <1>1, <1>2 DEF RadioParts, LeftPart
<1> QED
  BY <1>6, <1>7, <1>8, <1>9, <1>10, <1>11 DEF RadioParts

LEMMA SpiMoves ==
  ASSUME spi \in SpiCalls, NEW pc \in Places, NEW orders \in Todos, NEW ret \in Int,
         spi' = [spi EXCEPT !.pc = pc, !.todo = orders, !.ret = ret]
  PROVE  spi' \in SpiCalls /\ spi'.pc = pc /\ spi'.todo = orders /\ spi'.name = spi.name
  BY DEF SpiCalls

LEMMA SameSeq ==
  ASSUME NEW D, NEW q \in Seq(D), NEW r \in Seq(D), Len(q) = Len(r), \A i \in 1 .. Len(q) : q[i] = r[i]
  PROVE q = r
  OBVIOUS

LEMMA Joined ==
  ASSUME NEW s
  PROVE  <<>> \o <<s>> = <<s>> /\ <<"state_idle">> \o <<s>> = <<"state_idle", s>>
<1> DEFINE D == {s, "state_idle"}
<1>1. <<>> \in Seq(D) /\ <<s>> \in Seq(D) /\ <<"state_idle">> \in Seq(D) /\ <<"state_idle", s>> \in Seq(D)
  OBVIOUS
<1>2. <<>> \o <<s>> = <<s>>
  BY <1>1
<1>3. <<"state_idle">> \o <<s>> \in Seq(D) /\ Len(<<"state_idle">> \o <<s>>) = 2
  BY <1>1
<1>4. \A i \in 1 .. 2 : (<<"state_idle">> \o <<s>>)[i] = <<"state_idle", s>>[i]
  <2>1. (<<"state_idle">> \o <<s>>)[1] = "state_idle"
    BY <1>1
  <2>2. (<<"state_idle">> \o <<s>>)[2] = s
    BY <1>1
  <2> QED
    BY <2>1, <2>2
<1>5. <<"state_idle">> \o <<s>> = <<"state_idle", s>>
  <2>1. Len(<<"state_idle", s>>) = 2
    OBVIOUS
  <2> HIDE DEF D
  <2> QED
    BY <2>1, <1>1, <1>3, <1>4, SameSeq
<1> QED
  BY <1>2, <1>5

\* The places whose steps say nothing of a packet received.
LEMMA NotReceiving ==
  ASSUME RadioParts, spi.pc \in {"rx?", "fstxon?", "tx?", "poll", "tx_bytes", "rx_bytes", "load"}
  PROVE  spi.name # "receive"
  BY DEF RadioParts, TodoPart

LEMMA AskRxKeeps ==
  ASSUME RadioParts, C!AskRx \/ C!AskFstxon \/ C!cc1101_enter_tx_mode
  PROVE  RadioParts'
<1>0. RadioShape /\ SendPart /\ LeftPart
  BY DEF RadioParts
<1>1. /\ spi.pc \in {"rx?", "fstxon?", "tx?"} /\ UNCHANGED <<radio, packets, past>>
      /\ spi.name # "receive" /\ ~C!Sending /\ radio.st # "tx"
  <2>1. spi.pc \in {"rx?", "fstxon?", "tx?"} /\ UNCHANGED <<radio, packets, past>>
    BY DEF C!AskRx, C!AskFstxon, C!cc1101_enter_tx_mode, C!At, C!ChipStays
  <2> QED
    BY <2>1, <1>0, NotReceiving DEF SendPart, Silent, C!Sending
<1>2. PICK pc \in {"return", "poll"},
           orders \in {<<>>, <<"state_rx">>, <<"state_idle", "state_rx">>, <<"start_freq_synth">>,
                     <<"state_idle", "start_freq_synth">>, <<"state_tx">>, <<"state_idle", "state_tx">>} :
        /\ spi' = [spi EXCEPT !.pc = pc, !.todo = orders, !.ret = 0]
        /\ spi.pc = "tx?" => pc = "poll"
  <2>1. CASE C!AskRx
    BY <2>1, Joined DEF C!AskRx, C!At, C!Then, C!IdleUnless
  <2>2. CASE C!AskFstxon
    BY <2>2, Joined DEF C!AskFstxon, C!At, C!Then, C!IdleUnless
  <2>3. CASE C!cc1101_enter_tx_mode
    BY <2>3, Joined DEF C!cc1101_enter_tx_mode, C!At, C!Then, C!IdleUnless, C!ToTx
  <2> QED
    BY <2>1, <2>2, <2>3
<1>3. pc \in Places /\ orders \in Todos /\ 0 \in Int
  BY DEF Places, Todos, Commands
<1>4. spi' \in SpiCalls /\ spi'.pc = pc /\ spi'.todo = orders /\ spi'.name = spi.name
  BY <1>0, <1>2, <1>3, SpiMoves DEF RadioShape
<1>5. TodoPart'
  <2>1. orders \notin {<<"flush_rx">>, <<"flush_tx">>} /\ pc \notin Silent \cup {"idle", "tx_bytes"}
    BY DEF Silent
  <2> QED
    BY <2>1, <1>1, <1>4 DEF TodoPart
<1>6. LeftPart'
  BY <1>0, <1>1, <1>2, <1>4 DEF LeftPart
<1> QED
  BY <1>1, <1>4, <1>5, <1>6, CallKeeps DEF Silent

LEMMA PollKeeps ==
  ASSUME RadioParts, PastShape, C!Poll
  PROVE  RadioParts'
<1> USE DEF PastShape
<1>0. RadioShape /\ SendPart /\ LeftPart /\ TodoPart
  BY DEF RadioParts
<1>1. spi.pc = "poll" /\ spi.todo = <<>> /\ UNCHANGED <<radio, packets>> /\ spi.name # "receive"
  BY <1>0, NotReceiving DEF C!Poll, C!At
<1>2. /\ <<>> \in Todos /\ C!cc1101_flush_rx_fifo \in Todos /\ C!cc1101_flush_tx_fifo \in Todos
      /\ "return" \in Places /\ "tx_bytes" \in Places /\ -112 \in Int /\ -96 \in Int
  BY DEF Todos, Places, Commands, C!cc1101_flush_rx_fifo, C!cc1101_flush_tx_fifo
<1>3. /\ C!cc1101_flush_rx_fifo = <<"state_idle", "flush_rx">>
      /\ C!cc1101_flush_tx_fifo = <<"state_idle", "flush_tx">>
  BY DEF C!cc1101_flush_rx_fifo, C!cc1101_flush_tx_fifo
<1>4. CASE radio.st = "txunder"
  <2>1. spi' = [spi EXCEPT !.pc = "return", !.todo = C!cc1101_flush_tx_fifo, !.ret = -112] /\ past' = past
    BY <1>4 DEF C!Poll, C!Then
  <2>2. /\ spi' \in SpiCalls /\ spi'.pc = "return" /\ spi'.todo = C!cc1101_flush_tx_fifo
        /\ spi'.name = spi.name
    BY <2>1, <1>0, <1>2 DEF RadioShape, SpiCalls
  <2>3. TodoPart'
    BY <2>2, <1>0, <1>1, <1>3 DEF TodoPart, Silent
  <2>4. LeftPart'
    BY <2>2 DEF LeftPart
  <2>5. ~C!Sending
    BY <1>4 DEF C!Sending
  <2> QED
    BY <2>2, <2>3, <2>4, <2>5, <1>1, CallKeeps DEF Silent
<1>5. CASE radio.st = "rxover"
  <2>1. /\ spi' = [spi EXCEPT !.pc = "return", !.todo = C!cc1101_flush_rx_fifo, !.ret = -96]
        /\ past' = [past EXCEPT !.left = IF radio.tx = <<>> THEN @ ELSE radio.tx[1][1]]
    BY <1>5 DEF C!Poll, C!Then
  <2>2. /\ spi' \in SpiCalls /\ spi'.pc = "return" /\ spi'.todo = C!cc1101_flush_rx_fifo
        /\ spi'.name = spi.name
    BY <2>1, <1>0, <1>2 DEF RadioShape, SpiCalls
  <2>3. TodoPart'
    BY <2>2, <1>0, <1>1, <1>3 DEF TodoPart, Silent
  <2>4. LeftPart'
    <3>1. radio.tx # <<>> => past'.left = radio.tx[1][1]
      BY <2>1
    <3> QED
      BY <3>1, <1>1 DEF LeftPart
  <2>5. ~C!Sending
    BY <1>5 DEF C!Sending
  <2> QED
    BY <2>2, <2>3, <2>4, <2>5, <1>1, CallKeeps DEF Silent
<1>6. CASE radio.st = "tx"
  <2>1. PICK pc \in {"return", "tx_bytes"} : spi' = [spi EXCEPT !.pc = pc, !.todo = <<>>, !.ret = spi.size]
    BY <1>6 DEF C!Poll, C!Then
  <2>2. spi' \in SpiCalls /\ spi'.pc = pc /\ spi'.todo = <<>> /\ spi'.name = spi.name
    <3>1. pc \in Places /\ spi.size \in Int
      BY <1>0, <1>2 DEF RadioShape, SpiCalls
    <3> QED
      BY <3>1, <2>1, <1>0, <1>2, SpiMoves DEF RadioShape
  <2>3. TodoPart'
    BY <2>2, <1>1 DEF TodoPart
  <2>4. LeftPart'
    BY <1>1, <1>6 DEF LeftPart
  <2> QED
    BY <2>2, <2>3, <2>4, <1>1, CallKeeps DEF Silent
<1>7. CASE radio.st \notin {"txunder", "rxover", "tx"}
  <2>1. UNCHANGED <<spi, past>>
    BY <1>7 DEF C!Poll
  <2>2. spi' \in SpiCalls /\ spi'.pc = "poll" /\ spi'.todo = <<>> /\ spi'.name = spi.name
    BY <2>1, <1>0, <1>1 DEF RadioShape
  <2>3. TodoPart'
    BY <2>1, <1>0, <1>1 DEF TodoPart
  <2>4. LeftPart'
    BY <2>1, <1>0, <1>1 DEF LeftPart
  <2> QED
    BY <2>2, <2>3, <2>4, <1>1, CallKeeps DEF Silent
<1> QED
  BY <1>4, <1>5, <1>6, <1>7

\* The calls that count the bytes of a FIFO.
LEMMA BytesKeep ==
  ASSUME RadioParts, C!TxBytes \/ C!RxBytes
  PROVE  RadioParts'
<1>0. RadioShape /\ SendPart /\ LeftPart
  BY DEF RadioParts
<1>1. /\ spi.pc \in {"tx_bytes", "rx_bytes"} /\ UNCHANGED <<radio, packets, past>>
      /\ spi.name # "receive"
  BY NotReceiving DEF C!TxBytes, C!RxBytes, C!At, C!ChipStays
<1>2. PICK orders \in {<<>>, <<"state_idle", "flush_rx">>, <<"state_idle", "flush_tx">>}, ret \in Int :
        /\ spi' = [spi EXCEPT !.pc = "return", !.todo = orders, !.ret = ret]
        /\ orders # <<>> => radio.st \in {"txunder", "rxover"}
  <2>1. Len(radio.tx) \in Int /\ Len(radio.rx) \in Int /\ -1 \in Int
    BY <1>0 DEF RadioShape, Chips
  <2>2. CASE C!TxBytes
    BY <2>1, <2>2 DEF C!TxBytes, C!Then, C!cc1101_flush_tx_fifo
  <2>3. CASE C!RxBytes
    BY <2>1, <2>3 DEF C!RxBytes, C!Then, C!cc1101_flush_rx_fifo
  <2> QED
    BY <2>2, <2>3
<1>3. "return" \in Places /\ orders \in Todos
  BY DEF Places, Todos, Commands
<1>4. spi' \in SpiCalls /\ spi'.pc = "return" /\ spi'.todo = orders /\ spi'.name = spi.name
  BY <1>0, <1>2, <1>3 DEF RadioShape, SpiCalls
<1>5. TodoPart'
  <2>1. orders \notin {<<"flush_rx">>, <<"flush_tx">>}
    OBVIOUS
  <2> QED
    BY <2>1, <1>1, <1>4 DEF TodoPart, Silent
<1>6. LeftPart'
  BY <1>0, <1>1, <1>4 DEF LeftPart
<1>7. orders # <<>> => ~C!Sending
  BY <1>2 DEF C!Sending
<1> QED
  BY <1>1, <1>4, <1>5, <1>6, <1>7, CallKeeps DEF Silent

\* The packet to send is put into the FIFO, whole.
LEMMA LoadKeeps ==
  ASSUME RadioParts, C!Load
  PROVE  RadioParts'
<1>0. RadioShape /\ SendPart /\ LeftPart
  BY DEF RadioParts
<1>1. /\ spi.pc = "load" /\ spi.todo = <<>> /\ UNCHANGED <<packets, past>>
      /\ spi' = [spi EXCEPT !.pc = "tx?"]
      /\ radio' = [radio EXCEPT !.tx = @ \o SubSeq(spi.buffer, 1,
                     C!Least(spi.size, CC1101_FIFO_SIZE - Len(radio.tx)))]
  BY DEF C!Load, C!At
<1>2. /\ radio.tx = <<>> /\ radio.out = C!None /\ spi.name = "send" /\ ~C!Sending /\ ~radio.torn
  BY <1>0, <1>1 DEF SendPart, Silent
<1>3. PICK p \in 1 .. Len(packets) :
        /\ spi.size = packets[p].len + 1
        /\ spi.buffer = [i \in 1 .. (packets[p].len + 1) |-> <<p, i - 1>>]
  BY <1>0, <1>1 DEF SendPart
<1>4. PICK l \in Nat : l = packets[p].len /\ l + 1 <= CC1101_FIFO_SIZE
  BY <1>0, RadioAssumed, LengthIs
<1>5. spi.size = l + 1 /\ spi.buffer = [i \in 1 .. (l + 1) |-> <<p, i - 1>>]
      /\ spi.buffer \in Seq(PacketBytes)
  BY <1>0, <1>3, <1>4 DEF RadioShape, SpiCalls
<1>6. Len(radio.tx) = 0 /\ C!Least(spi.size, CC1101_FIFO_SIZE - 0) = l + 1
  BY <1>2, <1>4, <1>5, RadioAssumed DEF C!Least
<1>7. radio.tx \o SubSeq(spi.buffer, 1, l + 1) = spi.buffer
  <2>1. Len(spi.buffer) = l + 1
    BY <1>5
  <2>2. SubSeq(spi.buffer, 1, l + 1) = spi.buffer
    BY <2>1, <1>5
  <2>3. <<>> \o spi.buffer = spi.buffer
    BY <1>5
  <2> QED
    BY <2>2, <2>3, <1>2
<1>8. radio' = [radio EXCEPT !.tx = spi.buffer]
  BY <1>1, <1>6, <1>7
<1>9. /\ radio' \in Chips /\ radio'.tx = spi.buffer /\ radio'.rx = radio.rx /\ radio'.in = radio.in
      /\ radio'.out = radio.out /\ radio'.torn = radio.torn /\ radio'.st = radio.st /\ radio'.to = radio.to
  BY <1>8, <1>0, <1>5 DEF RadioShape, Chips
<1>10. spi' \in SpiCalls /\ spi'.pc = "tx?" /\ spi'.todo = <<>> /\ spi'.name = "send"
  BY <1>0, <1>1, <1>2 DEF RadioShape, SpiCalls, Places
<1>11. RadioShape'
  BY <1>0, <1>1, <1>9, <1>10 DEF RadioShape
<1>12. StreamPart' /\ HeadPart'
  BY <1>1, <1>9, <1>10, StreamStays DEF RadioParts, HeadPart
<1>13. TodoPart'
  BY <1>10 DEF TodoPart
<1>14. ReceivePart'
  BY <1>10 DEF ReceivePart, AskedPart, BodyPart, StatusPart, AnswerPart, RefusedPart
<1>15. SendPart'
  <2>1. ~C!Sending'
    BY <1>2, <1>9 DEF C!Sending
  <2>2. Len(radio'.tx) = l + 1 /\ DOMAIN radio'.tx = 1 .. (l + 1)
    BY <1>5, <1>9
  <2>3. \A i \in 1 .. (l + 1) : radio'.tx[i] = <<p, i - 1>>
    BY <1>5, <1>9
  <2>4. radio'.tx[1] = <<p, 0>>
    <3>1. 1 \in 1 .. (l + 1) /\ 1 - 1 = 0
      OBVIOUS
    <3> QED
      BY <3>1, <2>3
  <2>5. radio'.tx[1][1] = p /\ radio'.tx[1][2] = 0
    BY <2>4
  <2>6. C!Length(radio.tx[1])' = l
    BY <2>5, <1>1, <1>4 DEF C!Length
  <2>7. \A i \in DOMAIN radio'.tx : radio'.tx[i] = <<radio'.tx[1][1], radio'.tx[1][2] + i - 1>>
    <3>1. \A i \in 1 .. (l + 1) : 0 + i - 1 = i - 1
      OBVIOUS
    <3> QED
      BY <3>1, <2>2, <2>3, <2>5
  <2>8. radio'.tx[1][2] + Len(radio'.tx) = C!Length(radio.tx[1])' + 1
    BY <2>2, <2>5, <2>6
  <2>9. radio'.tx[1][1] \in 1 .. Len(packets')
    BY <2>5, <1>1
  <2>10. ~radio'.torn /\ radio'.out = C!None /\ spi'.pc # "load" /\ spi'.todo = <<>>
    BY <1>2, <1>9, <1>10
  <2> QED
    BY <2>1, <2>5, <2>7, <2>8, <2>9, <2>10 DEF SendPart
<1>16. LeftPart'
  BY <1>10 DEF LeftPart
<1> QED
  BY <1>11, <1>12, <1>13, <1>14, <1>15, <1>16 DEF RadioParts

\* A call ends.
LEMMA ReturnKeeps ==
  ASSUME RadioParts, C!Return
  PROVE  RadioParts'
<1>0. RadioShape /\ SendPart /\ LeftPart /\ TodoPart /\ ReceivePart
  BY DEF RadioParts
<1>1. /\ spi.pc = "return" /\ spi.todo = <<>> /\ UNCHANGED <<radio, packets, past>>
      /\ spi' = [spi EXCEPT !.pc = "idle"]
  BY DEF C!Return, C!At, C!ChipStays
<1>2. /\ spi' \in SpiCalls /\ spi'.pc = "idle" /\ spi'.todo = <<>> /\ spi'.name = spi.name
      /\ spi'.ret = spi.ret /\ spi'.buffer = spi.buffer /\ spi'.appended = spi.appended
  BY <1>0, <1>1 DEF RadioShape, SpiCalls, Places
<1>3. RadioShape'
  BY <1>0, <1>1, <1>2 DEF RadioShape
<1>4. StreamPart' /\ HeadPart'
  BY <1>1, <1>2, StreamStays DEF RadioParts, HeadPart
<1>5. TodoPart'
  BY <1>0, <1>1, <1>2 DEF TodoPart
<1>6. ReceivePart'
  <2>1. AskedPart' /\ BodyPart' /\ StatusPart'
    BY <1>2 DEF AskedPart, BodyPart, StatusPart
  <2>2. AnswerPart'
    BY <1>0, <1>1, <1>2 DEF ReceivePart, AnswerPart, Taken
  <2>3. RefusedPart'
    BY <1>0, <1>1, <1>2 DEF ReceivePart, RefusedPart
  <2> QED
    BY <2>1, <2>2, <2>3 DEF ReceivePart
<1>7. SendPart'
  <2>1. C!Sending' <=> C!Sending
    BY <1>1 DEF C!Sending
  <2> QED
    BY <2>1, <1>0, <1>1, <1>2 DEF SendPart, Silent, C!Length
<1>8. LeftPart'
  <2>1. <<>> # C!cc1101_flush_tx_fifo /\ <<>> # <<"flush_tx">>
    BY DEF C!cc1101_flush_tx_fifo
  <2> QED
    BY <2>1, <1>0, <1>1, <1>2 DEF LeftPart
<1> QED
  BY <1>3, <1>4, <1>5, <1>6, <1>7, <1>8 DEF RadioParts

\* What the chip may do at a strobe when nothing is being sent.
LEMMA StrobeCuts ==
  ASSUME RadioParts, spi.todo # <<>>, spi' = [spi EXCEPT !.todo = Tail(@)], UNCHANGED <<packets, past>>,
         radio' \in Chips, Tail(spi.todo) \in Todos,
         radio'.in = C!None \/ (radio'.in = radio.in /\ radio'.st = "rx" /\ radio'.rx = radio.rx),
         radio'.out = C!None, ~radio'.torn,
         radio'.rx = radio.rx \/ radio'.rx = <<>>, radio'.tx = radio.tx \/ radio'.tx = <<>>,
         ~C!Sending,
         Tail(spi.todo) # <<>> => ~C!Sending',
         TodoPart', RefusedPart', LeftPart'
  PROVE  RadioParts'
<1>0. RadioShape /\ SendPart /\ TodoPart /\ ReceivePart
  BY DEF RadioParts
<1>1. /\ spi' \in SpiCalls /\ spi'.todo = Tail(spi.todo) /\ spi'.pc = spi.pc /\ spi'.name = spi.name
      /\ spi'.ret = spi.ret
  BY <1>0 DEF RadioShape, SpiCalls
<1>2. spi.pc \notin Silent \cup {"idle", "tx_bytes"}
  BY <1>0 DEF TodoPart
<1>3. RadioShape'
  BY <1>0, <1>1 DEF RadioShape
<1>4. Stream' = Stream \/ Stream' = radio.rx \/ Stream' = <<>>
  BY <1>0 DEF Stream, RadioShape
<1>5. StreamPart' /\ HeadPart'
  <2>1. StreamPart' /\ (Stream' # <<>> => Stream # <<>> /\ Stream'[1] = Stream[1])
    BY <1>0, <1>3, <1>4, StreamCut DEF RadioParts
  <2> QED
    BY <2>1, <1>1 DEF RadioParts, HeadPart
<1>6. ReceivePart'
  <2>1. AskedPart' /\ BodyPart' /\ StatusPart'
    BY <1>1, <1>2 DEF AskedPart, BodyPart, StatusPart, Silent
  <2>2. AnswerPart'
    <3>1. ~(spi.pc \in {"return", "idle"} /\ spi.name = "receive" /\ spi.ret > 0)
      BY <1>0 DEF ReceivePart, AnswerPart
    <3> QED
      BY <3>1, <1>1 DEF AnswerPart
  <2> QED
    BY <2>1, <2>2 DEF ReceivePart
<1>7. SendPart'
  <2>1. radio.out = C!None
    BY <1>0 DEF RadioShape, C!Sending
  <2>2. radio'.tx # <<>> =>
          /\ radio'.tx[1][2] = 0 /\ radio'.tx[1][1] \in 1 .. Len(packets')
          /\ radio'.tx[1][2] + Len(radio'.tx) = C!Length(radio.tx[1])' + 1
          /\ \A i \in DOMAIN radio'.tx : radio'.tx[i] = <<radio'.tx[1][1], radio'.tx[1][2] + i - 1>>
    BY <2>1, <1>0 DEF SendPart, C!Length
  <2>3. (spi.todo # <<>> /\ spi.todo # <<"quiet">> => ~C!Sending)'
    BY <1>1
  <2>4. spi'.pc \notin Silent /\ spi'.pc # "load"
    BY <1>1, <1>2 DEF Silent
  <2> QED
    BY <2>2, <2>3, <2>4 DEF SendPart
<1> QED
  BY <1>3, <1>5, <1>6, <1>7 DEF RadioParts

\* A command strobe: what a call still has to tell says when the chip is idle.
LEMMA StrobeKeeps ==
  ASSUME RadioParts, C!Strobe
  PROVE  RadioParts'
<1>0. RadioShape /\ SendPart /\ TodoPart /\ LeftPart /\ ReceivePart
  BY DEF RadioParts
<1>1. /\ spi.todo # <<>> /\ C!Strobed(Head(spi.todo)) /\ spi' = [spi EXCEPT !.todo = Tail(@)]
      /\ UNCHANGED <<packets, past>>
  BY DEF C!Strobe
<1>2. /\ spi'.todo = Tail(spi.todo) /\ spi'.pc = spi.pc /\ spi'.name = spi.name /\ spi'.ret = spi.ret
  BY <1>0, <1>1 DEF RadioShape, SpiCalls
<1>3. PICK c \in Commands : spi.todo = <<c>> \/ spi.todo = <<"state_idle", c>>
  <2>1. spi.todo \in Todos
    BY <1>0 DEF RadioShape, SpiCalls
  <2> QED
    BY <2>1, <1>1 DEF Todos
<1>4. spi.pc \notin Silent \cup {"idle", "tx_bytes"}
  BY <1>0, <1>1 DEF TodoPart
<1>5. /\ C!cc1101_flush_rx_fifo = <<"state_idle", "flush_rx">>
      /\ C!cc1101_flush_tx_fifo = <<"state_idle", "flush_tx">>
  BY DEF C!cc1101_flush_rx_fifo, C!cc1101_flush_tx_fifo
<1>6. ~radio.torn
  BY <1>0 DEF SendPart
<1>7. C!None \in PacketBytes /\ <<>> \in Seq(PacketBytes)
  BY DEF C!None, PacketBytes
<1>8. CASE spi.todo = <<"state_idle", c>>
  <2>1. Head(spi.todo) = "state_idle" /\ Tail(spi.todo) = <<c>>
    BY <1>8
  <2>2. ~C!Sending
    BY <1>0, <1>8 DEF SendPart
  <2>3. radio' = C!Goes(radio, "idle") /\ radio.out = C!None
    <3>1. radio' = C!Goes(radio, "idle")
      BY <1>1, <2>1 DEF C!Strobed
    <3> QED
      BY <3>1, <2>2, <1>0 DEF RadioShape, C!Sending
  <2>4. /\ radio' \in Chips /\ radio'.st = "idle" /\ radio'.in = C!None /\ radio'.out = C!None
        /\ ~radio'.torn /\ radio'.rx = radio.rx /\ radio'.tx = radio.tx
    BY <2>3, <1>0, <1>6, <1>7 DEF RadioShape, Chips, States, C!Goes
  <2>5. Tail(spi.todo) \in Todos
    BY <2>1 DEF Todos
  <2>6. ~C!Sending'
    BY <2>4 DEF C!Sending
  <2>7. TodoPart'
    BY <2>4, <1>0, <1>2, <1>4 DEF TodoPart
  <2>8. RefusedPart'
    BY <2>1, <1>0, <1>2, <1>5, <1>8 DEF ReceivePart, RefusedPart
  <2>9. LeftPart'
    <3>1. radio.st # "tx"
      BY <2>2 DEF C!Sending
    <3>2. spi.todo = C!cc1101_flush_tx_fifo => spi'.todo = <<"flush_tx">>
      BY <2>1, <1>2, <1>5, <1>8
    <3>3. spi.todo # <<"flush_tx">>
      BY <1>8
    <3> QED
      BY <3>1, <3>2, <3>3, <2>4, <1>0, <1>1, <1>2 DEF LeftPart
  <2> QED
    BY <1>1, <2>2, <2>4, <2>5, <2>6, <2>7, <2>8, <2>9, StrobeCuts
<1>9. CASE spi.todo = <<c>>
  <2>1. Head(spi.todo) = c /\ Tail(spi.todo) = <<>>
    BY <1>9
  <2>2. Tail(spi.todo) \in Todos /\ Tail(spi.todo) = <<>> /\ spi'.todo = <<>>
    BY <2>1, <1>2 DEF Todos
  <2>3. TodoPart'
    BY <2>2, <1>0, <1>2 DEF TodoPart
  <2>4. CASE c = "quiet"
    <3>1. radio' = radio
      BY <1>1, <2>1, <2>4 DEF C!Strobed
    <3>2. spi' \in SpiCalls
      BY <2>2, <1>0, <1>1 DEF RadioShape, SpiCalls
    <3>3. RadioShape'
      BY <3>1, <3>2, <1>0, <1>1 DEF RadioShape
    <3>4. StreamPart' /\ HeadPart'
      BY <3>1, <1>1, <1>2, StreamStays DEF RadioParts, HeadPart
    <3>5. ReceivePart'
      <4>1. AskedPart' /\ BodyPart' /\ StatusPart'
        BY <1>2, <1>4 DEF AskedPart, BodyPart, StatusPart, Silent
      <4>2. ~(spi.pc \in {"return", "idle"} /\ spi.name = "receive" /\ (spi.ret > 0 \/ spi.ret < 0))
        BY <1>0, <1>5, <1>9, <2>4 DEF ReceivePart, AnswerPart, RefusedPart
      <4> QED
        BY <4>1, <4>2, <1>2 DEF ReceivePart, AnswerPart, RefusedPart
    <3>6. SendPart'
      <4>1. C!Sending' <=> C!Sending
        BY <3>1 DEF C!Sending
      <4>2. spi'.pc \notin Silent /\ spi'.pc # "load"
        BY <1>2, <1>4 DEF Silent
      <4> QED
        BY <4>1, <4>2, <3>1, <2>2, <1>0, <1>1 DEF SendPart, C!Length
    <3>7. LeftPart'
      <4>1. spi.todo \notin {C!cc1101_flush_tx_fifo, <<"flush_tx">>}
        BY <1>5, <1>9, <2>4
      <4> QED
        BY <4>1, <3>1, <1>0, <1>1, <1>2 DEF LeftPart
    <3> QED
      BY <2>3, <3>3, <3>4, <3>5, <3>6, <3>7 DEF RadioParts
  <2>5. ASSUME c # "quiet" PROVE ~C!Sending /\ radio.out = C!None /\ radio.st # "tx"
    <3>1. ~C!Sending
      BY <1>0, <1>9, <2>5 DEF SendPart
    <3> QED
      BY <3>1, <1>0 DEF RadioShape, C!Sending
  <2>6. CASE c \in {"state_rx", "start_freq_synth", "state_tx"}
    <3>0. c # "quiet"
      BY <2>6
    <3>1. radio' = radio \/ \E to \in {"rx", "tx", "fstxon"} : radio' = C!Settles(radio, to)
      BY <1>1, <2>1, <2>6 DEF C!Strobed
    <3>2. /\ radio' \in Chips /\ radio'.out = C!None /\ ~radio'.torn
          /\ radio'.rx = radio.rx /\ radio'.tx = radio.tx
          /\ radio'.in = C!None \/ (radio'.in = radio.in /\ radio'.st = "rx")
      <4>1. CASE radio' = radio
        BY <4>1, <2>5, <3>0, <1>0, <1>6 DEF RadioShape
      <4>2. CASE \E to \in {"rx", "tx", "fstxon"} : radio' = C!Settles(radio, to)
        <5>1. PICK to \in {"rx", "tx", "fstxon"} : radio' = C!Settles(radio, to)
          BY <4>2
        <5>2. to \in States /\ "settling" \in States
          BY DEF States
        <5> QED
          BY <5>1, <5>2, <2>5, <3>0, <1>0, <1>6, <1>7 DEF RadioShape, Chips, C!Settles, C!Goes
      <4> QED
        BY <3>1, <4>1, <4>2
    <3>3. RefusedPart'
      <4>1. ~(spi.pc \in {"return", "idle"} /\ spi.name = "receive" /\ spi.ret < 0)
        BY <1>0, <1>5, <1>9, <2>6 DEF ReceivePart, RefusedPart
      <4> QED
        BY <4>1, <1>2 DEF RefusedPart
    <3>4. LeftPart'
      <4>1. spi.todo \notin {C!cc1101_flush_tx_fifo, <<"flush_tx">>}
        BY <1>5, <1>9, <2>6
      <4> QED
        BY <4>1, <2>5, <3>0, <3>2, <1>0, <1>1, <1>2 DEF LeftPart
    <3> QED
      BY <1>1, <2>2, <2>3, <2>5, <3>0, <3>2, <3>3, <3>4, StrobeCuts
  <2>7. CASE c = "flush_rx"
    <3>1. radio.st = "idle" /\ c # "quiet"
      BY <1>0, <1>9, <2>7 DEF TodoPart
    <3>2. radio' = [C!Goes(radio, "idle") EXCEPT !.rx = <<>>]
      BY <1>1, <2>1, <2>7, <3>1 DEF C!Strobed
    <3>3. /\ radio' \in Chips /\ radio'.st = "idle" /\ radio'.in = C!None /\ radio'.out = C!None
          /\ ~radio'.torn /\ radio'.rx = <<>> /\ radio'.tx = radio.tx
      BY <3>1, <3>2, <2>5, <1>0, <1>6, <1>7 DEF RadioShape, Chips, States, C!Goes
    <3>4. RefusedPart'
      BY <3>3, <2>2 DEF RefusedPart
    <3>5. LeftPart'
      <4>1. spi.todo \notin {C!cc1101_flush_tx_fifo, <<"flush_tx">>}
        BY <1>5, <1>9, <2>7
      <4> QED
        BY <4>1, <2>5, <3>1, <3>3, <1>0, <1>1, <1>2 DEF LeftPart
    <3> QED
      BY <1>1, <2>2, <2>3, <2>5, <3>1, <3>3, <3>4, <3>5, StrobeCuts
  <2>8. CASE c = "flush_tx"
    <3>1. radio.st = "idle" /\ c # "quiet"
      BY <1>0, <1>9, <2>8 DEF TodoPart
    <3>2. radio' = [C!Goes(radio, "idle") EXCEPT !.tx = <<>>]
      BY <1>1, <2>1, <2>8, <3>1 DEF C!Strobed
    <3>3. /\ radio' \in Chips /\ radio'.st = "idle" /\ radio'.in = C!None /\ radio'.out = C!None
          /\ ~radio'.torn /\ radio'.rx = radio.rx /\ radio'.tx = <<>>
      BY <3>1, <3>2, <2>5, <1>0, <1>6, <1>7 DEF RadioShape, Chips, States, C!Goes
    <3>4. RefusedPart'
      <4>1. ~(spi.pc \in {"return", "idle"} /\ spi.name = "receive" /\ spi.ret < 0)
        BY <1>0, <1>5, <1>9, <2>8 DEF ReceivePart, RefusedPart
      <4> QED
        BY <4>1, <1>2 DEF RefusedPart
    <3>5. LeftPart'
      BY <3>3 DEF LeftPart
    <3> QED
      BY <1>1, <2>2, <2>3, <2>5, <3>1, <3>3, <3>4, <3>5, StrobeCuts
  <2> QED
    BY <2>4, <2>6, <2>7, <2>8 DEF Commands
<1> QED
  BY <1>3, <1>8, <1>9

\* A receive call finds the packet in the FIFO.
LEMMA ReceiveKeeps ==
  ASSUME RadioParts, C!Receive
  PROVE  RadioParts'
<1>0. RadioShape /\ SendPart /\ LeftPart /\ ReceivePart
  BY DEF RadioParts
<1>1. spi.pc = "receive" /\ spi.todo = <<>> /\ UNCHANGED <<radio, packets, past>>
  BY DEF C!Receive, C!At, C!ChipStays
<1>2. PICK p \in 1 .. Len(packets) : Starts(radio.rx, packets, p, 0)
  BY <1>0, <1>1 DEF ReceivePart, AskedPart
<1>3. spi.name = "receive" /\ spi.size = CC1101_FIFO_SIZE
  BY <1>0, <1>1 DEF ReceivePart, AskedPart
<1>4. PICK m \in Nat : m = Len(radio.rx)
  BY <1>0 DEF RadioShape, Chips
<1>5. PICK l \in Nat : l = packets[p].len
  BY <1>0, LengthIs
<1>6. m >= l + 3 /\ radio.rx # <<>>
  <2>1. m >= l + 3
    BY <1>2, <1>4, <1>5 DEF Starts
  <2> QED
    BY <2>1, <1>0, <1>4, EmptyIs DEF RadioShape, Chips
<1>7. spi' = [spi EXCEPT !.status = m, !.over = (radio.st = "rxover"), !.pc = "length"]
  BY <1>4, <1>6 DEF C!Receive
<1>8. /\ spi' \in SpiCalls /\ spi'.pc = "length" /\ spi'.todo = <<>> /\ spi'.name = "receive"
      /\ spi'.size = CC1101_FIFO_SIZE /\ spi'.status = m
  BY <1>0, <1>1, <1>3, <1>7 DEF RadioShape, SpiCalls, Places
<1>9. RadioShape'
  BY <1>0, <1>1, <1>8 DEF RadioShape
<1>10. StreamPart' /\ HeadPart'
  BY <1>1, <1>8, StreamStays DEF RadioParts, HeadPart
<1>11. TodoPart'
  BY <1>8 DEF TodoPart
<1>12. ReceivePart'
  <2>1. AskedPart'
    BY <1>1, <1>2, <1>5, <1>6, <1>8 DEF AskedPart
  <2> QED
    BY <2>1, <1>8 DEF ReceivePart, BodyPart, StatusPart, AnswerPart, RefusedPart
<1>13. SendPart'
  <2>1. C!Sending' <=> C!Sending
    BY <1>1 DEF C!Sending
  <2>2. ~C!Sending
    BY <1>0, <1>1 DEF SendPart, Silent
  <2> QED
    BY <2>1, <2>2, <1>0, <1>1, <1>8 DEF SendPart, C!Length
<1>14. LeftPart'
  BY <1>0, <1>1, <1>8 DEF LeftPart
<1> QED
  BY <1>9, <1>10, <1>11, <1>12, <1>13, <1>14 DEF RadioParts

\* k bytes are taken from a FIFO that has them.
LEMMA LeftIs ==
  ASSUME RadioShape, NEW k \in Nat, k <= Len(radio.rx), radio' = C!Left(k)
  PROVE  /\ radio' \in Chips /\ radio'.in = radio.in /\ radio'.out = radio.out /\ radio'.tx = radio.tx
         /\ radio'.torn = radio.torn /\ radio'.st = radio.st /\ radio'.to = radio.to
         /\ Len(radio'.rx) = Len(radio.rx) - k
         /\ \A i \in 1 .. (Len(radio.rx) - k) : radio'.rx[i] = radio.rx[i + k]
         /\ Len(Stream') + k = Len(Stream) /\ \A i \in 1 .. Len(Stream') : Stream'[i] = Stream[i + k]
<1>1. PICK m \in Nat : m = Len(radio.rx)
  BY DEF RadioShape, Chips
<1> DEFINE rest == IF k >= m THEN <<>> ELSE SubSeq(radio.rx, k + 1, m)
<1>2. radio.rx \in Seq(PacketBytes) /\ radio.in \in PacketBytes /\ k <= m
  BY <1>1 DEF RadioShape, Chips
<1>3. rest \in Seq(PacketBytes) /\ Len(rest) = m - k /\ \A i \in 1 .. (m - k) : rest[i] = radio.rx[i + k]
  <2>1. CASE k = m
    <3>1. rest = <<>> /\ m - k = 0
      BY <2>1
    <3> QED
      BY <3>1
  <2>2. CASE k < m
    <3>1. rest = SubSeq(radio.rx, k + 1, m) /\ k + 1 \in 1 .. m /\ m \in 1 .. m
      BY <2>2
    <3>2. SubSeq(radio.rx, k + 1, m) \in Seq(PacketBytes)
      BY <3>1, <1>1, <1>2
    <3>3. Len(SubSeq(radio.rx, k + 1, m)) = m - k
      BY <3>1, <1>1, <1>2
    <3>4. \A i \in 1 .. (m - k) : SubSeq(radio.rx, k + 1, m)[i] = radio.rx[i + k]
      BY <3>1, <1>1, <1>2
    <3> QED
      BY <3>1, <3>2, <3>3, <3>4
  <2>3. k = m \/ k < m
    BY <1>2
  <2> QED
    BY <2>1, <2>2, <2>3
<1>4. radio' = [radio EXCEPT !.rx = rest]
  BY <1>1 DEF C!Left
<1> HIDE DEF rest
<1>5. /\ radio' \in Chips /\ radio'.in = radio.in /\ radio'.out = radio.out /\ radio'.tx = radio.tx
      /\ radio'.torn = radio.torn /\ radio'.st = radio.st /\ radio'.to = radio.to /\ radio'.rx = rest
  BY <1>3, <1>4 DEF RadioShape, Chips
<1>6. Len(Stream') + k = Len(Stream) /\ \A i \in 1 .. Len(Stream') : Stream'[i] = Stream[i + k]
  <2>1. CASE radio.in = C!None
    BY <2>1, <1>1, <1>3, <1>5 DEF Stream
  <2>2. CASE radio.in # C!None
    <3>1. Stream = Append(radio.rx, radio.in) /\ Stream' = Append(rest, radio.in)
      BY <2>2, <1>5 DEF Stream
    <3>2. Len(Stream) = m + 1 /\ Stream[m + 1] = radio.in /\ \A i \in 1 .. m : Stream[i] = radio.rx[i]
      BY <3>1, <1>1, <1>2
    <3>3. PICK n \in Nat : n = m - k
      BY <1>2
    <3>4. Len(Stream') = n + 1 /\ Stream'[n + 1] = radio.in /\ \A i \in 1 .. n : Stream'[i] = rest[i]
      <4>1. Len(rest) = n /\ rest \in Seq(PacketBytes)
        BY <3>3, <1>3
      <4> QED
        BY <4>1, <3>1, <1>2
    <3>5. m = n + k
      BY <3>3
    <3>6. ASSUME NEW i \in 1 .. (n + 1) PROVE Stream'[i] = Stream[i + k]
      <4>1. CASE i \in 1 .. n
        <5>1. i + k \in 1 .. m
          BY <4>1, <3>5
        <5> QED
          BY <4>1, <5>1, <3>2, <3>3, <3>4, <1>3
      <4>2. CASE i = n + 1
        <5>1. i + k = m + 1
          BY <4>2, <3>5
        <5> QED
          BY <4>2, <5>1, <3>2, <3>4
      <4> QED
        BY <4>1, <4>2
    <3>7. (n + 1) + k = m + 1
      BY <3>5
    <3> QED
      BY <3>2, <3>4, <3>6, <3>7
  <2> QED
    BY <2>1, <2>2
<1> QED
  BY <1>1, <1>3, <1>5, <1>6

LEMMA FrontIs ==
  ASSUME RadioShape, NEW k \in Nat, k <= Len(radio.rx)
  PROVE  /\ C!Front(k) = [i \in 1 .. k |-> radio.rx[i]] /\ C!Front(k) \in Seq(PacketBytes)
<1>1. PICK m \in Nat : m = Len(radio.rx) /\ k <= m
  BY DEF RadioShape, Chips
<1>2. \A i \in 1 .. k : i <= m /\ i \in 1 .. m
  BY <1>1
<1>3. C!Front(k) = [i \in 1 .. k |-> radio.rx[i]]
  BY <1>1, <1>2 DEF C!Front
<1>4. \A i \in 1 .. k : radio.rx[i] \in PacketBytes
  BY <1>1, <1>2 DEF RadioShape, Chips
<1> QED
  BY <1>3, <1>4

\* Bytes are taken while the rest of the radio and the other FIFO stay.
LEMMA RadioReadKeeps ==
  ASSUME RadioParts, NEW k \in Nat, k <= Len(radio.rx), radio' = C!Left(k), packets' = packets,
         past' = past, spi' \in SpiCalls, spi.pc \in {"length", "body", "status"},
         spi'.pc \notin {"load", "rx?", "fstxon?", "tx?", "poll", "tx_bytes", "rx_bytes"},
         HeadPart', TodoPart', ReceivePart'
  PROVE  RadioParts'
<1>0. RadioShape /\ SendPart /\ LeftPart
  BY DEF RadioParts
<1>1. /\ radio' \in Chips /\ radio'.in = radio.in /\ radio'.out = radio.out /\ radio'.tx = radio.tx
      /\ radio'.torn = radio.torn /\ radio'.st = radio.st /\ radio'.to = radio.to
      /\ Len(Stream') + k = Len(Stream) /\ \A i \in 1 .. Len(Stream') : Stream'[i] = Stream[i + k]
  BY <1>0, LeftIs
<1>2. RadioShape'
  BY <1>0, <1>1 DEF RadioShape
<1>3. StreamPart'
  <2>1. PacketsGrow
    BY <1>0 DEF RadioShape, PacketsGrow
  <2>2. Len(Stream') + k <= Len(Stream)
    <3>1. Stream \in Seq(PacketBytes)
      BY <1>0, StreamIs
    <3>2. PICK m \in Nat : m = Len(Stream)
      BY <3>1
    <3> QED
      BY <3>2, <1>1
  <2> QED
    BY <2>1, <2>2, <1>0, <1>1, <1>2, StreamKept DEF RadioParts
<1>4. SendPart'
  <2>1. ~C!Sending /\ ~C!Sending'
    BY <1>0, <1>1 DEF SendPart, Silent, C!Sending
  <2> QED
    BY <2>1, <1>0, <1>1 DEF SendPart, C!Length
<1>5. LeftPart'
  BY <1>0, <1>1 DEF LeftPart
<1> QED
  BY <1>2, <1>3, <1>4, <1>5 DEF RadioParts

\* What is left of a packet when k bytes more are taken.
LEMMA StartsLeft ==
  ASSUME RadioShape, NEW p \in 1 .. Len(packets), NEW n \in Nat, NEW k \in Nat,
         Starts(radio.rx, packets, p, n), n + k <= packets[p].len + 3, radio' = C!Left(k)
  PROVE  k <= Len(radio.rx) /\ Starts(radio'.rx, packets, p, n + k)
<1>1. PICK m \in Nat, l \in Nat : m = Len(radio.rx) /\ l = packets[p].len
  BY LengthIs DEF RadioShape, Chips
<1>2. m >= l + 3 - n /\ \A j \in 1 .. (l + 3 - n) : radio.rx[j] = <<p, n + j - 1>>
  BY <1>1 DEF Starts
<1>3. k <= m
  BY <1>1, <1>2
<1>4. Len(radio'.rx) = m - k /\ \A i \in 1 .. (m - k) : radio'.rx[i] = radio.rx[i + k]
  BY <1>1, <1>3, LeftIs
<1>5. m - k >= l + 3 - (n + k)
  BY <1>2
<1>6. \A j \in 1 .. (l + 3 - (n + k)) :
        /\ j \in 1 .. (m - k) /\ j + k \in 1 .. (l + 3 - n) /\ n + (j + k) - 1 = (n + k) + j - 1
  BY <1>2
<1>7. \A j \in 1 .. (l + 3 - (n + k)) : radio'.rx[j] = <<p, (n + k) + j - 1>>
  BY <1>2, <1>4, <1>6
<1> QED
  BY <1>1, <1>3, <1>4, <1>5, <1>7 DEF Starts

\* The length is read: of the packet, and as many bytes are asked for after it.
LEMMA ReadLengthKeeps ==
  ASSUME RadioParts, C!ReadLength
  PROVE  RadioParts'
<1>0. RadioShape /\ ReceivePart
  BY DEF RadioParts
<1>1. spi.pc = "length" /\ spi.todo = <<>> /\ UNCHANGED <<packets, past>> /\ radio' = C!Left(1)
  BY DEF C!ReadLength, C!At
<1>2. PICK p \in 1 .. Len(packets) :
        /\ Starts(radio.rx, packets, p, 0) /\ spi.status >= packets[p].len + 3
        /\ spi.name = "receive" /\ spi.size = CC1101_FIFO_SIZE
  BY <1>0, <1>1 DEF ReceivePart, AskedPart
<1>3. PICK l \in Nat : l = packets[p].len /\ 1 <= l /\ l <= CC1101_FIFO_SIZE - 1
  BY <1>0, LengthIs
<1>4. 1 <= Len(radio.rx) /\ Starts(radio'.rx, packets, p, 1)
  <2>1. 0 + 1 = 1 /\ 0 + 1 <= l + 3
    OBVIOUS
  <2> QED
    BY <2>1, <1>0, <1>1, <1>2, <1>3, StartsLeft
<1>5. C!Front(1)[1] = <<p, 0>>
  <2>1. radio.rx[1] = <<p, 0>>
    <3>1. 1 \in 1 .. (l + 3 - 0) /\ 0 + 1 - 1 = 0
      BY <1>3
    <3> QED
      BY <3>1, <1>2, <1>3 DEF Starts
  <2> QED
    BY <2>1, <1>0, <1>4, FrontIs
<1>6. C!Values(<<p, 0>>) = {l}
  BY <1>3 DEF C!Values, C!None, C!Length
<1>7. C!Sized(l) = [ret |-> l + 1, n |-> l + 1]
  <2>1. spi.status \in Nat /\ CC1101_FIFO_SIZE \in Nat
    BY <1>0, RadioAssumed DEF RadioShape, SpiCalls
  <2>2. ~(l > CC1101_FIFO_SIZE - 1) /\ ~(l + 1 > spi.size) /\ ~(l > spi.status)
    BY <2>1, <1>2, <1>3
  <2> QED
    BY <2>2 DEF C!Sized
<1>8. ((l + 1) + 255) % 256 = l
  <2>1. l < 256
    BY <1>3, RadioAssumed
  <2> QED
    BY <2>1
<1> DEFINE one == <<<<p, 0>>>>
<1>9. spi' = [spi EXCEPT !.pc = "body", !.buffer = one, !.ret = l + 1, !.size = l]
  <2>1. PICK v \in C!Values(C!Front(1)[1]) :
          spi' = [spi EXCEPT !.pc = "body", !.buffer = <<C!Front(1)[1]>>, !.ret = C!Sized(v).ret,
                    !.size = (C!Sized(v).n + 255) % 256]
    BY DEF C!ReadLength
  <2>2. v = l
    BY <1>5, <1>6
  <2>3. C!Sized(v).ret = l + 1 /\ C!Sized(v).n = l + 1
    BY <2>2, <1>7
  <2> QED
    BY <2>1, <2>3, <1>5, <1>8
<1>10. /\ spi' \in SpiCalls /\ spi'.pc = "body" /\ spi'.todo = <<>> /\ spi'.name = "receive"
       /\ spi'.size = l /\ spi'.ret = l + 1 /\ spi'.buffer = one
  <2>1. <<p, 0>> \in PacketBytes
    BY DEF PacketBytes
  <2>2. one \in Seq(PacketBytes) /\ l + 1 \in Int /\ "body" \in Places
    BY <2>1 DEF Places
  <2> HIDE DEF one
  <2> QED
    BY <2>2, <1>0, <1>1, <1>2, <1>9 DEF RadioShape, SpiCalls
<1>11. HeadPart' /\ TodoPart'
  BY <1>10 DEF HeadPart, TodoPart
<1>12. ReceivePart'
  <2>1. Taken(spi', packets', p, 1)
    <3>1. <<<<p, 0>>>> = [i \in 1 .. 1 |-> <<p, i - 1>>]
      OBVIOUS
    <3> QED
      BY <3>1, <1>1, <1>3, <1>10 DEF Taken
  <2>2. BodyPart'
    BY <2>1, <1>1, <1>3, <1>4, <1>10 DEF BodyPart
  <2> QED
    BY <2>2, <1>10 DEF ReceivePart, AskedPart, StatusPart, AnswerPart, RefusedPart
<1> QED
  BY <1>1, <1>4, <1>10, <1>11, <1>12, RadioReadKeeps

\* The data is read.
LEMMA ReadBodyKeeps ==
  ASSUME RadioParts, C!ReadBody
  PROVE  RadioParts'
<1>0. RadioShape /\ ReceivePart
  BY DEF RadioParts
<1>1. spi.pc = "body" /\ spi.todo = <<>> /\ UNCHANGED <<packets, past>> /\ radio' = C!Left(spi.size)
  BY DEF C!ReadBody, C!At
<1>2. PICK p \in 1 .. Len(packets) :
        /\ spi.name = "receive" /\ spi.size = packets[p].len
        /\ Taken(spi, packets, p, 1) /\ Starts(radio.rx, packets, p, 1)
  BY <1>0, <1>1 DEF ReceivePart, BodyPart
<1>3. PICK l \in Nat : l = packets[p].len /\ 1 <= l /\ l <= CC1101_FIFO_SIZE - 1
  BY <1>0, LengthIs
<1>4. l <= Len(radio.rx) /\ Starts(radio'.rx, packets, p, l + 1)
  <2>1. 1 + l = l + 1 /\ 1 + l <= l + 3
    OBVIOUS
  <2> QED
    BY <2>1, <1>0, <1>1, <1>2, <1>3, StartsLeft
<1>5. C!Front(l) = [i \in 1 .. l |-> <<p, i>>] /\ C!Front(l) \in Seq(PacketBytes)
  <2>1. \A i \in 1 .. l : i \in 1 .. (l + 3 - 1) /\ 1 + i - 1 = i
    BY <1>3
  <2>2. \A i \in 1 .. l : radio.rx[i] = <<p, i>>
    BY <2>1, <1>2, <1>3 DEF Starts
  <2>3. C!Front(l) = [i \in 1 .. l |-> radio.rx[i]] /\ C!Front(l) \in Seq(PacketBytes)
    BY <1>0, <1>4, FrontIs
  <2> QED
    BY <2>2, <2>3
<1>6. C!Least(spi.size, CC1101_FIFO_SIZE) = l
  BY <1>2, <1>3, RadioAssumed DEF C!Least
<1> DEFINE all == [i \in 1 .. (l + 1) |-> <<p, i - 1>>]
<1>7. spi.buffer = [i \in 1 .. 1 |-> <<p, i - 1>>] /\ spi.buffer \in Seq(PacketBytes) /\ spi.ret = l + 1
  BY <1>0, <1>2, <1>3 DEF Taken, RadioShape, SpiCalls
<1>8. spi.buffer \o C!Front(l) = all /\ all \in Seq(PacketBytes)
  <2>1. Len(spi.buffer) = 1 /\ spi.buffer[1] = <<p, 0>>
    <3>1. 1 \in 1 .. 1 /\ 1 - 1 = 0
      OBVIOUS
    <3> QED
      BY <3>1, <1>7
  <2>2. Len(C!Front(l)) = l /\ \A i \in 1 .. l : C!Front(l)[i] = <<p, i>>
    BY <1>5
  <2> DEFINE both == spi.buffer \o C!Front(l)
  <2>3. both \in Seq(PacketBytes) /\ Len(both) = l + 1
    BY <1>5, <1>7, <2>1, <2>2
  <2>4. \A i \in 1 .. (l + 1) : both[i] = <<p, i - 1>>
    <3>1. SUFFICES ASSUME NEW i \in 1 .. (l + 1) PROVE both[i] = <<p, i - 1>>
      OBVIOUS
    <3>2. CASE i = 1
      BY <3>2, <1>5, <1>7, <2>1, <2>2
    <3>3. CASE i \in 2 .. (l + 1)
      <4>1. i - 1 \in 1 .. l
        BY <3>3
      <4>2. both[i] = C!Front(l)[i - 1]
        BY <3>3, <4>1, <1>5, <1>7, <2>1, <2>2
      <4> QED
        BY <4>1, <4>2, <2>2
    <3> QED
      <4>1. i = 1 \/ i \in 2 .. (l + 1)
        BY <3>1
      <4> HIDE DEF both
      <4> QED
        BY <4>1, <3>2, <3>3
  <2>5. all \in Seq(PacketBytes) /\ Len(all) = l + 1
    <3>1. \A i \in 1 .. (l + 1) : i - 1 \in Nat
      OBVIOUS
    <3>2. \A i \in 1 .. (l + 1) : <<p, i - 1>> \in PacketBytes
      BY <3>1 DEF PacketBytes
    <3> QED
      BY <3>2
  <2>6. \A i \in 1 .. (l + 1) : all[i] = <<p, i - 1>>
    OBVIOUS
  <2> HIDE DEF both, all
  <2>7. both = all
    BY <2>3, <2>4, <2>5, <2>6, SameSeq
  <2> QED
    BY <2>5, <2>7 DEF both
<1>9. spi' = [spi EXCEPT !.pc = "status", !.buffer = all]
  BY <1>6, <1>8 DEF C!ReadBody
<1> HIDE DEF all
<1>10. /\ spi' \in SpiCalls /\ spi'.pc = "status" /\ spi'.todo = <<>> /\ spi'.name = "receive"
       /\ spi'.ret = l + 1 /\ spi'.buffer = all
  BY <1>0, <1>1, <1>2, <1>7, <1>8, <1>9 DEF RadioShape, SpiCalls, Places
<1>11. HeadPart' /\ TodoPart'
  BY <1>10 DEF HeadPart, TodoPart
<1>12. ReceivePart'
  <2>1. Taken(spi', packets', p, l + 1)
    BY <1>1, <1>3, <1>10 DEF Taken, all
  <2>2. StatusPart'
    BY <2>1, <1>1, <1>3, <1>4, <1>10 DEF StatusPart
  <2> QED
    BY <2>2, <1>10 DEF ReceivePart, AskedPart, BodyPart, AnswerPart, RefusedPart
<1>13. spi.size = l
  BY <1>2, <1>3
<1> QED
  BY <1>1, <1>4, <1>10, <1>11, <1>12, <1>13, RadioReadKeeps

\* The status bytes are read: they are of the same packet, and after them the FIFO
\* starts with the next.
LEMMA ReadStatusKeeps ==
  ASSUME RadioParts, C!ReadStatus
  PROVE  RadioParts'
<1>0. RadioShape /\ ReceivePart /\ StreamPart /\ SendPart
  BY DEF RadioParts
<1>1. spi.pc = "status" /\ spi.todo = <<>> /\ UNCHANGED <<packets, past>> /\ radio' = C!Left(2)
  BY DEF C!ReadStatus, C!At
<1>2. PICK p \in 1 .. Len(packets) :
        /\ Taken(spi, packets, p, packets[p].len + 1)
        /\ Starts(radio.rx, packets, p, packets[p].len + 1)
  BY <1>0, <1>1 DEF ReceivePart, StatusPart
<1>3. PICK l \in Nat : l = packets[p].len
  BY <1>0, LengthIs
<1>4. 2 <= Len(radio.rx)
  <2>1. (l + 1) + 2 <= l + 3
    OBVIOUS
  <2> QED
    BY <2>1, <1>0, <1>1, <1>2, <1>3, StartsLeft
<1>5. radio.rx[1] = <<p, l + 1>> /\ radio.rx[2] = <<p, l + 2>>
  <2>1. /\ 1 \in 1 .. (l + 3 - (l + 1)) /\ 2 \in 1 .. (l + 3 - (l + 1))
        /\ (l + 1) + 1 - 1 = l + 1 /\ (l + 1) + 2 - 1 = l + 2
    BY <1>3
  <2> QED
    BY <2>1, <1>2, <1>3 DEF Starts
<1> DEFINE app == <<<<p, l + 1>>, <<p, l + 2>>>>
<1>6. C!Front(2) = app /\ app \in Seq(PacketBytes)
  <2>1. C!Front(2) = [i \in 1 .. 2 |-> radio.rx[i]] /\ C!Front(2) \in Seq(PacketBytes)
    BY <1>0, <1>4, FrontIs
  <2>2. [i \in 1 .. 2 |-> radio.rx[i]] = <<radio.rx[1], radio.rx[2]>>
    OBVIOUS
  <2> QED
    BY <2>1, <2>2, <1>5
<1>7. C!Verdict(app[2]) = {packets[p].ok}
  <2>1. app[2] = <<p, l + 2>> /\ app[2] # C!None
    BY DEF C!None
  <2> QED
    BY <2>1, <1>3 DEF C!Verdict, C!Length
<1>8. packets[p].ok \in BOOLEAN /\ spi.over \in BOOLEAN
  BY <1>0, LengthIs DEF RadioShape, SpiCalls
<1> HIDE DEF app
<1> DEFINE orders == IF ~packets[p].ok \/ spi.over THEN C!cc1101_flush_rx_fifo ELSE <<>>
           ret == IF ~packets[p].ok THEN -15 ELSE IF spi.over THEN -14 ELSE spi.ret
<1>9. spi' = [spi EXCEPT !.pc = "return", !.appended = app, !.todo = orders, !.ret = ret]
  <2>1. PICK crc \in C!Verdict(C!Front(2)[2]) :
          spi' = [spi EXCEPT !.pc = "return", !.appended = C!Front(2),
                    !.todo = IF ~crc \/ spi.over THEN C!cc1101_flush_rx_fifo ELSE <<>>,
                    !.ret = IF ~crc THEN -15 ELSE IF spi.over THEN -14 ELSE @]
    BY DEF C!ReadStatus
  <2>2. crc = packets[p].ok
    BY <1>6, <1>7
  <2> QED
    BY <2>1, <2>2, <1>6
<1>10. spi.ret = l + 1 /\ spi.buffer = [i \in 1 .. (l + 1) |-> <<p, i - 1>>]
  BY <1>2, <1>3 DEF Taken
<1>11. orders \in Todos /\ ret \in Int /\ "return" \in Places
  BY <1>10 DEF Todos, Commands, Places, C!cc1101_flush_rx_fifo
<1>12. ret > 0 => packets[p].ok /\ orders = <<>> /\ ret = l + 1
  BY <1>10
<1>13. ret < 0 => orders = C!cc1101_flush_rx_fifo
  BY <1>10
<1>14. orders \notin {<<"flush_rx">>, <<"flush_tx">>}
  BY DEF C!cc1101_flush_rx_fifo
<1> HIDE DEF orders, ret
<1>15. /\ spi' \in SpiCalls /\ spi'.pc = "return" /\ spi'.todo = orders /\ spi'.name = spi.name
       /\ spi'.ret = ret /\ spi'.buffer = spi.buffer /\ spi'.appended = app
  BY <1>0, <1>6, <1>9, <1>11 DEF RadioShape, SpiCalls
<1>16. HeadPart'
  <2>1. ASSUME Stream' # <<>> PROVE Stream'[1][2] = 0
    <3>1. /\ Len(Stream') + 2 = Len(Stream)
          /\ \A i \in 1 .. Len(Stream') : Stream'[i] = Stream[i + 2]
      BY <1>0, <1>1, <1>4, LeftIs
    <3>2. /\ Stream \in Seq(PacketBytes)
          /\ \A i \in DOMAIN radio.rx : i \in DOMAIN Stream /\ Stream[i] = radio.rx[i]
      BY <1>0, StreamIs
    <3>3. Stream' \in Seq(PacketBytes)
      <4>1. radio'.rx \in Seq(PacketBytes) /\ radio'.in \in PacketBytes
        BY <1>0, <1>1, <1>4, LeftIs DEF RadioShape, Chips
      <4> QED
        BY <4>1 DEF Stream
    <3>4. PICK n \in Nat, m \in Nat : n = Len(Stream') /\ m = Len(Stream)
      BY <3>2, <3>3
    <3>5. n # 0
      BY <2>1, <3>3, <3>4, EmptyIs
    <3>6. n + 2 = m /\ 1 \in 1 .. n /\ 3 \in 1 .. m /\ 3 > 1 /\ 3 - 1 = 2 /\ 1 + 2 = 3
      BY <3>1, <3>4, <3>5
    <3>7. Stream'[1] = Stream[3] /\ 3 \in DOMAIN Stream
      BY <3>1, <3>2, <3>4, <3>6
    <3>8. Stream[2] = <<p, l + 2>>
      <4>1. 2 \in DOMAIN radio.rx
        BY <1>0, <1>4 DEF RadioShape, Chips
      <4> QED
        BY <4>1, <3>2, <1>5
    <3>9. Follows(Stream[2], Stream[3]) /\ OnAir(Stream[3])
      BY <3>6, <3>7, <1>0 DEF StreamPart
    <3>10. PICK x \in Nat, y \in Nat : Stream[3] = <<x, y>>
      <4>1. Stream[3] \in PacketBytes
        BY <3>2, <3>7
      <4> QED
        BY <4>1 DEF PacketBytes
    <3>11. y # 0 => x = p /\ y = l + 3
      <4>1. \A a \in Nat, b \in Nat : <<x, y>> = <<a, b>> => x = a /\ y = b
        OBVIOUS
      <4>2. (l + 2) + 1 = l + 3
        OBVIOUS
      <4>3. y # 0 => <<x, y>> = <<p, (l + 2) + 1>>
        BY <3>8, <3>9, <3>10 DEF Follows
      <4> QED
        BY <4>1, <4>2, <4>3
    <3>12. y <= packets[x].len + 2
      BY <3>9, <3>10 DEF OnAir, C!Length
    <3>13. y = 0
      BY <3>11, <3>12, <1>3
    <3> QED
      BY <3>7, <3>10, <3>13
  <2> QED
    BY <2>1 DEF HeadPart
<1>17. TodoPart'
  BY <1>14, <1>15 DEF TodoPart, Silent
<1>18. ReceivePart'
  <2>1. AskedPart' /\ BodyPart' /\ StatusPart'
    BY <1>15 DEF AskedPart, BodyPart, StatusPart
  <2>2. AnswerPart'
    <3>1. ret > 0 => Taken(spi', packets', p, packets'[p].len + 1)
      BY <1>1, <1>2, <1>3, <1>12, <1>15, <1>10 DEF Taken
    <3>2. spi'.appended = <<<<p, packets'[p].len + 1>>, <<p, packets'[p].len + 2>>>>
      BY <1>1, <1>3, <1>15 DEF app
    <3> QED
      BY <3>1, <3>2, <1>1, <1>12, <1>15 DEF AnswerPart
  <2>3. RefusedPart'
    BY <1>13, <1>15 DEF RefusedPart, C!cc1101_flush_rx_fifo
  <2> QED
    BY <2>1, <2>2, <2>3 DEF ReceivePart
<1> QED
  BY <1>1, <1>4, <1>15, <1>16, <1>17, <1>18, RadioReadKeeps

-----------------------------------------------------------------------------
LEMMA RadioInvInit == C!Init => RadioInv
<1>1. SUFFICES ASSUME C!Init PROVE RadioInv
  OBVIOUS
<1>2. /\ radio = [st |-> "idle", to |-> "idle", rx |-> <<>>, tx |-> <<>>, in |-> C!None,
                  out |-> C!None, torn |-> FALSE]
      /\ packets = <<>> /\ past = [calls |-> 0, odd |-> FALSE, left |-> 0]
      /\ spi = [pc |-> "idle", name |-> "none", todo |-> <<>>, size |-> 0, ret |-> 0,
                status |-> 0, over |-> FALSE, buffer |-> <<>>, appended |-> <<>>]
  BY <1>1 DEF C!Init, C!PowerOn, C!NoCall
<1>3. /\ <<>> \in Seq(PacketBytes) /\ C!None \in PacketBytes /\ <<>> \in Seq(Rows) /\ <<>> \in Todos
      /\ "idle" \in Places /\ "none" \in Names /\ "idle" \in States
  BY DEF PacketBytes, C!None, Todos, Places, Names, States
<1>4. RadioShape
  BY <1>2, <1>3 DEF RadioShape, Chips, SpiCalls
<1>5. TodoPart
  BY <1>2 DEF TodoPart
<1>6. Stream = <<>>
  BY <1>2 DEF Stream
<1>7. StreamPart /\ HeadPart
  BY <1>6 DEF StreamPart, HeadPart
<1>8. ReceivePart
  BY <1>2 DEF ReceivePart, AskedPart, BodyPart, StatusPart, AnswerPart, RefusedPart
<1>9. SendPart
  BY <1>2 DEF SendPart, C!Sending
<1>10. LeftPart
  BY <1>2 DEF LeftPart
<1> QED
  BY <1>2, <1>4, <1>5, <1>7, <1>8, <1>9, <1>10 DEF RadioInv, RadioParts, PastShape

\* A step keeps what is remembered, and what was odd once stays so.
LEMMA PastMoves ==
  ASSUME PastShape, C!Next
  PROVE  PastShape' /\ (past.odd => past'.odd)
<1>1. ASSUME NEW name, NEW pc, NEW orders, NEW odd \in BOOLEAN, C!Start(name, pc, orders, odd)
      PROVE  PastShape' /\ (past.odd => past'.odd)
  BY <1>1 DEF C!Start, PastShape
<1>2. C!Sending \in BOOLEAN /\ C!Underway \in BOOLEAN /\ C!Complete \in BOOLEAN
  BY DEF C!Sending, C!Underway, C!Complete
<1>3. ASSUME \/ C!cc1101_reset \/ C!cc1101_init \/ C!Flush \/ C!cc1101_send_calibration_request
             \/ C!cc1101_power_down \/ C!cc1101_config \/ C!cc1101_set_patable
             \/ C!cc1101_enter_rx_mode \/ C!cc1101_enter_fstxon_state \/ C!cc1101_rx_fifo_state
             \/ C!cc1101_tx_fifo_state
      PROVE  PastShape' /\ (past.odd => past'.odd)
  BY <1>1, <1>2, <1>3 DEF C!cc1101_reset, C!cc1101_init, C!Flush, C!cc1101_send_calibration_request,
       C!cc1101_power_down, C!cc1101_config, C!cc1101_set_patable, C!cc1101_enter_rx_mode,
       C!cc1101_enter_fstxon_state, C!cc1101_rx_fifo_state, C!cc1101_tx_fifo_state
<1>4. ASSUME C!cc1101_send_packet PROVE PastShape' /\ (past.odd => past'.odd)
  BY <1>2, <1>4 DEF C!cc1101_send_packet, PastShape
<1>5. ASSUME C!cc1101_receive_packet PROVE PastShape' /\ (past.odd => past'.odd)
  BY <1>2, <1>5 DEF C!cc1101_receive_packet, PastShape
<1>6. ASSUME C!Poll PROVE PastShape' /\ (past.odd => past'.odd)
  BY <1>6 DEF C!Poll, PastShape
<1>7. ASSUME past' = past PROVE PastShape' /\ (past.odd => past'.odd)
  BY <1>7 DEF PastShape
<1>8. ASSUME \/ C!Settle \/ C!PacketComes \/ C!ByteIn \/ C!ByteOut \/ C!Strobe \/ C!AskRx
             \/ C!AskFstxon \/ C!cc1101_enter_tx_mode \/ C!TxBytes \/ C!RxBytes \/ C!Load
             \/ C!Receive \/ C!ReadLength \/ C!ReadBody \/ C!ReadStatus \/ C!Return
      PROVE  past' = past
  BY <1>8 DEF C!Settle, C!PacketComes, C!ByteIn, C!ByteOut, C!Strobe, C!AskRx, C!AskFstxon,
       C!cc1101_enter_tx_mode, C!TxBytes, C!RxBytes, C!Load, C!Receive, C!ReadLength, C!ReadBody,
       C!ReadStatus, C!Return, C!ChipStays
<1> QED
  BY <1>3, <1>4, <1>5, <1>6, <1>7, <1>8 DEF C!Next, C!Call, C!Exchange

LEMMA RadioInvNext == RadioInv /\ [C!Next]_radioVars => RadioInv'
<1>1. SUFFICES ASSUME RadioInv, [C!Next]_radioVars PROVE RadioInv'
  OBVIOUS
<1>2. CASE UNCHANGED radioVars
  <2>1. UNCHANGED <<radio, packets, spi, past>>
    BY <1>2 DEF radioVars
  <2>2. PastShape'
    BY <1>1, <2>1 DEF RadioInv, PastShape
  <2>3. ASSUME RadioParts PROVE RadioParts'
    <3>0. RadioShape /\ TodoPart /\ LeftPart
      BY <2>3 DEF RadioParts
    <3>1. RadioShape' /\ TodoPart' /\ LeftPart'
      <4>1. RadioShape'
        BY <2>1, <3>0 DEF RadioShape
      <4>2. TodoPart'
        BY <2>1, <3>0 DEF TodoPart
      <4>3. LeftPart'
        BY <2>1, <3>0 DEF LeftPart
      <4> QED
        BY <4>1, <4>2, <4>3
    <3>2. StreamPart' /\ HeadPart'
      BY <2>1, <2>3, StreamStays DEF RadioParts, HeadPart
    <3>3. ReceivePart'
      <4>1. ReceivePart
        BY <2>3 DEF RadioParts
      <4>2. AskedPart' /\ BodyPart' /\ StatusPart'
        BY <2>1, <4>1 DEF ReceivePart, AskedPart, BodyPart, StatusPart, Taken
      <4>3. AnswerPart' /\ RefusedPart'
        BY <2>1, <4>1 DEF ReceivePart, AnswerPart, RefusedPart, Taken
      <4> QED
        BY <4>2, <4>3 DEF ReceivePart
    <3>4. SendPart'
      <4>1. C!Sending' <=> C!Sending
        BY <2>1 DEF C!Sending
      <4> QED
        BY <4>1, <2>1, <2>3 DEF RadioParts, SendPart, C!Length
    <3> QED
      BY <3>1, <3>2, <3>3, <3>4 DEF RadioParts
  <2> QED
    BY <1>1, <2>1, <2>2, <2>3 DEF RadioInv
<1>3. CASE C!Next
  <2>1. PastShape /\ PastShape' /\ (past.odd => past'.odd)
    BY <1>1, <1>3, PastMoves DEF RadioInv
  <2>2. SUFFICES ASSUME ~past'.odd PROVE RadioParts'
    BY <2>1 DEF RadioInv
  <2>3. RadioParts
    BY <1>1, <2>1, <2>2 DEF RadioInv
  <2>4. ASSUME C!Settle \/ C!PacketComes \/ C!ByteIn \/ C!ByteOut PROVE RadioParts'
    BY <2>3, <2>4, SettleKeeps, PacketComesKeeps, ByteInKeeps, ByteOutKeeps
  <2>5. ASSUME C!Call PROVE RadioParts'
    BY <2>1, <2>2, <2>3, <2>5, PlainCallsKeep, SendPacketKeeps, ReceivePacketKeeps DEF C!Call
  <2>6. ASSUME C!Exchange PROVE RadioParts'
    BY <2>1, <2>3, <2>6, StrobeKeeps, AskRxKeeps, PollKeeps, BytesKeep, LoadKeeps, ReceiveKeeps,
       ReadLengthKeeps, ReadBodyKeeps, ReadStatusKeeps, ReturnKeeps DEF C!Exchange
  <2> QED
    BY <1>3, <2>4, <2>5, <2>6 DEF C!Next
<1> QED
  BY <1>1, <1>2, <1>3

LEMMA RadioInvGives == RadioInv => C!RadioInStep
<1>1. SUFFICES ASSUME RadioInv, ~past.odd PROVE C!RadioInStep
  BY DEF C!RadioInStep, C!ReceivedWhole, C!SentWhole
<1>2. RadioParts
  BY <1>1 DEF RadioInv
<1>3. RadioShape /\ HeadPart /\ ReceivePart /\ SendPart /\ LeftPart
  BY <1>2 DEF RadioParts
<1>4. C!ReceivedWhole
  <2>1. SUFFICES ASSUME spi.pc = "idle"
                 PROVE  /\ (spi.name = "receive" /\ spi.ret > 0) =>
                             LET p == spi.buffer[1][1] IN
                               /\ spi.buffer = [i \in 1 .. (packets[p].len + 1) |-> <<p, i - 1>>]
                               /\ spi.appended = <<<<p, packets[p].len + 1>>, <<p, packets[p].len + 2>>>>
                               /\ packets[p].ok
                        /\ (spi.name = "receive" /\ spi.ret < 0) => radio.rx = <<>>
                        /\ radio.rx # <<>> => radio.rx[1][2] = 0
    BY DEF C!ReceivedWhole
  <2>2. ASSUME spi.name = "receive", spi.ret > 0
        PROVE  LET p == spi.buffer[1][1] IN
                 /\ spi.buffer = [i \in 1 .. (packets[p].len + 1) |-> <<p, i - 1>>]
                 /\ spi.appended = <<<<p, packets[p].len + 1>>, <<p, packets[p].len + 2>>>>
                 /\ packets[p].ok
    <3>1. PICK p \in 1 .. Len(packets) :
            /\ spi.buffer = [i \in 1 .. (packets[p].len + 1) |-> <<p, i - 1>>]
            /\ packets[p].ok
            /\ spi.appended = <<<<p, packets[p].len + 1>>, <<p, packets[p].len + 2>>>>
      BY <1>3, <2>1, <2>2 DEF ReceivePart, AnswerPart, Taken
    <3>2. packets[p].len \in Nat
      BY <1>3, LengthIs
    <3>3. 1 \in 1 .. (packets[p].len + 1)
      BY <3>2
    <3>4. spi.buffer[1] = <<p, 1 - 1>>
      BY <3>1, <3>3
    <3>5. spi.buffer[1][1] = p
      BY <3>4
    <3> QED
      BY <3>1, <3>5
  <2>3. ASSUME spi.name = "receive", spi.ret < 0 PROVE radio.rx = <<>>
    <3>1. spi.todo = <<>>
      BY <1>2, <2>1 DEF RadioParts, TodoPart
    <3> QED
      BY <3>1, <1>3, <2>1, <2>3 DEF ReceivePart, RefusedPart, C!cc1101_flush_rx_fifo
  <2>4. ASSUME radio.rx # <<>> PROVE radio.rx[1][2] = 0
    <3>1. 1 \in DOMAIN radio.rx
      BY <1>3, <2>4 DEF RadioShape, Chips
    <3>2. Stream # <<>> /\ Stream[1] = radio.rx[1]
      <4>1. /\ 1 \in DOMAIN Stream /\ Stream[1] = radio.rx[1] /\ Stream \in Seq(PacketBytes)
        BY <3>1, <1>3, StreamIs
      <4> QED
        BY <4>1
    <3> QED
      BY <3>2, <1>3, <2>1 DEF HeadPart
  <2> QED
    BY <2>2, <2>3, <2>4
<1>5. C!SentWhole
  BY <1>1, <1>3 DEF C!SentWhole, SendPart, LeftPart
<1> QED
  BY <1>4, <1>5 DEF C!RadioInStep

\* A packet received is handed over whole or not at all, and one sent leaves in one
\* piece: rf.c can rely on cc1101.c for both, whatever comes in while it does.
THEOREM RadioInStepAlways == AllSpec => []RadioInStep
<1>1. AllInit => C!Init
  BY DEF AllInit
<1>2. [AllNext]_allVars => [C!Next]_radioVars
  BY DEF AllNext, allVars, radioVars
<1>3. RadioInStep <=> C!RadioInStep
  BY DEF RadioInStep
<1> QED
  BY <1>1, <1>2, <1>3, RadioInvInit, RadioInvNext, RadioInvGives, PTL DEF AllSpec
=============================================================================
