------------------------------- MODULE Sdmmc -------------------------------
(***************************************************************************)
(* The driver of SD cards over SPI (extdrv/sdmmc.c): the three calls that  *)
(* bring a card up, and the reading and writing of a block.  A command may *)
(* get no answer, data may be garbled on the way, the card may be pulled   *)
(* out and put back, and a handler may want the bus meanwhile.             *)
(***************************************************************************)
EXTENDS Integers, Sequences

CONSTANTS
  BlockSizes,           \* what mmc.block_size may be set to before init_end
  MMC_MAX_SECTOR_SIZE,
  Blocks,               \* the card holds blocks 0 .. Blocks - 1
  MaxRequests,          \* bound: calls
  MaxPulls              \* bound: times the card is pulled out

\* The powers of two up to n: of their divisors only 1 is odd.
PowersOfTwo(n) == {p \in 1 .. n : \A d \in 2 .. p : p % d = 0 => d % 2 = 0}

SdmmcAssumption ==
  /\ MMC_MAX_SECTOR_SIZE \in Nat /\ MMC_MAX_SECTOR_SIZE \in PowersOfTwo(MMC_MAX_SECTOR_SIZE)
  /\ BlockSizes \subseteq Nat \ {0}
  /\ Blocks \in Nat \ {0} /\ MaxRequests \in Nat /\ MaxPulls \in Nat

VARIABLES
  mmc,    \* struct sdmmc_card
  card,   \* the card: its kind, its state, whether it is selected, its blocks
  mutex,  \* who holds the bus: "none", "mmc" or "other"
  req,    \* the call under way, or the last one
  spent   \* calls and pulls so far, whether the last init_end reported success

vars == <<mmc, card, mutex, req, spent>>

NoRequest == [pc |-> "idle", name |-> "none", todo |-> <<>>, n |-> 0, ret |-> "none", got |-> -1]

Init ==
  /\ \E size \in BlockSizes : mmc = [type |-> "unknown", block_size |-> size, unit |-> 0]
  /\ \E hc \in BOOLEAN :
       card = [hc |-> hc, st |-> "off", selected |-> FALSE, data |-> [n \in 0 .. Blocks - 1 |-> 0]]
  /\ mutex = "none"
  /\ req = NoRequest
  /\ spent = [calls |-> 0, pulls |-> 0, up |-> FALSE]

-----------------------------------------------------------------------------
(* The rest of the board, and the card, external.                          *)

\* A handler that uses the bus for another device when it gets the mutex.
OtherTakes    == mutex = "none" /\ mutex' = "other" /\ UNCHANGED <<mmc, card, req, spent>>
OtherReleases == mutex = "other" /\ mutex' = "none" /\ UNCHANGED <<mmc, card, req, spent>>

Pull ==
  /\ spent.pulls < MaxPulls
  /\ card' = [card EXCEPT !.st = "off"]
  /\ spent' = [spent EXCEPT !.pulls = @ + 1]
  /\ UNCHANGED <<mmc, mutex, req>>

\* The answers to a command: none, an error, idle, or none of these.
Answers(cmd) ==
  {"silent", "error"} \cup
  CASE cmd = "GO_IDLE_STATE" -> {"idle"}
    [] cmd \in {"SEND_IF_COND", "READ_OCR", "APP_CMD"} ->
         IF card.st = "idle" THEN {"idle"} ELSE IF card.st = "ready" THEN {"ok"} ELSE {}
    [] cmd = "SD_SEND_OP_COND" -> IF card.st = "off" THEN {} ELSE {"idle", "ok"}
    [] OTHER -> IF card.st = "ready" THEN {"ok"} ELSE {}

CardAfter(cmd, r1) ==
  CASE cmd = "GO_IDLE_STATE" /\ r1 = "idle" -> [card EXCEPT !.st = "idle"]
    [] cmd = "SD_SEND_OP_COND" /\ r1 = "ok" -> [card EXCEPT !.st = "ready"]
    [] OTHER -> card

\* The block of the card an address stands for.
At(address) == IF card.hc THEN address ELSE address \div mmc.block_size

-----------------------------------------------------------------------------
(* The calls.  They take the mutex, whether they get it or not; here they  *)
(* are not made from a handler that interrupts another user of the bus.    *)

Begin(name, todo, n) ==
  /\ req.pc = "idle" /\ spent.calls < MaxRequests /\ mutex # "other"
  /\ mutex' = "mmc"
  /\ card' = [card EXCEPT !.selected = TRUE]
  /\ req' = [NoRequest EXCEPT !.pc = "command", !.name = name, !.todo = todo, !.n = n]
  /\ spent' = [spent EXCEPT !.calls = @ + 1, !.up = @ /\ name \in {"read", "write"}]

sdmmc_init ==
  /\ Begin("init", <<"GO_IDLE_STATE", "SEND_IF_COND", "READ_OCR", "APP_CMD", "SD_SEND_OP_COND">>, 0)
  /\ mmc' = [mmc EXCEPT !.type = "unknown"]

sdmmc_init_wait_card_ready ==
  Begin("wait", <<"APP_CMD", "SD_SEND_OP_COND">>, 0) /\ UNCHANGED mmc

\* The block size is brought down to a power of two the card can do.  unit is
\* 1 << block_shift, and HighestBit 1 << (31 - clz(size)).
HighestBit(size) == CHOOSE p \in PowersOfTwo(size) : \A q \in PowersOfTwo(size) : q <= p
Normalised(size) == IF size > MMC_MAX_SECTOR_SIZE THEN MMC_MAX_SECTOR_SIZE ELSE HighestBit(size)

sdmmc_init_end ==
  /\ Begin("end", IF mmc.type = "SDV2_SC" THEN <<"READ_OCR", "SET_BLOCKLEN">> ELSE <<"SET_BLOCKLEN">>, 0)
  /\ UNCHANGED mmc

\* -EINVAL for a card of unknown type.  Data calls follow a successful init_end.
sdmmc_read_block ==
  /\ mmc.type # "unknown" /\ spent.up
  /\ \E n \in 0 .. Blocks - 1 : Begin("read", <<"READ_SINGLE_BLOCK">>, n)
  /\ UNCHANGED mmc

sdmmc_write_block ==
  /\ mmc.type # "unknown" /\ spent.up
  /\ \E n \in 0 .. Blocks - 1 : Begin("write", <<"WRITE_SINGLE_BLOCK">>, n)
  /\ UNCHANGED mmc

-----------------------------------------------------------------------------
(* sdmmc_send_command and what the calls make of its answer.               *)

Address(n) == IF mmc.type = "SDV2_HC" THEN n ELSE n * mmc.unit

\* Mutant: only a card that does not answer at all fails a command.
FailsSilent(r1) == r1 = "silent"
\* r1 beyond MMC_R1_IN_IDLE_STATE, 0xFF included.
Fails(r1) == r1 \in {"silent", "error"}

Release(ret) == req' = [req EXCEPT !.pc = "release", !.ret = ret]

TypeAfter(cmd, r1) ==
  CASE req.name = "init" /\ cmd = "SEND_IF_COND" -> IF r1 = "idle" THEN "SDV2_SC" ELSE "SDV1"
    [] req.name = "end" /\ cmd = "READ_OCR" ->
         IF card.hc /\ card.st = "ready" THEN "SDV2_HC" ELSE "SDV2_SC"
    [] OTHER -> mmc.type

\* An answer of SEND_IF_COND may be the wrong one; SD_SEND_OP_COND is not sent
\* when the command before it failed.
sdmmc_send_command ==
  /\ req.pc = "command" /\ req.todo # <<>>
  /\ LET cmd == Head(req.todo)
         size == Normalised(mmc.block_size) IN
     \E r1 \in Answers(cmd) :
       /\ card' = CardAfter(cmd, r1)
       /\ IF Fails(r1)
          THEN \/ /\ cmd = "SET_BLOCKLEN"
                  /\ mmc' = [type |-> "unknown", block_size |-> size, unit |-> HighestBit(size)]
                  /\ Release("ok")
               \/ cmd # "SET_BLOCKLEN" /\ Release("error") /\ UNCHANGED mmc
          ELSE \/ /\ mmc' = IF cmd = "SET_BLOCKLEN"
                            THEN [mmc EXCEPT !.block_size = size, !.unit = HighestBit(size)]
                            ELSE [mmc EXCEPT !.type = TypeAfter(cmd, r1)]
                  /\ req' = [req EXCEPT !.todo = Tail(@), !.ret = r1]
               \/ cmd = "SEND_IF_COND" /\ r1 = "idle" /\ Release("error") /\ UNCHANGED mmc
  /\ UNCHANGED <<mutex, spent>>

\* After the last command; sdmmc_init_wait_card_ready returns its answer.
sdmmc_send_app_command ==
  /\ req.pc = "command" /\ req.todo = <<>> /\ req.name \in {"init", "wait", "end"}
  /\ Release(IF req.name = "wait" THEN req.ret ELSE "ok")
  /\ UNCHANGED <<mmc, card, mutex, spent>>

-----------------------------------------------------------------------------
(* The data.  What a block holds is the number of the call that wrote it.  *)

There == At(Address(req.n)) \in 0 .. Blocks - 1

\* The start token, the block, its CRC, and the bus at rest again.  The token or
\* the rest may fail to come, and the block may be garbled on the way.
CrcDiffers(garbled) == garbled
ReadData ==
  /\ req.pc = "command" /\ req.name = "read" /\ req.todo = <<>>
  /\ \/ Release("error")
     \/ /\ There /\ card.st = "ready"
        /\ \E garbled \in BOOLEAN :
             req' = [req EXCEPT !.pc = "release", !.ret = IF CrcDiffers(garbled) THEN "error" ELSE "ok",
                       !.got = IF garbled THEN -1 ELSE card.data[At(Address(req.n))]]
  /\ UNCHANGED <<mmc, card, mutex, spent>>

\* The block is sent; the card stores it and says so, refuses it, or its answer
\* is lost.
Responses == IF There /\ card.st = "ready" THEN {"ok", "crc", "error", "none"} ELSE {"error", "none"}
WriteData ==
  /\ req.pc = "command" /\ req.name = "write" /\ req.todo = <<>>
  /\ \E response \in Responses : \E stored \in {response = "ok", response = "ok" \/ (response = "none" /\ There)} :
       /\ card' = IF stored THEN [card EXCEPT !.data[At(Address(req.n))] = spent.calls] ELSE card
       /\ req' = [req EXCEPT !.pc = IF response = "ok" THEN "busy" ELSE "release",
                    !.ret = IF response = "ok" THEN "ok" ELSE "error"]
  /\ UNCHANGED <<mmc, mutex, spent>>

\* The card is busy with the block; it may be for too long.
sdmmc_wait_for_ready ==
  /\ req.pc = "busy"
  /\ \E ret \in {"ok", "error"} : Release(ret)
  /\ UNCHANGED <<mmc, card, mutex, spent>>

release_bus ==
  /\ req.pc = "release"
  /\ card' = [card EXCEPT !.selected = FALSE]
  /\ mutex' = "none"
  /\ req' = [req EXCEPT !.pc = "idle"]
  /\ spent' = [spent EXCEPT !.up = @ \/ (req.name = "end" /\ req.ret = "ok")]
  /\ UNCHANGED mmc

Next ==
  \/ OtherTakes \/ OtherReleases \/ Pull
  \/ sdmmc_init \/ sdmmc_init_wait_card_ready \/ sdmmc_init_end
  \/ sdmmc_read_block \/ sdmmc_write_block
  \/ sdmmc_send_command \/ sdmmc_send_app_command
  \/ ReadData \/ WriteData \/ sdmmc_wait_for_ready \/ release_bus

Spec == Init /\ [][Next]_vars

-----------------------------------------------------------------------------
(* Properties.                                                             *)

\* A call for block n that returns 0 was about block n of the card: the buffer
\* holds its contents, the card holds the buffer.  So it is for a small card,
\* which is given bytes to count, and a large one, which counts in blocks,
\* whichever commands failed while it was brought up, as long as init_end
\* returned 0 last.
BlockRight ==
  (req.pc = "idle" /\ req.ret = "ok") =>
    /\ req.name = "read" => req.got = card.data[req.n]
    /\ req.name = "write" => card.data[req.n] = spent.calls

\* The card is selected only by a call that holds the bus, and no error path
\* leaves it selected or the bus taken.
BusGivenBack == (mutex = "mmc" <=> req.pc # "idle") /\ (card.selected <=> req.pc # "idle")

CardSound == BlockRight /\ BusGivenBack
=============================================================================
