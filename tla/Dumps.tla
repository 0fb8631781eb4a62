------------------------------- MODULE Dumps --------------------------------
(***************************************************************************)
(* The tools that print what a board wrote to an SD card                   *)
(* (host/sd_translate and host/sd_robotgrow): a dump is read block by      *)
(* block into one buffer, checked by its magics and printed.  A read may   *)
(* fail or, at the end of the dump, be short.                              *)
(***************************************************************************)
EXTENDS Integers, Sequences, SequencesExt

CONSTANTS
  MaxBlocks, \* the longest dump
  OnCard     \* blocks there are: [magic, records], the magic "index", "data" or "other"

BlockSize == 512
RecordSize == 32
HeadSize == 64

VARIABLES
  image, \* the blocks of the dump
  tool,  \* its name, where it is, and whether it prints blocks without the magic
  data,  \* mmc_data, mmc_block_num, the place in the dump and the answer of the last read
  shown  \* what was printed: the block's number and its records

Init ==
  /\ \E n \in 0 .. MaxBlocks : image \in [1 .. n -> OnCard]
  /\ tool \in [name : {"translate", "robotgrow"}, pc : {"check"}, invalid : BOOLEAN]
  /\ data = [block |-> [magic |-> "none", records |-> <<>>], num |-> 0, at |-> 0, ret |-> 0]
  /\ shown = <<>>

\* The outcomes of a read; only a whole block counts.  A failed read leaves the place.
Read ==
  LET left == SubSeq(image, data.at + 1, Len(image)) IN
  { [data EXCEPT !.ret = -1] }
    \union (IF left = <<>> THEN {} ELSE
            { [data EXCEPT !.block = left[1], !.num = @ + 1, !.at = @ + 1, !.ret = 0] })

Quits == tool' = [tool EXCEPT !.pc = "ended"] /\ UNCHANGED shown
Goes == tool' = [tool EXCEPT !.pc = "dump"] /\ UNCHANGED shown

\* sd_translate skips the block in front of the index.
IndexAt == IF tool.name = "translate" THEN 2 ELSE 1

check_dump_valid ==
  /\ tool.pc = "check"
  /\ data' \in Read
  /\ IF data'.ret < 0 THEN Quits
     ELSE IF data'.num < IndexAt THEN UNCHANGED <<tool, shown>>
     ELSE IF data'.block.magic = "index" THEN Goes ELSE Quits
  /\ UNCHANGED image

\* The records from behind the head to the last whole one.
NbRecords == 1 + (BlockSize - RecordSize - HeadSize) \div RecordSize
Printed(d) == [num |-> d.num - 1, records |-> [i \in 1 .. NbRecords |-> d.block.records[i]]]

Prints(d) == d.block.magic = "data" \/ tool.invalid

dump_block ==
  /\ tool.pc = "dump"
  /\ data' \in Read
  /\ IF data'.ret < 0 THEN Quits
     ELSE /\ shown' = IF Prints(data') THEN Append(shown, Printed(data')) ELSE shown
          /\ UNCHANGED tool
  /\ UNCHANGED image

Next == check_dump_valid \/ dump_block

-----------------------------------------------------------------------------
\* What is printed is the data blocks behind the index, or all when that was
\* asked for, once each in their order, with their place in the dump and all of
\* their records; nothing without an index (sd_robotgrow main.c:153, 203).
Behind == { i \in IndexAt + 1 .. Len(image) : image[i].magic = "data" \/ tool.invalid }
DumpRight ==
  /\ tool.pc = "check" => shown = <<>>
  /\ shown # <<>> => image[IndexAt].magic = "index"
  /\ tool.pc = "dump" \/ shown # <<>> =>
       { s.num + 1 : s \in Range(shown) } = { i \in Behind : i <= data.at }
  /\ \A i, j \in DOMAIN shown : i < j => shown[i].num < shown[j].num
  /\ \A s \in Range(shown) : s.records = image[s.num + 1].records
=============================================================================
