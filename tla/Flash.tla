-------------------------------- MODULE Flash -------------------------------
(***************************************************************************)
(* Programming the flash from the program itself (core/iap.c), through the *)
(* routines in ROM (core/rom_helpers.c), and what a reset makes of it      *)
(* (core/bootstrap.c).  A sector has one page here: its vectors, the word  *)
(* of code protection and the initial values of variables.                 *)
(***************************************************************************)
EXTENDS Integers, Sequences, FiniteSets

CONSTANTS
  NbSector,  \* the sectors of the part
  Addrs,     \* the addresses callers pass
  WordMod,   \* words are counted modulo 2^32, here less
  Pages,     \* the pages there may be to write: [vec, crp, data], vec of eight words
  Vars       \* the words of data, with an initial value, and of bss

Sectors == 0 .. NbSector - 1
Blank == [vec |-> <<>>, crp |-> FALSE, data |-> [v \in Vars |-> -1]]

VARIABLES
  flash, \* what each sector holds, and which sectors are prepared
  iap,   \* the call under way, the status of the last one, and the flash before it
  ram    \* the variables, and the routine in Reset_Handler

-----------------------------------------------------------------------------
(* The ROM: a sector has to be prepared for each call that changes it, and *)
(* be blank to be written.                                                 *)

iap_prepare_flash(s, called) ==
  IF s \in Sectors
  THEN /\ flash' = [flash EXCEPT !.prepared = {s}]
       /\ iap' = called
  ELSE /\ iap' = [called EXCEPT !.pc = "idle", !.status = "invalid sector"]
       /\ UNCHANGED flash

\* The other routines run with interrupts off: a step each.
RomEnds(status) == iap' = [iap EXCEPT !.pc = "idle", !.status = status]

iap_erase_flash_sectors(s) ==
  IF s \in flash.prepared
  THEN /\ flash' = [prepared |-> {}, held |-> [flash.held EXCEPT ![s] = Blank]]
       /\ RomEnds("ok")
  ELSE UNCHANGED flash /\ RomEnds("not prepared")

iap_copy_ram_to_flash(addr, page) ==
  LET s == addr \div 4096 IN
  IF s \in flash.prepared
  THEN /\ flash' = [prepared |-> {}, held |-> [flash.held EXCEPT ![s] = IF @ = Blank THEN page ELSE @]]
       /\ RomEnds(IF flash.held[s] = Blank THEN "ok" ELSE "compare error")
  ELSE UNCHANGED flash /\ RomEnds("not prepared")

-----------------------------------------------------------------------------
(* The helpers of iap.c.                                                   *)

\* From sector 16 on sectors of 32 kB are assumed.
get_sector_number(addr) ==
  LET sector == addr \div 4096 IN IF sector >= 16 THEN 14 + sector \div 8 ELSE sector

Running == ram.pc = "main"

Sum(vec) == (vec[1] + vec[2] + vec[3] + vec[4] + vec[5] + vec[6] + vec[7]) % WordMod
Summed(page) == [page EXCEPT !.vec[8] = (WordMod - Sum(page.vec)) % WordMod]

\* The first page gets its checksum.
CheckedNot(page) == page
Checked(page) == Summed(page)

\* Both helpers prepare the sector first; interrupts may come in between, but
\* none of them uses the ROM.
Prepare(fn, addr, page) ==
  iap_prepare_flash(get_sector_number(addr),
                    [iap EXCEPT !.pc = fn, !.addr = addr, !.page = page, !.before = flash.held])

flash_erase_sector ==
  /\ Running /\ iap.pc = "idle"
  /\ \E addr \in Addrs : Prepare("erase", addr, Blank)
  /\ UNCHANGED ram

\* A first page that would protect the code is refused.
flash_program_page ==
  /\ Running /\ iap.pc = "idle"
  /\ \E addr \in Addrs, page \in Pages :
       IF addr = 0 /\ page.crp
       THEN iap' = [iap EXCEPT !.status = "refused"] /\ UNCHANGED flash
       ELSE Prepare("program", addr, IF addr = 0 THEN Checked(page) ELSE page)
  /\ UNCHANGED ram

Erase ==
  /\ iap.pc = "erase"
  /\ iap_erase_flash_sectors(get_sector_number(iap.addr))
  /\ UNCHANGED ram
Program ==
  /\ iap.pc = "program"
  /\ iap_copy_ram_to_flash(iap.addr, iap.page)
  /\ UNCHANGED ram

-----------------------------------------------------------------------------
(* Reset.                                                                  *)

Valid(page) == page.vec # <<>> /\ (Sum(page.vec) + page.vec[8]) % WordMod = 0

\* A reset at any time: the ROM starts the program when the eight vectors add
\* up to zero, and waits to be loaded otherwise.  Memory holds anything.
Reset ==
  /\ ram' = [pc |-> IF Valid(flash.held[0]) THEN "data" ELSE "isp",
             data |-> [v \in Vars |-> -2], bss |-> [v \in Vars |-> -2], left |-> Vars]
  /\ iap' = [iap EXCEPT !.pc = "idle", !.status = "none"]
  /\ flash' = [flash EXCEPT !.prepared = {}]

\* Reset_Handler, a word at a time: data from behind the text, then bss.
Copied(v) == flash.held[0].data[v]
Reset_Handler ==
  /\ iap.pc = "idle"
  /\ \/ /\ ram.pc = "data" /\ ram.left # {}
        /\ \E v \in ram.left : ram' = [ram EXCEPT !.data[v] = Copied(v), !.left = @ \ {v}]
     \/ /\ ram.pc = "data" /\ ram.left = {}
        /\ ram' = [ram EXCEPT !.pc = "bss", !.left = Vars]
     \/ /\ ram.pc = "bss" /\ ram.left # {}
        /\ \E v \in ram.left : ram' = [ram EXCEPT !.bss[v] = 0, !.left = @ \ {v}]
     \/ /\ ram.pc = "bss" /\ ram.left = {}
        /\ ram' = [ram EXCEPT !.pc = "main"]
  /\ UNCHANGED <<flash, iap>>

-----------------------------------------------------------------------------
\* The board comes blank or with a program whose vectors a tool has summed.
Init ==
  /\ \E page \in Pages : flash = [prepared |-> {}, held |-> [s \in Sectors |->
                                    IF s = 0 /\ ~ page.crp THEN Summed(page) ELSE Blank]]
  /\ iap = [pc |-> "idle", status |-> "none", addr |-> 0, page |-> Blank, before |-> flash.held]
  /\ ram = [pc |-> "isp", data |-> [v \in Vars |-> -2], bss |-> [v \in Vars |-> -2], left |-> {}]

Next == flash_erase_sector \/ flash_program_page \/ Erase \/ Program \/ Reset \/ Reset_Handler

-----------------------------------------------------------------------------
(* Properties.                                                             *)

\* A call changes the sector of 4 kB its address is in and no other, and one
\* that ends well leaves there what it was asked for (iap.c:58, 73).
OwnSectorOnly ==
  LET own == iap.addr \div 4096 IN
  /\ \A s \in Sectors \ {own} : iap.pc # "idle" \/ iap.status # "none" => flash.held[s] = iap.before[s]
  /\ iap.status = "ok" /\ iap.pc = "idle" => flash.held[own] = iap.page

\* Whatever is written, at any point of it, the first sector is blank or starts
\* a program, and never protects the code (iap.c:79).
FirstSectorStarts ==
  \/ flash.held[0] = Blank
  \/ Valid(flash.held[0]) /\ ~ flash.held[0].crp

\* main runs with every variable at its initial value in the image, or zero
\* (bootstrap.c:137).
VariablesSet ==
  /\ ram.pc = "bss" => ram.data = flash.held[0].data
  /\ ram.pc = "main" => \A v \in Vars : ram.bss[v] = 0 /\ ram.data[v] # -2

FlashSound == OwnSectorOnly /\ FirstSectorStarts /\ VariablesSet
=============================================================================
