------------------------------- MODULE MCPure -------------------------------
(***************************************************************************)
(* The parts that meet no other in what is checked of them, for TLC: the   *)
(* length of rf_data's lines (RfMessage), its cipher, the library, the     *)
(* sensors read a bit or a count at a time, the flash, and the programs on *)
(* the host.  A behaviour is one of one part; the others are off.          *)
(***************************************************************************)
EXTENDS RfMessage, Sequences

CONSTANTS
  FlashAddrs, FlashPages, Streams, Colors, Temperatures, Humidities,
  Keys, PlainLines, Formats, Messages, SlavePackets, DumpBlocks, PairCounts

VARIABLES
  part,
  aes, damaged, code, print, mem, dht, leds, thermo, light,
  ws2812, strip, image, flash, iap, ram,
  prog, time, link, rx, kept, out, links, order, walk, dump, tool, data, shown

A == INSTANCE Aes WITH Lines <- PlainLines
C == INSTANCE Codes WITH Starts <- {0, 65535, 7439}
T == INSTANCE Text WITH Sizes <- {1, 4, 12, 16}
M == INSTANCE Memory WITH Cells <- 5, Word <- 2, Bytes <- {0, 1, 200}, Counts <- {0, 1, 3}
L == INSTANCE List WITH Entries <- 1 .. 3, Anchor <- 0, NULL <- 4
D == INSTANCE Dht11 WITH Readings <- Humidities, Delays <- {10, 40, 80, 100}, Epsilons <- {0, 1}
R == INSTANCE Readings WITH Raw <- Temperatures, Packages <- {"T", "C"}, Counts <- PairCounts
X == INSTANCE Pixels WITH NB_LEDS <- 3, ImageSize <- 6
F == INSTANCE Flash WITH NbSector <- 12, Addrs <- FlashAddrs, WordMod <- 8, Pages <- FlashPages, Vars <- {1, 2}
B == INSTANCE Bridge WITH Period <- 2, Sleep <- 3, MaxTime <- 4, MaxLink <- 2, MaxPackets <- 3,
                          Kinds <- {"T", "A"}, FromSlave <- SlavePackets
U == INSTANCE Dumps WITH MaxBlocks <- 4, OnCard <- DumpBlocks, image <- dump

Parts == {"message", "aes", "codes", "text", "memory", "list", "dht11", "readings",
          "pixels", "flash", "bridge", "dumps"}

Off == "off"
MCInit ==
  /\ part \in Parts
  /\ Init
  /\ IF part = "aes" THEN A!Init ELSE aes = Off /\ damaged = Off
  /\ IF part = "codes" THEN C!Init ELSE code = Off
  /\ IF part = "text" THEN T!Init ELSE print = Off
  /\ IF part = "memory" THEN M!Init ELSE mem = Off
  /\ IF part = "list" THEN L!Init ELSE links = Off /\ order = Off /\ walk = Off
  /\ IF part = "dht11" THEN D!Init ELSE dht = Off /\ leds = Off
  /\ IF part = "readings" THEN R!Init ELSE thermo = Off /\ light = Off
  /\ IF part = "pixels" THEN X!Init ELSE ws2812 = Off /\ strip = Off /\ image = Off
  /\ IF part = "flash" THEN F!Init ELSE flash = Off /\ iap = Off /\ ram = Off
  /\ IF part = "bridge" THEN B!Init
     ELSE prog = Off /\ time = Off /\ link = Off /\ rx = Off /\ kept = Off /\ out = Off
  /\ IF part = "dumps" THEN U!Init ELSE dump = Off /\ tool = Off /\ data = Off /\ shown = Off

\* A part moves alone.
Only(p) ==
  /\ part = p /\ UNCHANGED part
  /\ p # "message" => UNCHANGED uart_ptr
  /\ p # "aes" => UNCHANGED <<aes, damaged>>
  /\ p # "codes" => UNCHANGED code
  /\ p # "text" => UNCHANGED print
  /\ p # "memory" => UNCHANGED mem
  /\ p # "list" => UNCHANGED <<links, order, walk>>
  /\ p # "dht11" => UNCHANGED <<dht, leds>>
  /\ p # "readings" => UNCHANGED <<thermo, light>>
  /\ p # "pixels" => UNCHANGED <<ws2812, strip, image>>
  /\ p # "flash" => UNCHANGED <<flash, iap, ram>>
  /\ p # "bridge" => UNCHANGED <<prog, time, link, rx, kept, out>>
  /\ p # "dumps" => UNCHANGED <<dump, tool, data, shown>>

MCNext ==
  \/ Only("message") /\ Next
  \/ Only("aes") /\ A!Next
  \/ Only("codes") /\ C!Next
  \/ Only("text") /\ T!Next
  \/ Only("memory") /\ M!Next
  \/ Only("list") /\ L!Next
  \/ Only("dht11") /\ D!Next
  \/ Only("readings") /\ R!Next
  \/ Only("pixels") /\ X!Next
  \/ Only("flash") /\ F!Next
  \/ Only("bridge") /\ B!Next
  \/ Only("dumps") /\ U!Next

\* What a line goes through on its way over the air comes back (aes.c).
CipherSound == part = "aes" => A!CipherSound

\* The functions everything else is built on: CRCs and counts of bits,
\* formatted output, memory and lists (src/lib, list.h).
LibrarySound ==
  /\ part = "codes" => C!CodesSound
  /\ part = "text" => T!TextSound
  /\ part = "memory" => M!MemorySound
  /\ part = "list" => L!ListSound

\* What the sensors say and what pixels and screens are told is what the
\* program gets and what they show (dht11.c, max31855_thermo.c,
\* tsl256x_light_sensor.c, ws2812.c).
ReadingsSound ==
  /\ part = "dht11" => D!ReadingRight
  /\ part = "readings" => R!ReadingsSound
  /\ part = "pixels" => X!PixelsSound

\* Programming changes what it was asked to, and what starts is whole (iap.c).
FlashSound == part = "flash" => F!FlashSound

\* The host's programs date and print what the boards sent (src/host).
HostSound ==
  /\ part = "bridge" => B!BridgeSound
  /\ part = "dumps" => U!DumpRight

-----------------------------------------------------------------------------
(* The instance.                                                           *)

Block(a) == <<<<a, 126, 21, 22>>, <<40, 174, a, 166>>, <<171, 247, 21, 136>>, <<9, 207, 79, (a * 7) % 256>>>>
MCKeys == {Block(0), Block(43)}
MCLines == {<<>>, <<Block(1)>>, <<Block(255), Block(2), Block(2), Block(200)>>}

MCMessages ==
  { <<a, b, c, d>> : a, b, d \in {0, 1, 128}, c \in {0, 5} }
    \union { <<b, a, 10, d>> : b \in {0, 10}, a \in {1, 16}, d \in {0, 4} }
    \union { <<255, 0, c>> : c \in 0 .. 63 }
    \union {<<49, 50, 51, 52, 53, 54, 55, 56, 57>>}

Item(kind, text, flags, width, num) ==
  [kind |-> kind, text |-> text, flags |-> flags, width |-> width, num |-> num]
Char(c) == Item("char", <<c>>, {}, 0, 0)
String(s) == Item("string", s, {}, 0, 0)
Number(flags, width, n) == Item("number", <<>>, flags, width, n)
Unsigned == { Number(f \union g, w, n) :
                f \in {{}, {"HEXA"}, {"HEXA", "LOWERCASE"}}, g \in {{}, {"ZEROPAD"}, {"SPECIAL"}},
                w \in {0, 4}, n \in {0, 7, 26, 171, 12345} }
WithSign == { Number({"SIGNED"} \union g, w, n) :
                g \in {{}, {"ZEROPAD"}, {"SIGN"}, {"SPACE"}}, w \in {0, 4}, n \in {0, 7, -26, 12345} }
Second == {Number({"SIGNED"}, 0, -26), Number({"HEXA"}, 4, 171)}
MCFormats ==
  { <<String(<<"t", "=">>), n>> : n \in Unsigned \union WithSign }
    \union { <<n, Char(","), m, String(<<"o", "k">>)>> : n \in Unsigned \union WithSign, m \in Second }
    \union {<<>>, <<Char("a"), String(<<"b", "c", "d">>), Char("e")>>}

MCHumidities == {<<45, 0, 23, 0>>, <<255, 1, 128, 7>>}
MCTemperatures == [quarters : {0, 1, -1, 8191, -8192}, fault : BOOLEAN]
MCPairs == {0, 1, 20, 77, 100, 399, 1000, 2000}

MCColors == {<<1, 2, 3>>, <<9, 0, 0>>}
MCStreams == { <<a, 1, 2, b, 3, 4, c, 5, 6, 7>> : a, b, c \in -2 .. 2 }

MCAddrs == {0, 12284, 49152}
MCPages == { [vec |-> <<1, 3, 1, 1, 0, 0, b, 5>>, crp |-> c, data |-> [v \in {1, 2} |-> v]] :
               b \in {0, 2}, c \in BOOLEAN }

Packet(type, kind, error, quick, words, broken) ==
  [type |-> type, kind |-> kind, error |-> error, quick |-> quick, words |-> words, broken |-> broken]
MCPackets ==
  {Packet("data", "T", FALSE, FALSE, 2, FALSE), Packet("data", "T", FALSE, TRUE, 1, FALSE),
   Packet("data", "A", FALSE, FALSE, 2, FALSE), Packet("data", "A", FALSE, FALSE, 1, TRUE),
   Packet("data", "T", TRUE, TRUE, 0, FALSE)}

MCBlocks == [magic : {"index", "data", "other"}, records : {[i \in 1 .. 14 |-> i], [i \in 1 .. 14 |-> 0]}]
=============================================================================
