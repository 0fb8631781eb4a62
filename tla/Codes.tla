------------------------------- MODULE Codes -------------------------------
(***************************************************************************)
(* The codes and bit counts of the library: the CRC of the blocks of an SD *)
(* card (lib/crc_ccitt.c), the CRC of its commands (extdrv/sdmmc.c), and   *)
(* the bit counts of lib/utils.c.  A word of 32 bits is its four bytes,    *)
(* the highest first.                                                      *)
(***************************************************************************)
EXTENDS Integers, Bitwise, Sequences, SequencesExt

CONSTANTS
  Messages,  \* the data there may be, sequences of bytes
  Starts     \* the values a CRC may start with

VARIABLES code  \* the data, the number of bytes taken, both CRCs and the word counted

\* Bit b of a number.
Bit(n, b) == (n \div 2^b) % 2

crc_ccitt_table ==
  <<0, 4129, 8258, 12387, 16516, 20645, 24774, 28903, 33032, 37161, 41290, 45419, 49548, 53677, 57806, 61935,
    4657, 528, 12915, 8786, 21173, 17044, 29431, 25302, 37689, 33560, 45947, 41818, 54205, 50076, 62463, 58334,
    9314, 13379, 1056, 5121, 25830, 29895, 17572, 21637, 42346, 46411, 34088, 38153, 58862, 62927, 50604, 54669,
    13907, 9842, 5649, 1584, 30423, 26358, 22165, 18100, 46939, 42874, 38681, 34616, 63455, 59390, 55197, 51132,
    18628, 22757, 26758, 30887, 2112, 6241, 10242, 14371, 51660, 55789, 59790, 63919, 35144, 39273, 43274, 47403,
    23285, 19156, 31415, 27286, 6769, 2640, 14899, 10770, 56317, 52188, 64447, 60318, 39801, 35672, 47931, 43802,
    27814, 31879, 19684, 23749, 11298, 15363, 3168, 7233, 60846, 64911, 52716, 56781, 44330, 48395, 36200, 40265,
    32407, 28342, 24277, 20212, 15891, 11826, 7761, 3696, 65439, 61374, 57309, 53244, 48923, 44858, 40793, 36728,
    37256, 33193, 45514, 41451, 53516, 49453, 61774, 57711, 4224, 161, 12482, 8419, 20484, 16421, 28742, 24679,
    33721, 37784, 41979, 46042, 49981, 54044, 58239, 62302, 689, 4752, 8947, 13010, 16949, 21012, 25207, 29270,
    46570, 42443, 38312, 34185, 62830, 58703, 54572, 50445, 13538, 9411, 5280, 1153, 29798, 25671, 21540, 17413,
    42971, 47098, 34713, 38840, 59231, 63358, 50973, 55100, 9939, 14066, 1681, 5808, 26199, 30326, 17941, 22068,
    55628, 51565, 63758, 59695, 39368, 35305, 47498, 43435, 22596, 18533, 30726, 26663, 6336, 2273, 14466, 10403,
    52093, 56156, 60223, 64286, 35833, 39896, 43963, 48026, 19061, 23124, 27191, 31254, 2801, 6864, 10931, 14994,
    64814, 60687, 56684, 52557, 48554, 44427, 40424, 36297, 31782, 27655, 23652, 19525, 15522, 11395, 7392, 3265,
    61215, 65342, 53085, 57212, 44955, 49082, 36825, 40952, 28183, 32310, 20053, 24180, 11923, 16050, 3793, 7920>>

-----------------------------------------------------------------------------
(* The CRCs, over the bytes of one call.                                   *)

\* The table taken at the low byte.
CrcOfLow(start, buf) ==
  LET Byte(crc, b) == ((crc * 256) % 65536) ^^ crc_ccitt_table[((crc % 256) ^^ b) + 1]
  IN  FoldLeft(Byte, start, buf)
crc_ccitt(start, buf) ==
  LET Byte(crc, b) ==
        ((crc * 256) % 65536) ^^ crc_ccitt_table[((crc \div 256) ^^ b) + 1]
  IN  FoldLeft(Byte, start, buf)

\* Bit 7 of crc stays until it is shifted out by the next bit or the last shift.
sdmmc_crc7(data) ==
  LET OneBit(crc, bit) ==
        LET shifted == (2 * crc) % 256
        IN  IF bit # Bit(shifted, 7) THEN shifted ^^ 9 ELSE shifted
      Byte(crc, b) == FoldLeft(LAMBDA c, i : OneBit(c, Bit(b, i)), crc, <<7, 6, 5, 4, 3, 2, 1, 0>>)
  IN  ((2 * FoldLeft(Byte, 0, data)) % 256) + 1

-----------------------------------------------------------------------------
(* Bit counts.                                                             *)

\* The four bits from bit b of the word.
Nibble(x, b) == (x[4 - b \div 8] \div 2^(b % 8)) % 16

\* By halves, quarters and eighths; the rest is looked up.
clz(x) ==
  LET a == IF x[1] # 0 \/ x[2] # 0 THEN 16 ELSE 0
      b == IF x[3 - a \div 8] # 0 THEN 8 ELSE 0
      c == IF Nibble(x, a + b + 4) # 0 THEN 4 ELSE 0
      bval_clz == <<0, 1, 2, 2, 3, 3, 3, 3, 4, 4, 4, 4, 4, 4, 4, 4>>
  IN  (32 - a - b - c) - bval_clz[Nibble(x, a + b + c) + 1]

ctz(x) ==
  LET a == IF x[3] = 0 /\ x[4] = 0 THEN 16 ELSE 0
      b == IF x[4 - a \div 8] = 0 THEN 8 ELSE 0
      c == IF Nibble(x, a + b) = 0 THEN 4 ELSE 0
      bval_ctz == <<4, 0, 1, 0, 2, 0, 1, 0, 3, 0, 1, 0, 2, 0, 1, 0>>
  IN  IF Bit(x[4], 0) = 1 THEN 0 ELSE a + b + c + bval_ctz[Nibble(x, a + b + c) + 1]

\* The table has 16 entries: a byte above 15 finds whatever lies behind it.
bits_set(x) ==
  LET bval_bsets == <<0, 1, 1, 2, 1, 2, 2, 3, 1, 2, 2, 3, 2, 3, 3, 4>>
  IN  IF \E i \in 1 .. 4 : x[i] > 15 THEN {0, 255}
      ELSE {FoldLeft(LAMBDA n, b : n + bval_bsets[b + 1], 0, x)}

-----------------------------------------------------------------------------
(* Data comes in chunks, of any length; a word is counted in between.      *)

Init ==
  code \in [data : Messages, start : Starts, crc : {0}, done : {0}, word : {<<0, 0, 0, 1>>},
            counts : {<<31, 0, 1>>}]

\* The first call passes the start value, the next ones the last result.
Chunk ==
  \E n \in code.done .. Len(code.data) :
    code' = [code EXCEPT !.done = n,
               !.crc = crc_ccitt(IF code.done = 0 THEN code.start ELSE @,
                                 SubSeq(code.data, code.done + 1, n))]

Count ==
  \E w \in { s \in {code.data, Reverse(code.data)} : Len(s) = 4 } : \E n \in bits_set(w) :
    /\ code.done = 0
    /\ code' = [code EXCEPT !.word = w, !.counts = <<clz(w), ctz(w), n>>]

Next == Chunk \/ Count

-----------------------------------------------------------------------------
(* Properties.                                                             *)

BitsOf(bytes) == [i \in 1 .. 8 * Len(bytes) |->
                    Bit(bytes[(i - 1) \div 8 + 1], 7 - ((i - 1) % 8))]

\* The remainder of the division of the bits by a polynomial, both the highest
\* power first.
Remainder(bits, poly) ==
  LET n == Len(poly) - 1
      Step(rest, i) ==
        IF rest[i] = 0 THEN rest
        ELSE [j \in DOMAIN rest |->
                IF j \in i .. i + n THEN (rest[j] + poly[j - i + 1]) % 2 ELSE rest[j]]
      end == FoldLeft(Step, bits, [i \in 1 .. Len(bits) - n |-> i])
  IN  SubSeq(end, Len(bits) - n + 1, Len(bits))
Ccitt == <<1, 0,0,0,1, 0,0,0,0, 0,0,1,0, 0,0,0,1>>
Poly7 == <<1, 0,0,0,1,0,0,1>>

\* However the data was cut into chunks, it is divided by the polynomial of
\* CCITT with its CRC behind it, once the start value is added to its first two
\* bytes (crc_ccitt.c:54, the generator of :75).
ChunksAgree ==
  LET d == code.data IN
  code.done = Len(d) /\ Len(d) > 1 =>
    LET whole == <<d[1] ^^ (code.start \div 256), d[2] ^^ (code.start % 256)>>
                 \o SubSeq(d, 3, Len(d)) \o <<code.crc \div 256, code.crc % 256>>
    IN  \A b \in DOMAIN Ccitt \ {1} : Remainder(BitsOf(whole), Ccitt)[b - 1] = 0

\* A command of the card with its CRC, less the stop bit, is divided by the
\* polynomial of seven bits (sdmmc.c:75).
CommandsAgree ==
  code.done = 0 =>
  LET bits == BitsOf(Append(code.data, sdmmc_crc7(code.data)))
      n == Len(bits)
  IN  bits[n] = 1 /\ \A b \in 1 .. 7 : Remainder(SubSeq(bits, 1, n - 1), Poly7)[b] = 0

\* clz and ctz count the zeroes at the two ends; bits_set counts the bits of a
\* word whose bytes are all below 16 (utils.c:40, 66, 92).
CountsRight ==
  LET bits == BitsOf(code.word)
      Ones == { i \in 1 .. 32 : bits[i] = 1 }
      First == IF Ones = {} THEN 33 ELSE CHOOSE i \in Ones : \A j \in Ones : i <= j
      Final == IF Ones = {} THEN 0 ELSE CHOOSE i \in Ones : \A j \in Ones : j <= i
      Total == FoldLeft(LAMBDA n, b : n + b, 0, bits)
  IN  /\ code.counts[1] = First - 1 /\ code.counts[2] = 32 - Final
      /\ (\A i \in 1 .. 4 : code.word[i] < 16) => code.counts[3] = Total

CodesSound == ChunksAgree /\ CommandsAgree /\ CountsRight
=============================================================================
