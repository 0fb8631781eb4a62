-------------------------------- MODULE Aes --------------------------------
(***************************************************************************)
(* The encryption of rf_data (aes.c, encryption.c): AES with a key of 16   *)
(* bytes, and its chaining of blocks.  A block, a key and a state are four *)
(* words, the columns of the state, of four bytes each.                    *)
(***************************************************************************)
EXTENDS Integers, Bitwise, Sequences, SequencesExt

CONSTANTS
  Keys,   \* the keys and initial vectors there may be
  Lines   \* the lines there may be, each a sequence of blocks

VARIABLES
  aes,     \* the context, the buffer, and where the call under way is
  damaged  \* the block that changed between the two calls, or 0

Nb == 4
Nk == 4
Nr == 10

\* Bit b of a number.
Bit(n, b) == (n \div 2^b) % 2

\* The exclusive or of two words.
XorWord(v, w) == <<v[1] ^^ w[1], v[2] ^^ w[2], v[3] ^^ w[3], v[4] ^^ w[4]>>

\* What F makes of each of four things.
Each(F(_), s) == <<F(s[1]), F(s[2]), F(s[3]), F(s[4])>>

sbox ==
  <<99, 124, 119, 123, 242, 107, 111, 197, 48, 1, 103, 43, 254, 215, 171, 118, 202, 130, 201, 125,
    250, 89, 71, 240, 173, 212, 162, 175, 156, 164, 114, 192, 183, 253, 147, 38, 54, 63, 247, 204,
    52, 165, 229, 241, 113, 216, 49, 21, 4, 199, 35, 195, 24, 150, 5, 154, 7, 18, 128, 226,
    235, 39, 178, 117, 9, 131, 44, 26, 27, 110, 90, 160, 82, 59, 214, 179, 41, 227, 47, 132,
    83, 209, 0, 237, 32, 252, 177, 91, 106, 203, 190, 57, 74, 76, 88, 207, 208, 239, 170, 251,
    67, 77, 51, 133, 69, 249, 2, 127, 80, 60, 159, 168, 81, 163, 64, 143, 146, 157, 56, 245,
    188, 182, 218, 33, 16, 255, 243, 210, 205, 12, 19, 236, 95, 151, 68, 23, 196, 167, 126, 61,
    100, 93, 25, 115, 96, 129, 79, 220, 34, 42, 144, 136, 70, 238, 184, 20, 222, 94, 11, 219,
    224, 50, 58, 10, 73, 6, 36, 92, 194, 211, 172, 98, 145, 149, 228, 121, 231, 200, 55, 109,
    141, 213, 78, 169, 108, 86, 244, 234, 101, 122, 174, 8, 186, 120, 37, 46, 28, 166, 180, 198,
    232, 221, 116, 31, 75, 189, 139, 138, 112, 62, 181, 102, 72, 3, 246, 14, 97, 53, 87, 185,
    134, 193, 29, 158, 225, 248, 152, 17, 105, 217, 142, 148, 155, 30, 135, 233, 206, 85, 40, 223,
    140, 161, 137, 13, 191, 230, 66, 104, 65, 153, 45, 15, 176, 84, 187, 22>>

rsbox ==
  <<82, 9, 106, 213, 48, 54, 165, 56, 191, 64, 163, 158, 129, 243, 215, 251, 124, 227, 57, 130,
    155, 47, 255, 135, 52, 142, 67, 68, 196, 222, 233, 203, 84, 123, 148, 50, 166, 194, 35, 61,
    238, 76, 149, 11, 66, 250, 195, 78, 8, 46, 161, 102, 40, 217, 36, 178, 118, 91, 162, 73,
    109, 139, 209, 37, 114, 248, 246, 100, 134, 104, 152, 22, 212, 164, 92, 204, 93, 101, 182, 146,
    108, 112, 72, 80, 253, 237, 185, 218, 94, 21, 70, 87, 167, 141, 157, 132, 144, 216, 171, 0,
    140, 188, 211, 10, 247, 228, 88, 5, 184, 179, 69, 6, 208, 44, 30, 143, 202, 63, 15, 2,
    193, 175, 189, 3, 1, 19, 138, 107, 58, 145, 17, 65, 79, 103, 220, 234, 151, 242, 207, 206,
    240, 180, 230, 115, 150, 172, 116, 34, 231, 173, 53, 133, 226, 249, 55, 232, 28, 117, 223, 110,
    71, 241, 26, 113, 29, 41, 197, 137, 111, 183, 98, 14, 170, 24, 190, 27, 252, 86, 62, 75,
    198, 210, 121, 32, 154, 219, 192, 254, 120, 205, 90, 244, 31, 221, 168, 51, 136, 7, 199, 49,
    177, 18, 16, 89, 39, 128, 236, 95, 96, 81, 127, 169, 25, 181, 74, 13, 45, 229, 122, 159,
    147, 201, 156, 239, 160, 224, 59, 77, 174, 42, 245, 176, 200, 235, 187, 60, 131, 83, 153, 97,
    23, 43, 4, 126, 186, 119, 214, 38, 225, 105, 20, 99, 85, 33, 12, 125>>

Rcon == <<1, 2, 4, 8, 16, 32, 64, 128, 27, 54>>

getSBoxValue(num)  == sbox[num + 1]
getSBoxInvert(num) == rsbox[num + 1]
SubWord(w) == Each(getSBoxValue, w)

-----------------------------------------------------------------------------
(* Round keys.                                                             *)

\* What is added to the word of the key before: the last word, at the start
\* of a key rotated and substituted.  Mutant: without the round's constant.
TempaNoRcon(last, i) ==
  IF i % Nk # 0 THEN last ELSE SubWord(<<last[2], last[3], last[4], last[1]>>)
Tempa(last, i) ==
  IF i % Nk # 0 THEN last
  ELSE XorWord(SubWord(<<last[2], last[3], last[4], last[1]>>), <<Rcon[i \div Nk], 0, 0, 0>>)

\* Word i is words[i + 1].
KeyExpansion(key) ==
  LET Another(words, i) ==
        Append(words, XorWord(words[i - Nk + 1], Tempa(words[i], i)))
  IN  FoldLeft(Another, key, [n \in 1 .. Nb * (Nr + 1) - Nk |-> n + Nk - 1])

-----------------------------------------------------------------------------
(* The steps of a round.                                                   *)

AddRoundKey(round, state, words) ==
  <<XorWord(state[1], words[round * Nb + 1]), XorWord(state[2], words[round * Nb + 2]),
    XorWord(state[3], words[round * Nb + 3]), XorWord(state[4], words[round * Nb + 4])>>

SubBytes(state)    == Each(SubWord, state)
InvSubWord(w)      == Each(getSBoxInvert, w)
InvSubBytes(state) == Each(InvSubWord, state)

\* Row r is rotated by r columns to the left, or back.
Rotated(s, a, b, c, d) == <<s[a][1], s[b][2], s[c][3], s[d][4]>>
ShiftRows(s) ==
  <<Rotated(s, 1, 2, 3, 4), Rotated(s, 2, 3, 4, 1), Rotated(s, 3, 4, 1, 2), Rotated(s, 4, 1, 2, 3)>>
InvShiftRows(s) ==
  <<Rotated(s, 1, 4, 3, 2), Rotated(s, 2, 1, 4, 3), Rotated(s, 3, 2, 1, 4), Rotated(s, 4, 3, 2, 1)>>

xtime(x) == ((2 * x) % 256) ^^ (IF x >= 128 THEN 27 ELSE 0)

MixColumn(w) ==
  LET tmp == (w[1] ^^ w[2]) ^^ (w[3] ^^ w[4])
      Mixed(x, y) == x ^^ (xtime(x ^^ y) ^^ tmp)
  IN  <<Mixed(w[1], w[2]), Mixed(w[2], w[3]), Mixed(w[3], w[4]), Mixed(w[4], w[1])>>
MixColumns(state) == Each(MixColumn, state)

\* The product with a y below 16.
Multiply(x, y) ==
  LET x2 == xtime(x)
      x4 == xtime(x2)
      x8 == xtime(x4)
      Part(b, p) == IF Bit(y, b) = 1 THEN p ELSE 0
  IN  (Part(0, x) ^^ Part(1, x2)) ^^ (Part(2, x4) ^^ Part(3, x8))

InvMixColumn(w) ==
  LET Sum(a, b, c, d) == (Multiply(a, 14) ^^ Multiply(b, 11)) ^^ (Multiply(c, 13) ^^ Multiply(d, 9))
  IN  <<Sum(w[1], w[2], w[3], w[4]), Sum(w[2], w[3], w[4], w[1]),
        Sum(w[3], w[4], w[1], w[2]), Sum(w[4], w[1], w[2], w[3])>>
InvMixColumns(state) == Each(InvMixColumn, state)

XorWithIv(block, iv) ==
  <<XorWord(block[1], iv[1]), XorWord(block[2], iv[2]),
    XorWord(block[3], iv[3]), XorWord(block[4], iv[4])>>

-----------------------------------------------------------------------------
(* encrypt and decrypt, a round at a time.                                 *)

Init ==
  /\ aes \in [key : Keys, iv : Keys, plain : Lines, buf : {<<>>}, words : {<<>>},
              pc : {"start"}, round : {0}, state : {<<>>}, chain : {<<>>}]
  /\ aes.iv # aes.key
  /\ damaged = 0

\* AES_init_ctx_iv, at the start of either call; buf is what it works on.
Start(pc, buf) ==
  aes' = [aes EXCEPT !.pc = pc, !.buf = buf, !.words = KeyExpansion(aes.key),
                     !.chain = <<aes.iv>>]
Encrypt == aes.pc = "start" /\ Start("encrypt", aes.plain) /\ UNCHANGED damaged

\* chain holds iv and what the next blocks are chained to; the block it is the
\* turn of is the Len(chain)-th.
Turn == Len(aes.chain)
Begin(pc, state, round) ==
  aes' = [aes EXCEPT !.pc = pc, !.state = state, !.round = round]

CipherBegins ==
  /\ aes.pc = "encrypt" /\ Turn <= Len(aes.buf)
  /\ Begin("cipher", AddRoundKey(0, XorWithIv(aes.buf[Turn], Last(aes.chain)), aes.words), 1)
  /\ UNCHANGED damaged
CipherRound ==
  /\ aes.pc = "cipher" /\ aes.round < Nr
  /\ Begin("cipher", AddRoundKey(aes.round, MixColumns(ShiftRows(SubBytes(aes.state))), aes.words),
           aes.round + 1)
  /\ UNCHANGED damaged
CipherEnds ==
  /\ aes.pc = "cipher" /\ aes.round = Nr
  /\ LET block == AddRoundKey(Nr, ShiftRows(SubBytes(aes.state)), aes.words) IN
       aes' = [aes EXCEPT !.pc = "encrypt", !.buf[Turn] = block,
                          !.chain = Append(@, block)]
  /\ UNCHANGED damaged

\* storeNextIv keeps what the buffer held before the block was decrypted.
StoredNextIv(block, result) == block

InvCipherBegins ==
  /\ aes.pc = "decrypt" /\ Turn <= Len(aes.buf)
  /\ Begin("invcipher", AddRoundKey(Nr, aes.buf[Turn], aes.words), Nr - 1)
  /\ UNCHANGED damaged
InvCipherRound ==
  /\ aes.pc = "invcipher" /\ aes.round > 0
  /\ Begin("invcipher",
           InvMixColumns(AddRoundKey(aes.round, InvSubBytes(InvShiftRows(aes.state)), aes.words)),
           aes.round - 1)
  /\ UNCHANGED damaged
InvCipherEnds ==
  /\ aes.pc = "invcipher" /\ aes.round = 0
  /\ LET block == XorWithIv(AddRoundKey(0, InvSubBytes(InvShiftRows(aes.state)), aes.words),
                            Last(aes.chain))
     IN  aes' = [aes EXCEPT !.pc = "decrypt", !.buf[Turn] = block,
                            !.chain = Append(@, StoredNextIv(aes.buf[Turn], block))]
  /\ UNCHANGED damaged

\* The line travels; one block of it may be another when it is decrypted.
Decrypt ==
  /\ aes.pc = "encrypt" /\ Turn > Len(aes.buf)
  /\ \E n \in 0 .. Len(aes.buf) :
       /\ damaged' = n
       /\ Start("decrypt", IF n = 0 THEN aes.buf ELSE [aes.buf EXCEPT ![n] = aes.key])

Next ==
  \/ Encrypt \/ CipherBegins \/ CipherRound \/ CipherEnds
  \/ Decrypt \/ InvCipherBegins \/ InvCipherRound \/ InvCipherEnds

-----------------------------------------------------------------------------
(* Properties.                                                             *)

\* The product in the field, by long multiplication, and the inverse.
RECURSIVE Times(_, _)
Times(x, y) ==
  IF y = 0 THEN 0
  ELSE LET twice == Times(x, y \div 2)
           double == ((2 * twice) % 256) ^^ (IF twice >= 128 THEN 27 ELSE 0)
       IN  double ^^ (IF y % 2 = 1 THEN x ELSE 0)
FieldInverse(x) == IF x = 0 THEN 0 ELSE CHOOSE y \in 1 .. 255 : Times(x, y) = 1
Affine(x) ==
  LET b(i) == (Bit(x, i % 8) + Bit(x, (i + 4) % 8) + Bit(x, (i + 5) % 8) + Bit(x, (i + 6) % 8)
               + Bit(x, (i + 7) % 8) + Bit(99, i)) % 2
  IN  b(0) + 2 * b(1) + 4 * b(2) + 8 * b(3) + 16 * b(4) + 32 * b(5) + 64 * b(6) + 128 * b(7)

\* The tables are those of the field: the S-box is the inverse and the affine
\* map, rsbox undoes it (aes.c:57, 76).
TablesRight ==
  \A x \in 0 .. 255 : getSBoxValue(x) = Affine(FieldInverse(x)) /\ getSBoxInvert(getSBoxValue(x)) = x

\* The round keys of the standard's own example (FIPS 197, A.1), the last of them.
KeysRight ==
  SubSeq(KeyExpansion(<<<<43, 126, 21, 22>>, <<40, 174, 210, 166>>,
                        <<171, 247, 21, 136>>, <<9, 207, 79, 60>>>>), Nb * Nr + 1, Nb * (Nr + 1)) =
    <<<<208, 20, 249, 168>>, <<201, 238, 37, 137>>, <<225, 63, 12, 200>>, <<182, 99, 12, 166>>>>

\* The columns are mixed by the polynomial, and every step of a round is
\* undone by its inverse (aes.c:283, 325, 346, 358).
StepsRight(s) ==
  /\ \A c, r \in 1 .. 4 :
       MixColumns(s)[c][r] =
         LET At(i) == s[c][((r + i - 1) % 4) + 1]
         IN  (Times(At(0), 2) ^^ Times(At(1), 3)) ^^ (At(2) ^^ At(3))
  /\ InvMixColumns(MixColumns(s)) = s
  /\ InvSubBytes(SubBytes(s)) = s /\ InvShiftRows(ShiftRows(s)) = s

\* decrypt gives back what encrypt was given; a block damaged on the way costs
\* itself and the next one, never the rest of the line.
LineRead ==
  aes.pc = "decrypt" /\ Turn > Len(aes.buf) =>
    \A n \in 1 .. Len(aes.plain) :
      damaged = 0 \/ n \notin {damaged, damaged + 1} => aes.buf[n] = aes.plain[n]

CipherSound ==
  /\ aes.pc = "start" => TablesRight /\ KeysRight
  /\ aes.state # <<>> => StepsRight(aes.state)
  /\ LineRead
=============================================================================
