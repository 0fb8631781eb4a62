-------------------------------- MODULE Text --------------------------------
(***************************************************************************)
(* Printing and reading of numbers and strings: vsprintf.c, uprintf.c and  *)
(* strtoul of stdlib.c.  A format is a sequence of items, a literal        *)
(* character or a conversion with its argument; a character is a string of *)
(* one, and the buffer is a function on the bytes around it, so that what  *)
(* is written outside of it is seen.                                       *)
(***************************************************************************)
EXTENDS Integers, Sequences, SequencesExt, FiniteSetsExt

CONSTANTS
  Formats,  \* the formats there may be
  Sizes     \* the sizes of the buffer there may be

VARIABLES print  \* the call under way: its format, its buffer and the place reached

Tmp == 20  \* TMP_NUM_BUF_SIZE

digits == <<"0", "1", "2", "3", "4", "5", "6", "7", "8", "9", "A", "B", "C", "D", "E", "F">>
small  == <<"0", "1", "2", "3", "4", "5", "6", "7", "8", "9", "a", "b", "c", "d", "e", "f">>

-----------------------------------------------------------------------------
(* convert: a number, its digits from the last one, padding and sign, then *)
(* all of it reversed.                                                     *)

\* An item is [kind, text, flags, width, num]; num is below 2^31.
Base(item) == IF "HEXA" \in item.flags THEN 16 ELSE 10
Digits(item, num) ==
  LET table == IF "LOWERCASE" \in item.flags THEN small ELSE digits
      d[n \in Nat] == IF n = 0 THEN <<>>
                      ELSE <<table[(n % Base(item)) + 1]>> \o d[n \div Base(item)]
  IN  IF num = 0 THEN <<"0">> ELSE d[num]

Padded(tmp, c, width) == tmp \o [i \in 1 .. Max({0, width - Len(tmp)}) |-> c]

\* A signed number leaves one of the width for the sign, printed or not.
Width(item) ==
  LET w == Min({item.width, Tmp})
  IN  IF "SIGNED" \in item.flags /\ w > 0 THEN w - 1 ELSE w

Prefix(item) ==
  IF "SIGNED" \in item.flags /\ item.num < 0 THEN <<"-">>
  ELSE IF "SIGN" \in item.flags    THEN <<"+">>
  ELSE IF "SPACE" \in item.flags   THEN <<" ">>
  ELSE IF "SPECIAL" \in item.flags THEN <<"x", "0">>
  ELSE <<>>

Converted(item) ==
  LET num    == IF item.num < 0 THEN -item.num ELSE item.num
      number == Digits(item, num)
      zeroed == IF "ZEROPAD" \in item.flags THEN Padded(number, "0", Width(item)) ELSE number
  IN  Reverse(Padded(zeroed \o Prefix(item), " ", Width(item)))

-----------------------------------------------------------------------------
(* vsnprintf, an item at a time.                                           *)

Room == -60 .. 60  \* the memory around the buffer

Init ==
  print \in [fmt : Formats, size : Sizes, item : {1}, pos : {0}, mem : {[a \in Room |-> "?"]},
             cut : {FALSE}, call : {"print"}, val : {0}]

End(size) == size - 1  \* one byte is left for the NUL
Item == print.fmt[print.item]
Going == print.call = "print" /\ print.pos < End(print.size) /\ print.item <= Len(print.fmt)

\* The bytes of s that fit, from where the text has come to.
Fitting(s) == Min({Len(s), End(print.size) - print.pos})
Written(s, n) ==
  [a \in Room |-> IF a \in print.pos .. print.pos + n - 1 THEN s[a - print.pos + 1] ELSE print.mem[a]]

\* A character of the format, %% or %c.
Character ==
  /\ Going /\ Item.kind = "char"
  /\ print' = [print EXCEPT !.mem = Written(Item.text, 1), !.pos = @ + 1, !.item = @ + 1]

\* %s is cut at the end of the buffer.
String ==
  /\ Going /\ Item.kind = "string"
  /\ print' = [print EXCEPT !.mem = Written(Item.text, Fitting(Item.text)),
                            !.pos = @ + Fitting(Item.text), !.item = @ + 1]

\* What convert returns for a number of which n of len characters fit.  When it
\* is cut the result is the number left, negative: the text goes on from before
\* the number, or from before the buffer.
Advance(len, n) == IF n = len THEN len ELSE n - len

Number ==
  /\ Going /\ Item.kind = "number"
  /\ LET s == Converted(Item)
         n == Fitting(s)
     IN  print' = [print EXCEPT !.mem = Written(s, n), !.pos = @ + Advance(Len(s), n),
                                !.cut = @ \/ n < Len(s), !.item = @ + 1]

\* The NUL, and what the call returns; uprintf sends as many characters.
Finish ==
  /\ print.call = "print" /\ ~ Going
  /\ print' = [print EXCEPT !.mem[print.pos] = "NUL", !.call = "done"]

-----------------------------------------------------------------------------
(* strtoul: letters count in bases above ten, whatever the base; the first *)
(* other character ends the number.                                        *)

Value(c) == IF \E i \in 1 .. 16 : digits[i] = c \/ small[i] = c
            THEN (CHOOSE i \in 1 .. 16 : digits[i] = c \/ small[i] = c) - 1 ELSE 99
strtoul(s, base) ==
  LET Counts(c) == Value(c) < (IF base > 10 THEN 16 ELSE 10)
      end == Min({i \in 1 .. Len(s) + 1 : i = Len(s) + 1 \/ ~ Counts(s[i])})
      val[i \in 0 .. Len(s)] == IF i = 0 THEN 0 ELSE val[i - 1] * base + Value(s[i])
  IN  <<val[end - 1], end - 1>>

\* A caller reads a number at the end of what was printed, past its sign.
Read ==
  /\ print.call = "done" /\ ~ print.cut /\ print.fmt # <<>> /\ Last(print.fmt).kind = "number"
  /\ print.item > Len(print.fmt)
  /\ \E from \in 0 .. print.pos - 1 :
       /\ from = 0 \/ Value(print.mem[from - 1]) > 15
       /\ \A a \in from .. print.pos - 1 : Value(print.mem[a]) <= 15
       /\ print' = [print EXCEPT !.call = "read",
            !.val = strtoul([i \in 1 .. print.pos - from |-> print.mem[from + i - 1]],
                            Base(Last(print.fmt)))[1]]

Next == Character \/ String \/ Number \/ Finish \/ Read

-----------------------------------------------------------------------------
(* Properties.                                                             *)

\* The text a format stands for, and the number of characters of an item.
Meaning(fmt) ==
  FlattenSeq([i \in 1 .. Len(fmt) |->
                IF fmt[i].kind = "number" THEN Converted(fmt[i]) ELSE fmt[i].text])

\* Until a number is cut, the buffer holds the start of the text and a NUL, as
\* much of it as fits, and nothing is written outside (vsprintf.c:113, 184).
TextInBuffer ==
  print.call # "print" /\ ~ print.cut =>
    LET text == Meaning(print.fmt)
        n    == Min({Len(text), print.size - 1})
    IN  /\ print.pos = n
        /\ \A a \in 0 .. n - 1 : print.mem[a] = text[a + 1]
        /\ print.mem[n] = "NUL"
        /\ \A a \in Room \ (0 .. print.size - 1) : print.mem[a] = "?"

\* Cut or not, nothing is written behind the buffer (vsprintf.c:101).
NothingBehind == \A a \in Room : a >= print.size => print.mem[a] = "?"

\* A number fills the width it was given, less one when it is signed, and no
\* more unless it needs more (vsprintf.c:49).
WidthKept ==
  \A i \in 1 .. Len(print.fmt) :
    LET it == print.fmt[i] IN
    it.kind = "number" =>
      \/ Len(Converted(it)) = Width(it)
      \/ Len(Converted(it)) > Width(it)
           /\ (Width(it) > 0 /\ Prefix(it) = <<>> => Head(Converted(it)) \notin {"0", " "})

\* What was printed is read back (stdlib.c:29).
ReadBack ==
  print.call = "read" =>
    LET n == Last(print.fmt).num IN print.val = IF n < 0 THEN -n ELSE n

TextSound == TextInBuffer /\ NothingBehind /\ WidthKept /\ ReadBack
=============================================================================
