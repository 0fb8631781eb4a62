------------------------------- MODULE Memory -------------------------------
(***************************************************************************)
(* The memory and string functions (lib/string.c): on a memory of bytes,   *)
(* each call from any place to any place.  The copies go on a word or a    *)
(* byte at a time, so that what they do to areas that overlap is seen.     *)
(***************************************************************************)
EXTENDS Integers, Sequences, FiniteSetsExt

CONSTANTS
  Cells,  \* the number of bytes of memory
  Bytes,  \* the bytes there may be; 0 is one
  Word,   \* the bytes of a word
  Counts  \* the counts the callers pass

Place == 0 .. Cells - 1

VARIABLES mem  \* the bytes, those before the call, and the call under way

\* The longest string from a place that has an end.
Ends(m, a) == \E b \in Place : a <= b /\ m[b] = 0

-----------------------------------------------------------------------------
(* The functions that only read.                                           *)

\* The first place from a on for which Stop holds.
First(a, Stop(_)) == CHOOSE b \in Place : b >= a /\ Stop(b) /\ \A c \in a .. b - 1 : ~ Stop(c)

strlen(m, s) == First(s, LAMBDA b : m[b] = 0) - s
strnlen(m, s, count) == First(s, LAMBDA b : b - s = count \/ m[b] = 0) - s

\* A signed byte; the differences below are kept in one.
Signed(n) == ((n + 128) % 256) - 128

\* Where two strings differ or the first ends; count is what is compared at most.
strncmp(m, cs, ct, count) ==
  LET end == First(cs, LAMBDA b : b - cs = count \/ m[b] # m[ct + b - cs] \/ m[b] = 0)
  IN  IF end - cs = count THEN 0 ELSE Signed(m[end] - m[ct + end - cs])
strcmp(m, cs, ct) ==
  LET end == First(cs, LAMBDA b : m[b] # m[ct + b - cs] \/ m[b] = 0)
  IN  Signed(m[end] - m[ct + end - cs])

\* The place of a character, or -1 for NULL.
strchr(m, s, c) ==
  LET at == First(s, LAMBDA b : m[b] = c \/ m[b] = 0) IN IF m[at] = c THEN at ELSE -1
\* From the NUL backwards.
strrchr(m, s, c) ==
  LET found == { b \in s .. s + strlen(m, s) : m[b] = c } IN IF found = {} THEN -1 ELSE Max(found)

-----------------------------------------------------------------------------
(* The functions that write, a step at a time.                             *)

Rest == [fn |-> "none", to |-> 0, from |-> 0, count |-> 0, c |-> 0]
Init == mem \in [now : [Place -> Bytes], before : {<<>>}, call : {Rest}, dest : {0}, src : {0},
                 left : {0}, words : {FALSE}]

Idle == mem.call = Rest
\* Callers pass areas that are in memory, and strings that end.
Begin(fn, to, from, count, c) ==
  mem' = [mem EXCEPT
            !.before = mem.now, !.dest = to, !.src = from, !.left = count,
            !.call = [fn |-> fn, to |-> to, from |-> from, count |-> count, c |-> c],
            \* Words are taken when both areas are aligned.
            !.words = fn \in {"memcpy", "memset"} /\ to % Word = 0 /\ from % Word = 0]

memcpy ==
  /\ Idle
  /\ \E to, from \in Place, n \in Counts :
       to + n <= Cells /\ from + n <= Cells /\ to # from /\ Begin("memcpy", to, from, n, 0)
memset ==
  /\ Idle
  /\ \E to \in Place, n \in Counts, c \in Bytes : to + n <= Cells /\ Begin("memset", to, 0, n, c)
strcpy ==
  /\ Idle
  /\ \E to, from \in Place :
       /\ Ends(mem.now, from) /\ to + strlen(mem.now, from) < Cells
       /\ to <= from \/ to > from + strlen(mem.now, from)
       /\ Begin("strcpy", to, from, Cells, 0)
strncpy ==
  /\ Idle
  /\ \E to, from \in Place, n \in Counts :
       /\ to + n <= Cells /\ from + n <= Cells /\ Begin("strncpy", to, from, n, 0)

\* The byte or the word that is written next; behind the memory there are zeroes.
At(b) == IF b \in Place THEN mem.now[b] ELSE 0
Source(a) == IF mem.call.fn = "memset" THEN mem.call.c ELSE At(mem.src + a - mem.dest)
Put(n) == [a \in Place |-> IF a \in mem.dest .. mem.dest + n - 1 THEN Source(a) ELSE mem.now[a]]
\* The whole words; the rest is for the bytes.
WordsLeft == mem.words /\ mem.left >= Word

Over == mem.left <= 0
EndOfString == mem.call.fn \in {"strcpy", "strncpy"} /\ mem.now[mem.src] = 0
Step(n, over) ==
  mem' = [mem EXCEPT !.now = Put(n), !.dest = @ + n, !.src = @ + n,
                     !.left = IF over THEN 0 ELSE @ - n]
CopyWord == ~ Idle /\ WordsLeft /\ Step(Word, FALSE)
CopyByte == ~ Idle /\ ~ Over /\ ~ WordsLeft /\ Step(1, EndOfString)

Next == memcpy \/ memset \/ strcpy \/ strncpy \/ CopyWord \/ CopyByte

-----------------------------------------------------------------------------
(* Properties.                                                             *)

\* The bytes a call has to write, those of the string with its NUL.
Length ==
  LET c == mem.call
      string == IF Ends(mem.before, c.from) THEN strlen(mem.before, c.from) + 1 ELSE Cells
  IN  IF c.fn \in {"memcpy", "memset"} THEN c.count ELSE Min({c.count, string})

\* Words or bytes, a call writes its area and nothing else; a copy brings what
\* the source held before the call, also to an area that overlaps it from
\* below.  To one that overlaps it from above nothing is promised
\* (string.c:27, 57, 88, 108).
AreaWritten ==
  LET c == mem.call IN
  ~ Idle /\ Over /\ (c.fn = "memset" \/ c.to < c.from \/ c.to >= c.from + Length) =>
    /\ \A a \in Place \ (c.to .. c.to + Length - 1) : mem.now[a] = mem.before[a]
    /\ \A a \in c.to .. c.to + Length - 1 :
         mem.now[a] = IF c.fn = "memset" THEN c.c ELSE mem.before[c.from + a - c.to]

\* Equal strings compare equal and others do not, up to the count when
\* there is one (string.c:123, 141).
Same(s, t) ==
  strlen(mem.now, s) = strlen(mem.now, t)
    /\ \A i \in 0 .. strlen(mem.now, s) : mem.now[s + i] = mem.now[t + i]
ComparesRight ==
  \A s, t \in { a \in Place : Idle /\ Ends(mem.now, a) } :
    /\ (strcmp(mem.now, s, t) = 0) = Same(s, t)
    /\ strcmp(mem.now, s, t) = strncmp(mem.now, s, t, Cells)
    /\ \A n \in 1 .. strlen(mem.now, s) :
         (strncmp(mem.now, s, t, n) = 0) =
           \A i \in 0 .. n - 1 : strnlen(mem.now, t, n) = n /\ mem.now[s + i] = mem.now[t + i]

\* The searches find the first and the last place of a character, the NUL
\* included, and agree on whether there is one (string.c:160, 189).
SearchesAgree ==
  \A s \in { a \in Place : Idle /\ Ends(mem.now, a) } :
    /\ \A c \in Bytes :
         LET f == strchr(mem.now, s, c)
             l == strrchr(mem.now, s, c)
         IN  /\ (f = -1) = (l = -1) /\ f <= l
             /\ f # -1 => \A i \in s .. s + strlen(mem.now, s) : mem.now[i] = c => i \in f .. l
    /\ \A n \in Counts : strnlen(mem.now, s, n) = Min({n, strlen(mem.now, s)})

MemorySound == AreaWritten /\ ComparesRight /\ SearchesAgree
=============================================================================
