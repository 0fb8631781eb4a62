---------------------------- MODULE EepromStore ----------------------------
(***************************************************************************)
(* What extdrv/eeprom.c promises: a memory of bytes with calls that write  *)
(* and read runs of bytes.  The bytes of a write are stored in their order, *)
(* some at a time; a call that fails, or that a restart of the board cuts  *)
(* off, may have stored a first part of them, and one that succeeds has    *)
(* stored all.  A read that succeeds answers what is stored.               *)
(***************************************************************************)
EXTENDS Integers, Sequences

CONSTANTS
  Ops,    \* the calls: [kind, off, data], of a read the length of data counts
  Offset, \* the addresses of bytes
  Empty   \* the contents before the first write

VARIABLES
  store,  \* what the chip holds
  op,     \* the last call
  answer  \* what it returned: [r, data], Waiting while it runs

vars == <<store, op, answer>>

Answer(r, data) == [r |-> r, data |-> data]
Waiting == Answer("waiting", <<>>)
Ok      == Answer("ok", <<>>)
Failed  == Answer("failed", <<>>)

Holds(i) == store[op.off + i - 1] = op.data[i]
\* Bytes j .. k of the write reach the chip, those before j being there.
StoreFrom(j, k) ==
  /\ \A i \in 1 .. j - 1 : Holds(i)
  /\ store' = [o \in Offset |-> IF o \in op.off + j - 1 .. op.off + k - 1
                                THEN op.data[o - op.off + 1] ELSE store[o]]
StoreSome ==
  /\ op.kind = "write"
  /\ \E j, k \in 1 .. Len(op.data) : j <= k /\ StoreFrom(j, k)
Maybe(A) == A \/ UNCHANGED store

Init == store = Empty /\ op \in Ops /\ answer = Failed

Call ==
  /\ answer # Waiting
  /\ op' \in Ops /\ answer' = Waiting
  /\ UNCHANGED store
Store  == answer = Waiting /\ StoreSome /\ UNCHANGED <<op, answer>>
Done   ==
  /\ answer = Waiting
  /\ IF op.kind = "write"
     THEN answer' = Ok /\ \A i \in 1 .. Len(op.data) : Holds(i)
     ELSE answer' = Answer("ok", [i \in 1 .. Len(op.data) |-> store[op.off + i - 1]])
  /\ UNCHANGED <<store, op>>
Fail   ==
  /\ answer = Waiting
  /\ answer' = Failed
  /\ Maybe(StoreSome)
  /\ UNCHANGED op

Next == Call \/ Store \/ Done \/ Fail

Spec == Init /\ [][Next]_vars
=============================================================================
