----------------------------- MODULE RfTransfer -----------------------------
(***************************************************************************)
(* What the radio link promises a board that types one line at a time: the *)
(* lines that arrive are whole, they arrive in the order they were typed,  *)
(* a line may be missing and the last one may be printed again.  A line is *)
(* its index; what fireTreatData prints is the sequence of its slices.     *)
(***************************************************************************)
EXTENDS Integers, Sequences

CONSTANTS Node, Sizes

VARIABLES
  sent,   \* the sizes of the lines each board has sent
  out     \* the slices each board printed last

Peer(n) == CHOOSE p \in Node : p # n

\* The slices of the k-th line of board n.
Whole(n, k) == [i \in 1 .. sent[n][k].nb + 1 |-> [msg |-> k, id |-> i - 1]]

\* The line printed last, 0 before the first.
Last(n) == IF out[n] = <<>> THEN 0 ELSE out[n][1].msg

Init ==
  /\ sent = [n \in Node |-> <<>>]
  /\ out = [n \in Node |-> <<>>]

Send(n) ==
  /\ \E s \in Sizes : sent' = [sent EXCEPT ![n] = Append(@, s)]
  /\ UNCHANGED out

Show(n) ==
  /\ \E k \in 1 .. Len(sent[Peer(n)]) :
       /\ k >= Last(n)
       /\ out' = [out EXCEPT ![n] = Whole(Peer(n), k)]
  /\ UNCHANGED sent

Next == \E n \in Node : Send(n) \/ Show(n)

Spec == Init /\ [][Next]_<<sent, out>>
=============================================================================
