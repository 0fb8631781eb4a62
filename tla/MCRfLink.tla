------------------------------ MODULE MCRfLink ------------------------------
(***************************************************************************)
(* Small instances of RfLink for TLC: board a types the lines, board b     *)
(* types at most one.                                                      *)
(***************************************************************************)
EXTENDS RfLink, TLC

CONSTANTS a, b

MCNode == {a, b}

\* One packet of one block; two packets, the last of two blocks.
OneOrTwo == {[nb |-> 0, last |-> 1], [nb |-> 1, last |-> 2]}
Two      == {[nb |-> 1, last |-> 2]}

OneLine  == a :> 1 @@ b :> 0
TwoLines == a :> 2 @@ b :> 0
=============================================================================
