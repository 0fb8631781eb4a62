------------------------------ MODULE MCDtplug ------------------------------
(***************************************************************************)
(* Small instances of Dtplug for TLC.                                      *)
(***************************************************************************)
EXTENDS Dtplug

Req(type, reply, data, size, hash) ==
  [type |-> type, reply |-> reply, data |-> data, size |-> size, hash |-> hash]

\* What the programs of host/ send, time settings and a reset.
HostRequests ==
  {Req("APP", FALSE, "null", 0, FALSE), Req("APP", TRUE, "quick", 0, FALSE),
   Req("APP", FALSE, "long", 1, TRUE), Req("TIME", TRUE, "long", 3, FALSE),
   Req("RESET", FALSE, "long", 0, FALSE)}

\* A time setting in the wrong form.
WrongTime == {Req("TIME", FALSE, "quick", 0, FALSE)}

\* Fields that happen to be right, and fields that announce more than a packet holds.
SomeGarbage == {[claims |-> 0, sum |-> TRUE], [claims |-> 6, sum |-> FALSE]}
=============================================================================
