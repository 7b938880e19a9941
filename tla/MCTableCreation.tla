--------------------------- MODULE MCTableCreation ---------------------------
(***************************************************************************)
(* Instances of TableCreation for TLC: rival creators of one table and     *)
(* clients that use it as soon as it is there.                             *)
(***************************************************************************)
EXTENDS TableCreation, TLC

CONSTANTS c1, c2, c3

Rivals == {c1, c2, c3}

Pair == {c1, c2}
=============================================================================
