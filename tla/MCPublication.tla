---------------------------- MODULE MCPublication ----------------------------
(***************************************************************************)
(* Instances of Publication for TLC.                                       *)
(*   Duplicates: an append, the retry of that append by another client and *)
(*               a transaction that reuses their key for something else.   *)
(*   Rivals:     transactions on distinct keys that race for HEAD, enough  *)
(*               of them to exhaust the rebases of one.                    *)
(***************************************************************************)
EXTENDS Publication, TLC

CONSTANTS c1, c2, c3

DuplicateCalls == {c1, c2, c3}
DuplicateAppends == {c1, c2}
DuplicateKeys == [c \in DuplicateCalls |-> "k1"]
DuplicateIntents == c1 :> "i1" @@ c2 :> "i1" @@ c3 :> "i2"

RivalCalls == {c1, c2, c3}
RivalAppends == {}
RivalKeys == [c \in RivalCalls |-> c]
RivalIntents == [c \in RivalCalls |-> c]
RivalSymmetry == Permutations(RivalCalls)
=============================================================================
