----------------------------- MODULE MCLocalHead -----------------------------
(***************************************************************************)
(* Instances of LocalHead for TLC: two rival creations, two rival          *)
(* replacements of what the first creates and one of what the second does, *)
(* in three processes of which two have the same id.                       *)
(***************************************************************************)
EXTENDS LocalHead, TLC

CONSTANTS w1, w2, w3, w4, w5, p1, p2, p3

RivalWrites == {w1, w2, w3, w4, w5}
RivalExpected == w1 :> "absent" @@ w2 :> "absent" @@ w3 :> "A" @@ w4 :> "A" @@ w5 :> "B"
RivalValue == w1 :> "A" @@ w2 :> "B" @@ w3 :> "C" @@ w4 :> "D" @@ w5 :> "E"
RivalProcesses == {p1, p2, p3}
RivalProcessOf == w1 :> p1 @@ w2 :> p2 @@ w3 :> p2 @@ w4 :> p3 @@ w5 :> p1
RivalPidOf == p1 :> "1" @@ p2 :> "1" @@ p3 :> "2"

PairWrites == {w1, w2, w3}
PairExpected == w1 :> "absent" @@ w2 :> "absent" @@ w3 :> "A"
PairValue == w1 :> "A" @@ w2 :> "B" @@ w3 :> "C"
PairProcesses == {p1, p2}
PairProcessOf == w1 :> p1 @@ w2 :> p2 @@ w3 :> p2
PairPidOf == p1 :> "1" @@ p2 :> "1"
=============================================================================
