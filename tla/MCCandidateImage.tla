--------------------------- MODULE MCCandidateImage ---------------------------
(***************************************************************************)
(* An instance of CandidateImage for TLC: nodes of two entries and packs   *)
(* of two pages make trees of three levels out of five pages.              *)
(***************************************************************************)
EXTENDS CandidateImage, TLC

(* Candidates one after the other, with many writes.                       *)
InTurn(n) == [pages |-> 7, genesis |-> n, transactions |-> 3, inFlight |-> 1, writes |-> 3,
              uploadsFail |-> FALSE]

(* Candidates two at a time, whose uploads fail or which lose HEAD and are *)
(* built again.                                                            *)
Racing(n) == [pages |-> 5, genesis |-> n, transactions |-> 3, inFlight |-> 2, writes |-> 2,
              uploadsFail |-> TRUE]

MCScenarios == {InTurn(1), InTurn(7), Racing(6)}
===============================================================================
