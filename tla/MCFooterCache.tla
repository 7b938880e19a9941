----------------------------- MODULE MCFooterCache -----------------------------
(***************************************************************************)
(* An instance of FooterCache for TLC: two versions of one object and      *)
(* another object, read by planning and by a running query.  Every footer  *)
(* fits alone; the small ones fit together, not beside the large one.      *)
(***************************************************************************)
EXTENDS FooterCache, TLC

CONSTANTS p1, p2, p3, e1, a, b, c

MCReaders == {p1, p2, p3, e1}
MCPreflight == {p1, p2, p3}
MCOptioned == {e1}
MCFiles == {a, b, c}
MCFile == p1 :> a @@ p2 :> b @@ p3 :> c @@ e1 :> b
MCUri == a :> 1 @@ b :> 2 @@ c :> 1
MCEstimate == a :> 2 @@ b :> 5 @@ c :> 2
MCActual == a :> 2 @@ b :> 4 @@ c :> 2
===============================================================================
