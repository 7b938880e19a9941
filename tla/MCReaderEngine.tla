---------------------------- MODULE MCReaderEngine ----------------------------
(***************************************************************************)
(* An instance of ReaderEngine for TLC: images of four pages in which     *)
(* pages 1 and 2 have up to two references, children or overflow chains,   *)
(* that agree, conflict, exceed the roles or lead outside the image.       *)
(***************************************************************************)
EXTENDS ReaderEngine, TLC

CONSTANTS q1, q2

MCQueries == {q1, q2}

Child(p) == [to |-> p, kind |-> "btree", length |-> 0]
Chain(p, n) == [to |-> p, kind |-> "overflow", length |-> n]

Sound(r) == [refs |-> r, sound |-> TRUE]
Broken(r) == [refs |-> r, sound |-> FALSE]

MCImages ==
    {<<a, b, c, Sound(<<>>)>> :
        a \in {Sound(<<Child(2)>>), Sound(<<Child(2), Chain(3, 1)>>), Sound(<<Chain(2, 2)>>),
               Broken(<<Child(2)>>)},
        b \in {Sound(<<>>), Sound(<<Child(3)>>), Sound(<<Child(3), Child(4)>>), Sound(<<Chain(3, 3), Child(5)>>)},
        c \in {Sound(<<>>), Sound(<<Child(1)>>)}}
===============================================================================
