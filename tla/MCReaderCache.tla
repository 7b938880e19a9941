---------------------------- MODULE MCReaderCache ----------------------------
(***************************************************************************)
(* An instance of ReaderCache for TLC: two readers of one page, found      *)
(* through a node of the checkpoint index.                                 *)
(***************************************************************************)
EXTENDS ReaderCache, TLC

CONSTANTS r1, r2

MCReaders == {r1, r2}

MCPath == [r \in MCReaders |-> << <<"node", 0>>, <<"checkpoint", 0>> >>]
=============================================================================
