---------------------------- MODULE MCMapReduce ----------------------------
(***************************************************************************)
(* Small instances of MapReduce.                                           *)
(***************************************************************************)
EXTENDS MapReduce, TLC

CONSTANTS i1, i2

TwoItems == {i1, i2}
=============================================================================
