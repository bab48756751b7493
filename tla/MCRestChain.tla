----------------------------- MODULE MCRestChain -----------------------------
(***************************************************************************)
(* A small instance of RestChain.                                          *)
(***************************************************************************)
EXTENDS RestChain

CONSTANTS r1, r2

TwoReqs == {r1, r2}
SomeCodes == {404, 503}
=============================================================================
