---------------------------- MODULE MCCacheAside ----------------------------
(***************************************************************************)
(* Small instances of CacheAside.                                          *)
(***************************************************************************)
EXTENDS CacheAside, TLC

CONSTANTS p1, p2, r1, r2, w1

TwoProcs == {p1, p2}
TwoReaders == {r1, r2}
OneWriter == {w1}

\* The readers share their calls, or one of them is in another process.
SomeHomes == {[g \in {r1, r2, w1} |-> p1], [g \in {r1, r2, w1} |-> IF g = r2 THEN p2 ELSE p1]}
=============================================================================
