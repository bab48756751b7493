---------------------------- MODULE MCLocalCache ----------------------------
(***************************************************************************)
(* Small instances of LocalCache.                                          *)
(***************************************************************************)
EXTENDS LocalCache, TLC

CONSTANTS k1, k2, k3, g1, g2

ThreeKeys == {k1, k2, k3}
TwoCallers == {g1, g2}

Sym == Permutations(ThreeKeys) \cup Permutations(TwoCallers)

\* The last request and the timers it ran do not bear on what comes next.
View == <<limit, data, lru, pc, key, calls, expired, leaving, unarmed, due>>
=============================================================================
