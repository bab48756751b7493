---------------------------- MODULE MCDiscovery ----------------------------
(***************************************************************************)
(* Small instances of Discovery.                                           *)
(***************************************************************************)
EXTENDS Discovery, TLC

CONSTANTS k1, v1, v2, s1, s2, w1, w2, r1

OneKey == {k1}
OneVal == {v1}
TwoVals == {v1, v2}
OneSub == {s1}
TwoSubs == {s1, s2}
NoSub == {}
TwoWatchers == {w1, w2}
OneReloader == {r1}

\* A server comes and goes, always with the same address.
OneServer == {<<k1, v1>>}

\* Servers come and go with the same key and either address.
TwoServers == {k1} \X {v1, v2}

\* Goroutines are interchangeable, and so are subscribers and values.
Symmetry == Permutations(Watchers) \cup Permutations(Vals) \cup Permutations(Subs)
=============================================================================
