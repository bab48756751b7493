--------------------------- MODULE MCTimingWheel ---------------------------
(***************************************************************************)
(* Small instances of TimingWheel: a wheel of two or three slots, so that  *)
(* delays of more than one revolution are short.                           *)
(***************************************************************************)
EXTENDS TimingWheel, TLC

CONSTANTS k1, k2, i1, i2, i3, v1, v2, c1, c2

TwoKeys == {k1, k2}
TwoValues == {v1, v2}
ThreeIds == {i1, i2, i3}
TwoCallbacks == {c1, c2}

\* Less than a tick, exactly one revolution of two slots, more than one.
SomeDelays == {0, 2, 3}
\* Delays of whole ticks, none longer than a revolution.
WithinATurn == 1 .. 3

\* No action reads call and ran: they only say what the last step did.  What an
\* object was that nothing refers to any more does not matter either.
WheelState ==
    <<tickedPos, [i \in Ids |-> IF Free(i) THEN Blank ELSE entries[i]], timers, late, phase>>

\* Keys, values, object identities and callbacks are interchangeable.
Symmetry == Permutations(Keys) \cup Permutations(Values) \cup Permutations(Ids)
              \cup Permutations(Callbacks)
=============================================================================
