------------------------------- MODULE Timers -------------------------------
(***************************************************************************)
(* What a timer service promises its clients, with no wheel in it: every   *)
(* key has at most one timer, which runs once, the number of ticks after   *)
(* the last SetTimer or MoveTimer that the call asked for.                 *)
(*                                                                         *)
(* TimingWheel implements this specification, but for the steps that its   *)
(* definition Exceptional describes.                                       *)
(***************************************************************************)
EXTENDS Naturals

CONSTANTS Keys,     \* the keys timers are set for
          Values,   \* the values handed to the callback
          Delays,   \* the delays clients ask for, in ticks
          NoValue   \* the value of a key that has no timer

VARIABLES due,      \* due[k]: ticks until the timer of k runs, 0 if it has none
          val,      \* val[k]: the value the timer of k runs with
          call,     \* the request the last step served
          ran       \* the callbacks the last step started

vars == <<due, val, call, ran>>

Run(k) == [key |-> k, value |-> val[k]]

Init ==
    /\ due = [k \in Keys |-> 0]
    /\ val = [k \in Keys |-> NoValue]
    /\ call = <<"none">>
    /\ ran = {}

\* A timer can not be set for less than the next tick.
Set(k, v, d) ==
    /\ call' = <<"set", k, v, d>>
    /\ due' = [due EXCEPT ![k] = IF d < 1 THEN 1 ELSE d]
    /\ val' = [val EXCEPT ![k] = v]
    /\ ran' = {}

\* Moving a timer to less than one tick from now runs it at once, and only
\* once; a key without timer has nothing to move.
Move(k, d) ==
    /\ call' = <<"move", k, d>>
    /\ IF due[k] = 0
       THEN /\ ran' = {}
            /\ UNCHANGED <<due, val>>
       ELSE /\ due' = [due EXCEPT ![k] = d]
            /\ val' = IF d < 1 THEN [val EXCEPT ![k] = NoValue] ELSE val
            /\ ran' = IF d < 1 THEN {Run(k)} ELSE {}

Remove(k) ==
    /\ call' = <<"remove", k>>
    /\ due' = [due EXCEPT ![k] = 0]
    /\ val' = [val EXCEPT ![k] = NoValue]
    /\ ran' = {}

Tick ==
    /\ call' = <<"tick">>
    /\ ran' = {Run(k) : k \in {j \in Keys : due[j] = 1}}
    /\ due' = [k \in Keys |-> IF due[k] = 0 THEN 0 ELSE due[k] - 1]
    /\ val' = [k \in Keys |-> IF due[k] = 1 THEN NoValue ELSE val[k]]

Drain ==
    /\ call' = <<"drain">>
    /\ ran' = {Run(k) : k \in {j \in Keys : due[j] > 0}}
    /\ due' = [k \in Keys |-> 0]
    /\ val' = [k \in Keys |-> NoValue]

\* Stopping the service runs nothing and forgets nothing.
Stop ==
    /\ call' = <<"stop">>
    /\ ran' = {}
    /\ UNCHANGED <<due, val>>

Next ==
    \/ \E k \in Keys, v \in Values, d \in Delays : Set(k, v, d)
    \/ \E k \in Keys, d \in Delays : Move(k, d)
    \/ \E k \in Keys : Remove(k)
    \/ Tick
    \/ Drain
    \/ Stop

Spec == Init /\ [][Next]_vars
=============================================================================
