------------------------ MODULE MCPeriodicalExecutor ------------------------
(***************************************************************************)
(* Small instances of PeriodicalExecutor.                                  *)
(***************************************************************************)
EXTENDS PeriodicalExecutor, TLC

CONSTANTS t1, t2, t3, a1, a2, b1, b2, c1

ThreeTasks == {t1, t2, t3}
TwoAdders == {a1, a2}
OneCaller == {c1}
TwoFlushers == {b1, b2}

\* A container of two tasks that one large task fills alone.
SomeSizes == (t1 :> 1) @@ (t2 :> 1) @@ (t3 :> 2)

\* A container that is full with every second task.
EqualSizes == [t \in Tasks |-> 1]
=============================================================================
