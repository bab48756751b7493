------------------------------ MODULE MCLimit ------------------------------
(***************************************************************************)
(* Small instances of Limit.                                               *)
(***************************************************************************)
EXTENDS Limit, TLC

CONSTANTS p1, c1, c2

OneProc == {p1}
TwoCallers == {c1, c2}
OneHome == [c \in TwoCallers |-> p1]

Token(r, b) == [limiter |-> "token", rate |-> r, burst |-> b,
                period |-> 1, quota |-> 1, align |-> FALSE]
PeriodOf(p, q, a) == [limiter |-> "period", rate |-> 1, burst |-> 1,
                      period |-> p, quota |-> q, align |-> a]

\* A bucket that is full in one second and expires after two, one whose ttl is
\* zero, and quotas per calendar period and per period from the first permit.
SomeLimiters == {Token(2, 2), Token(3, 1),
                 PeriodOf(2, 2, TRUE), PeriodOf(2, 2, FALSE)}
=============================================================================
