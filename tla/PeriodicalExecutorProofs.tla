---------------------- MODULE PeriodicalExecutorProofs ----------------------
(***************************************************************************)
(* Theorems about PeriodicalExecutor, for any number of tasks, sizes,      *)
(* adders, callers and background goroutines.                              *)
(***************************************************************************)
EXTENDS PeriodicalExecutor, FiniteSetTheorems, TLAPS

USE DEF Procs, AdderPc, FlushPc, CallerPc, FlusherPc, queues, counters, flusher, calls

LEMMA InitType == Init => Types
<1> SUFFICES ASSUME Init PROVE Types
  OBVIOUS
<1>1. pc \in [Procs -> AdderPc \cup CallerPc \cup FlusherPc]
  BY DEF Init
<1>2. /\ \A a \in Adders : pc[a] \in AdderPc
      /\ \A c \in Callers : pc[c] \in CallerPc
      /\ \A b \in Flushers : pc[b] \in FlusherPc
  BY ProcAssumption DEF Init
<1>3. /\ batch \in [Procs -> SUBSET Tasks]
      /\ called \in [Callers -> SUBSET Tasks]
      /\ adding \in [Adders -> Tasks \cup {Nobody}]
      /\ commanded \in [Flushers -> BOOLEAN]
  BY DEF Init
<1>4. guarded \in BOOLEAN
  BY DEF Init
<1> QED
  BY <1>1, <1>2, <1>3, <1>4 DEF Init, Types

LEMMA NextType == Types /\ [Next]_vars => Types'
<1> SUFFICES ASSUME Types, [Next]_vars PROVE Types'
  OBVIOUS
<1> USE ProcAssumption DEF Types
<1>1. ASSUME NEW a \in Adders, NEW t \in Tasks, AddTask(a, t) PROVE Types'
  <2> DEFINE full == Full(container \cup {t})
             next == [pc EXCEPT ![a] = IF full THEN "send" ELSE "idle"]
  <2>1. /\ next \in [Procs -> AdderPc \cup CallerPc \cup FlusherPc]
        /\ \A x \in Adders : next[x] \in AdderPc
        /\ \A c \in Callers : next[c] \in CallerPc
        /\ \A b \in Flushers : next[b] \in FlusherPc
    OBVIOUS
  <2>2. pc' = next \/ \E b \in Flushers : pc' = [next EXCEPT ![b] = "loop"]
    BY <1>1 DEF AddTask, Spawn
  <2>3. /\ pc' \in [Procs -> AdderPc \cup CallerPc \cup FlusherPc]
        /\ \A x \in Adders : pc'[x] \in AdderPc
        /\ \A c \in Callers : pc'[c] \in CallerPc
        /\ \A b \in Flushers : pc'[b] \in FlusherPc
    BY <2>1, <2>2
  <2>4. commanded' \in [Flushers -> BOOLEAN]
    BY <1>1 DEF AddTask, Spawn
  <2>5. /\ batch' \in [Procs -> SUBSET Tasks]
        /\ container' \subseteq Tasks
        /\ adding' \in [Adders -> Tasks \cup {Nobody}]
        /\ inflight' \in Int
    BY <1>1 DEF AddTask
  <2> QED
    BY <1>1, <2>3, <2>4, <2>5 DEF AddTask
<1>2. ASSUME NEW a \in Adders, Send(a) PROVE Types'
  BY <1>2 DEF Send, SendThen
<1>3. ASSUME NEW b \in Flushers, Receive(b) PROVE Types'
  BY <1>3 DEF Receive, TakeCommand
<1>4. ASSUME NEW b \in Flushers, Tick(b) PROVE Types'
  BY <1>4 DEF Tick
<1>5. ASSUME NEW b \in Flushers, ShallQuit(b) PROVE Types'
  BY <1>5 DEF ShallQuit, Quit
<1>6. ASSUME NEW b \in Flushers, StayOn(b) PROVE Types'
  BY <1>6 DEF StayOn
<1>7. ASSUME NEW b \in Flushers, NEW a \in Adders, Confirm(b, a) PROVE Types'
  BY <1>7 DEF Confirm
<1>8. ASSUME NEW p \in Flushers \cup Callers, EnterExecution(p) PROVE Types'
  BY <1>8 DEF EnterExecution, Enter
<1>9. ASSUME NEW p \in Flushers \cup Callers, RemoveAll(p) PROVE Types'
  BY <1>9 DEF RemoveAll, Take
<1>10. ASSUME NEW p \in Flushers \cup Callers, ExecuteTasks(p) PROVE Types'
  BY <1>10 DEF ExecuteTasks, AfterExecute
<1>11. ASSUME NEW c \in Callers, CallFlush(c) PROVE Types'
  BY <1>11 DEF CallFlush, Returned, Added, Handed
<1>12. ASSUME NEW c \in Callers, TakeBarrier(c) PROVE Types'
  BY <1>12 DEF TakeBarrier
<1>13. ASSUME NEW c \in Callers, WaitReturn(c) PROVE Types'
  BY <1>13 DEF WaitReturn, EndWait
<1>14. CASE UNCHANGED vars
  BY <1>14 DEF vars
<1> QED
  BY <1>1, <1>2, <1>3, <1>4, <1>5, <1>6, <1>7, <1>8, <1>9, <1>10, <1>11, <1>12,
     <1>13, <1>14 DEF Next

-----------------------------------------------------------------------------
LEMMA InitOnce == Init => ExecutedOnce
BY DEF Init, ExecutedOnce

LEMMA NextOnce == Types /\ ExecutedOnce /\ [Next]_vars => ExecutedOnce'
<1> SUFFICES ASSUME Types, ExecutedOnce, [Next]_vars PROVE ExecutedOnce'
  OBVIOUS
<1> USE DEF ExecutedOnce
<1>0. batch \in [Procs -> SUBSET Tasks]
  BY DEF Types
<1>1. ASSUME NEW a \in Adders, NEW t \in Tasks, AddTask(a, t) PROVE ExecutedOnce'
  <2>1. t \notin container \cup commander \cup executed /\ \A p \in Procs : t \notin batch[p]
    BY <1>1 DEF AddTask, Added, Handed
  <2>2. CASE Full(container \cup {t})
    <3>1. /\ batch' = [batch EXCEPT ![a] = container \cup {t}]
          /\ container' = {}
          /\ UNCHANGED <<commander, executed>>
      BY <1>1, <2>2 DEF AddTask
    <3> QED
      BY <1>0, <2>1, <3>1
  <2>3. CASE ~Full(container \cup {t})
    <3>1. /\ container' = container \cup {t}
          /\ UNCHANGED <<batch, commander, executed>>
      BY <1>1, <2>3 DEF AddTask
    <3> QED
      BY <1>0, <2>1, <3>1
  <2> QED
    BY <2>2, <2>3
<1>2. ASSUME NEW a \in Adders, Send(a) PROVE ExecutedOnce'
  BY <1>0, <1>2 DEF Send, SendThen
<1>3. ASSUME NEW b \in Flushers, Receive(b) PROVE ExecutedOnce'
  BY <1>0, <1>3 DEF Receive, TakeCommand
<1>4. ASSUME NEW p \in Flushers \cup Callers, RemoveAll(p) PROVE ExecutedOnce'
  BY <1>0, <1>4 DEF RemoveAll, Take
<1>5. ASSUME NEW p \in Flushers \cup Callers, ExecuteTasks(p) PROVE ExecutedOnce'
  BY <1>0, <1>5 DEF ExecuteTasks
<1>6. ASSUME UNCHANGED <<container, commander, batch, executed>> PROVE ExecutedOnce'
  BY <1>6
<1>7. ASSUME NEW b \in Flushers, Tick(b) \/ ShallQuit(b) \/ StayOn(b) PROVE ExecutedOnce'
  BY <1>6, <1>7 DEF Tick, ShallQuit, Quit, StayOn
<1>8. ASSUME NEW b \in Flushers, NEW a \in Adders, Confirm(b, a) PROVE ExecutedOnce'
  BY <1>6, <1>8 DEF Confirm
<1>9. ASSUME NEW p \in Flushers \cup Callers, EnterExecution(p) PROVE ExecutedOnce'
  BY <1>6, <1>9 DEF EnterExecution, Enter
<1>10. ASSUME NEW c \in Callers, CallFlush(c) \/ TakeBarrier(c) \/ WaitReturn(c)
       PROVE ExecutedOnce'
  BY <1>6, <1>10 DEF CallFlush, TakeBarrier, WaitReturn, EndWait
<1>11. CASE UNCHANGED vars
  BY <1>6, <1>11 DEF vars
<1> QED
  BY <1>1, <1>2, <1>3, <1>4, <1>5, <1>7, <1>8, <1>9, <1>10, <1>11 DEF Next

\* No task is ever held twice, so RemoveAll under pe.lock and the commander
\* channel hand every task to exactly one execution.
THEOREM TasksExecutedOnce == Spec => []ExecutedOnce
<1>1. Init => Types /\ ExecutedOnce
  BY InitType, InitOnce
<1>2. Types /\ ExecutedOnce /\ [Next]_vars => (Types /\ ExecutedOnce)'
  BY NextType, NextOnce
<1> QED
  BY <1>1, <1>2, PTL DEF Spec

-----------------------------------------------------------------------------
HIDE DEF Procs, AdderPc, FlushPc, CallerPc, FlusherPc

Places == AdderPc \cup CallerPc \cup FlusherPc

\* Counting goroutines: what one goroutine's move does to a count.
LEMMA CountNat ==
  ASSUME NEW at, NEW S, IsFiniteSet(S), NEW L
  PROVE  Count(at, S, L) \in Nat
BY FS_Subset, FS_CardinalityType DEF Count

LEMMA CountZero ==
  ASSUME NEW at, NEW S, IsFiniteSet(S), NEW L
  PROVE  Count(at, S, L) = 0 <=> \A x \in S : at[x] \notin L
<1>1. IsFiniteSet({x \in S : at[x] \in L})
  BY FS_Subset
<1> QED
  BY <1>1, FS_EmptySet DEF Count

LEMMA CountSame ==
  ASSUME NEW at, NEW new, NEW S, NEW L, \A x \in S : new[x] \in L <=> at[x] \in L
  PROVE  Count(new, S, L) = Count(at, S, L)
<1>1. {x \in S : new[x] \in L} = {x \in S : at[x] \in L}
  OBVIOUS
<1> QED
  BY <1>1 DEF Count

LEMMA CountUp ==
  ASSUME NEW at, NEW new, NEW S, IsFiniteSet(S), NEW L, NEW p \in S,
         new[p] \in L, at[p] \notin L, \A x \in S \ {p} : new[x] \in L <=> at[x] \in L
  PROVE  Count(new, S, L) = Count(at, S, L) + 1
<1>1. {x \in S : new[x] \in L} = {x \in S : at[x] \in L} \cup {p}
  OBVIOUS
<1>2. IsFiniteSet({x \in S : at[x] \in L})
  BY FS_Subset
<1> QED
  BY <1>1, <1>2, FS_AddElement DEF Count

LEMMA CountDown ==
  ASSUME NEW at, NEW new, NEW S, IsFiniteSet(S), NEW L, NEW p \in S,
         new[p] \notin L, at[p] \in L, \A x \in S \ {p} : new[x] \in L <=> at[x] \in L
  PROVE  Count(new, S, L) = Count(at, S, L) - 1
<1>1. {x \in S : new[x] \in L} = {x \in S : at[x] \in L} \ {p}
  OBVIOUS
<1>2. IsFiniteSet({x \in S : at[x] \in L})
  BY FS_Subset
<1> QED
  BY <1>1, <1>2, FS_RemoveElement DEF Count

LEMMA CountsNat ==
  ASSUME NEW at
  PROVE  /\ Sending(at) \in Nat
         /\ Confirming(at) \in Nat
         /\ Unconfirmed(at) \in Nat
         /\ Executing(at) \in Nat
<1>1. IsFiniteSet(Flushers \cup Callers)
  BY FiniteAssumption, FS_Union
<1> QED
  BY <1>1, FiniteAssumption, CountNat DEF Sending, Confirming, Unconfirmed, Executing

\* Goroutine p alone moves, to s.
Moves(at, new, p, s) == new[p] = s /\ \A x \in Procs \ {p} : new[x] = at[x]

\* What that does to the counts, for an adder and for any other goroutine.
AdderCounts(at, new, a, s) ==
    /\ Unconfirmed(new) = Unconfirmed(at)
    /\ Executing(new) = Executing(at)
    /\ Sending(new) = Sending(at) + (IF s = "send" THEN 1 ELSE 0)
                                   - (IF at[a] = "send" THEN 1 ELSE 0)
    /\ Confirming(new) = Confirming(at) + (IF s = "confirm" THEN 1 ELSE 0)
                                         - (IF at[a] = "confirm" THEN 1 ELSE 0)

OtherCounts(at, new, p, s) ==
    /\ Sending(new) = Sending(at)
    /\ Confirming(new) = Confirming(at)
    /\ Unconfirmed(new) = Unconfirmed(at)
         + (IF p \in Flushers /\ s \in {"cmdEnter", "cmdConfirm"} THEN 1 ELSE 0)
         - (IF p \in Flushers /\ at[p] \in {"cmdEnter", "cmdConfirm"} THEN 1 ELSE 0)
    /\ Executing(new) = Executing(at) + (IF s \in Entered THEN 1 ELSE 0)
                                       - (IF at[p] \in Entered THEN 1 ELSE 0)

\* An adder that moves changes no count of background goroutines and callers.
LEMMA AdderMoves ==
  ASSUME NEW at, NEW new, NEW a \in Adders, NEW s, Moves(at, new, a, s)
  PROVE  AdderCounts(at, new, a, s)
<1>1. new[a] = s /\ \A x \in Procs \ {a} : new[x] = at[x]
  BY DEF Moves
<1>2. \A x \in Flushers \cup Callers : new[x] = at[x]
  BY <1>1, ProcAssumption DEF Procs
<1>3. Unconfirmed(new) = Unconfirmed(at)
  BY <1>2 DEF Unconfirmed, Count
<1>4. Executing(new) = Executing(at)
  BY <1>2 DEF Executing, Count
<1>5. \A x \in Adders \ {a} : new[x] = at[x]
  BY <1>1 DEF Procs
<1>6. ASSUME NEW l
      PROVE  Count(new, Adders, {l}) = Count(at, Adders, {l}) + (IF s = l THEN 1 ELSE 0)
                                           - (IF at[a] = l THEN 1 ELSE 0)
  <2>1. Count(at, Adders, {l}) \in Nat
    BY FiniteAssumption, CountNat
  <2>2. \A x \in Adders \ {a} : new[x] \in {l} <=> at[x] \in {l}
    BY <1>5
  <2>3. CASE (s = l) <=> (at[a] = l)
    <3>1. \A x \in Adders : new[x] \in {l} <=> at[x] \in {l}
      BY <1>1, <2>2, <2>3
    <3>2. Count(new, Adders, {l}) = Count(at, Adders, {l})
      BY <3>1, CountSame
    <3> QED
      BY <2>1, <2>3, <3>2
  <2>4. CASE s = l /\ at[a] # l
    <3>1. new[a] \in {l} /\ at[a] \notin {l}
      BY <1>1, <2>4
    <3>2. Count(new, Adders, {l}) = Count(at, Adders, {l}) + 1
      BY <2>2, <3>1, FiniteAssumption, CountUp
    <3> QED
      BY <2>1, <2>4, <3>2
  <2>5. CASE s # l /\ at[a] = l
    <3>1. new[a] \notin {l} /\ at[a] \in {l}
      BY <1>1, <2>5
    <3>2. Count(new, Adders, {l}) = Count(at, Adders, {l}) - 1
      BY <2>2, <3>1, FiniteAssumption, CountDown
    <3> QED
      BY <2>1, <2>5, <3>2
  <2> QED
    BY <2>3, <2>4, <2>5
<1> QED
  BY <1>3, <1>4, <1>6 DEF AdderCounts, Sending, Confirming

\* A background goroutine or caller that moves changes no count of adders.
LEMMA OtherMoves ==
  ASSUME NEW at, NEW new, NEW p \in Flushers \cup Callers, NEW s, Moves(at, new, p, s)
  PROVE  OtherCounts(at, new, p, s)
<1>1. new[p] = s /\ \A x \in Procs \ {p} : new[x] = at[x]
  BY DEF Moves
<1>2. \A x \in Adders : new[x] = at[x]
  BY <1>1, ProcAssumption DEF Procs
<1>3. Sending(new) = Sending(at) /\ Confirming(new) = Confirming(at)
  BY <1>2 DEF Sending, Confirming, Count
<1>4. ASSUME NEW S \in SUBSET (Flushers \cup Callers), NEW L
      PROVE  Count(new, S, L) = Count(at, S, L) + (IF p \in S /\ s \in L THEN 1 ELSE 0)
                                                - (IF p \in S /\ at[p] \in L THEN 1 ELSE 0)
  <2>1. IsFiniteSet(S)
    BY FiniteAssumption, FS_Union, FS_Subset
  <2>2. Count(at, S, L) \in Nat
    BY <2>1, CountNat
  <2>3. \A x \in S \ {p} : new[x] \in L <=> at[x] \in L
    BY <1>1 DEF Procs
  <2>4. CASE p \in S => (s \in L <=> at[p] \in L)
    <3>1. \A x \in S : new[x] \in L <=> at[x] \in L
      BY <1>1, <2>3, <2>4
    <3>2. Count(new, S, L) = Count(at, S, L)
      BY <3>1, CountSame
    <3> QED
      BY <2>2, <2>4, <3>2
  <2>5. CASE p \in S /\ s \in L /\ at[p] \notin L
    <3>1. Count(new, S, L) = Count(at, S, L) + 1
      BY <1>1, <2>1, <2>3, <2>5, CountUp
    <3> QED
      BY <2>2, <2>5, <3>1
  <2>6. CASE p \in S /\ s \notin L /\ at[p] \in L
    <3>1. Count(new, S, L) = Count(at, S, L) - 1
      BY <1>1, <2>1, <2>3, <2>6, CountDown
    <3> QED
      BY <2>2, <2>6, <3>1
  <2> QED
    BY <2>4, <2>5, <2>6
<1> QED
  BY <1>3, <1>4 DEF OtherCounts, Unconfirmed, Executing

-----------------------------------------------------------------------------
\* A batch an adder is about to send is not empty.
SendsSomething == \A a \in Adders : pc[a] = "send" => batch[a] # {}

\* The three counters agree with where the goroutines are.
Counters == SendsSomething /\ InflightExact /\ ConfirmBalance /\ WaitGroupExact

LEMMA InitCounters == Init => Counters
<1> SUFFICES ASSUME Init PROVE Counters
  OBVIOUS
<1>1. /\ \A a \in Adders : pc[a] = "idle"
      /\ \A p \in Flushers \cup Callers : pc[p] \in {"idle", "dead"}
  BY ProcAssumption DEF Init, Procs
<1>2. IsFiniteSet(Flushers \cup Callers)
  BY FiniteAssumption, FS_Union
<1>3. Sending(pc) = 0 /\ Confirming(pc) = 0
  BY <1>1, FiniteAssumption, CountZero DEF Sending, Confirming
<1>4. Unconfirmed(pc) = 0
  BY <1>1, FiniteAssumption, CountZero DEF Unconfirmed
<1>5. Executing(pc) = 0
  BY <1>1, <1>2, CountZero DEF Executing, Entered
<1>6. inflight = 0 /\ waitGroup = 0 /\ Occupied = 0
  BY DEF Init, Occupied
<1>7. SendsSomething
  BY <1>1 DEF SendsSomething
<1> QED
  BY <1>3, <1>4, <1>5, <1>6, <1>7 DEF Counters, InflightExact, ConfirmBalance, WaitGroupExact

\* The counters stay right in a step that changes none of them and moves no
\* goroutine in or out of what they count.
LEMMA CountersKept ==
  ASSUME Types, Counters, NEW p \in Flushers \cup Callers, NEW s,
         Moves(pc, pc', p, s), UNCHANGED <<commander, counters>>,
         \A a \in Adders : batch'[a] = batch[a],
         s \in Entered <=> pc[p] \in Entered,
         s \in {"cmdEnter", "cmdConfirm"} <=> pc[p] \in {"cmdEnter", "cmdConfirm"}
  PROVE  Counters'
<1>1. SendsSomething'
  BY ProcAssumption DEF Counters, SendsSomething, Moves, Procs
<1>2. /\ Sending(pc') = Sending(pc)
      /\ Confirming(pc') = Confirming(pc)
      /\ Unconfirmed(pc') = Unconfirmed(pc)
      /\ Executing(pc') = Executing(pc)
  <2>1. OtherCounts(pc, pc', p, s)
    BY OtherMoves
  <2> QED
    BY <2>1, CountsNat DEF OtherCounts
<1>3. inflight' = inflight /\ waitGroup' = waitGroup /\ Occupied' = Occupied
  BY DEF Occupied, counters
<1> QED
  BY <1>1, <1>2, <1>3 DEF Counters, InflightExact, ConfirmBalance, WaitGroupExact

LEMMA NextCounters == Types /\ Counters /\ [Next]_vars => Counters'
<1> SUFFICES ASSUME Types, Counters, [Next]_vars PROVE Counters'
  OBVIOUS
<1> USE DEF Counters, InflightExact, ConfirmBalance, WaitGroupExact
<1>0. /\ pc \in [Procs -> Places]
      /\ batch \in [Procs -> SUBSET Tasks]
      /\ inflight \in Int /\ waitGroup \in Int
      /\ Adders \subseteq Procs /\ Flushers \cup Callers \subseteq Procs
      /\ \A b \in Flushers \cup Callers : b \notin Adders
  BY ProcAssumption DEF Types, Places, Procs
<1>1. ASSUME NEW a \in Adders, NEW t \in Tasks, AddTask(a, t) PROVE Counters'
  <2> DEFINE full == Full(container \cup {t})
             place == IF full THEN "send" ELSE "idle"
             next == [pc EXCEPT ![a] = place]
  <2>1. pc[a] = "idle" /\ Moves(pc, next, a, place)
    BY <1>0, <1>1 DEF AddTask, Moves
  <2>2. /\ Sending(next) = Sending(pc) + (IF full THEN 1 ELSE 0)
        /\ Confirming(next) = Confirming(pc)
        /\ Unconfirmed(next) = Unconfirmed(pc)
        /\ Executing(next) = Executing(pc)
    <3> HIDE DEF next, full
    <3>1. AdderCounts(pc, next, a, place)
      BY <2>1, AdderMoves
    <3> QED
      BY <2>1, <3>1, CountsNat DEF AdderCounts
  <2>3. /\ Sending(pc') = Sending(next)
        /\ Confirming(pc') = Confirming(next)
        /\ Unconfirmed(pc') = Unconfirmed(next)
        /\ Executing(pc') = Executing(next)
        /\ pc'[a] = place
        /\ \A x \in Adders \ {a} : pc'[x] = pc[x]
    <3>1. CASE pc' = next
      BY <1>0, <3>1
    <3>2. CASE pc' # next
      <4>1. PICK b \in Flushers : pc[b] = "dead" /\ pc' = [next EXCEPT ![b] = "loop"]
        BY <1>1, <3>2 DEF AddTask, Spawn
      <4>2. Moves(next, pc', b, "loop") /\ next[b] = "dead" /\ b \notin Adders
        BY <1>0, <4>1 DEF Moves
      <4>3. \A x \in Adders : pc'[x] = next[x]
        BY <1>0, <4>1, <4>2 DEF Moves
      <4> HIDE DEF next
      <4>4. /\ Sending(pc') = Sending(next)
            /\ Confirming(pc') = Confirming(next)
            /\ Unconfirmed(pc') = Unconfirmed(next)
            /\ Executing(pc') = Executing(next)
        BY <4>2, OtherMoves, CountsNat DEF OtherCounts, Entered
      <4> QED
        BY <1>0, <2>1, <4>3, <4>4 DEF Moves
    <3> QED
      BY <3>1, <3>2
  <2>4. /\ inflight' = inflight + (IF full THEN 1 ELSE 0)
        /\ waitGroup' = waitGroup
        /\ Occupied' = Occupied
    BY <1>0, <1>1 DEF AddTask, Occupied
  <2>5. SendsSomething'
    <3>1. CASE full
      BY <1>0, <1>1, <2>3, <3>1 DEF AddTask, SendsSomething
    <3>2. CASE ~full
      BY <1>0, <1>1, <2>3, <3>2 DEF AddTask, SendsSomething
    <3> QED
      BY <3>1, <3>2
  <2> HIDE DEF next, full
  <2> QED
    BY <2>2, <2>3, <2>4, <2>5, CountsNat DEF Occupied
<1>2. ASSUME NEW a \in Adders, Send(a) PROVE Counters'
  <2>1. pc[a] = "send" /\ Moves(pc, pc', a, "confirm")
    BY <1>0, <1>2 DEF Send, SendThen, Moves
  <2>2. /\ Sending(pc') = Sending(pc) - 1
        /\ Confirming(pc') = Confirming(pc) + 1
        /\ Unconfirmed(pc') = Unconfirmed(pc)
        /\ Executing(pc') = Executing(pc)
    <3>1. AdderCounts(pc, pc', a, "confirm")
      BY <2>1, AdderMoves
    <3> QED
      BY <2>1, <3>1, CountsNat DEF AdderCounts
  <2>3. Occupied = 0 /\ Occupied' = 1
    BY <1>2, <2>1 DEF Send, SendThen, SendsSomething, Occupied
  <2>4. inflight' = inflight /\ waitGroup' = waitGroup
    BY <1>2 DEF Send, SendThen
  <2>5. SendsSomething'
    BY <1>0, <1>2, <2>1 DEF Send, SendThen, SendsSomething, Moves
  <2> QED
    BY <1>0, <2>2, <2>3, <2>4, <2>5, CountsNat
<1>3. ASSUME NEW b \in Flushers, Receive(b) PROVE Counters'
  <2>1. pc[b] = "loop" /\ Moves(pc, pc', b, "cmdEnter")
    BY <1>0, <1>3 DEF Receive, TakeCommand, Moves
  <2>2. /\ Sending(pc') = Sending(pc)
        /\ Confirming(pc') = Confirming(pc)
        /\ Unconfirmed(pc') = Unconfirmed(pc) + 1
        /\ Executing(pc') = Executing(pc)
    <3>1. OtherCounts(pc, pc', b, "cmdEnter")
      BY <2>1, OtherMoves
    <3> QED
      BY <2>1, <3>1, CountsNat DEF OtherCounts, Entered
  <2>3. Occupied = 1 /\ Occupied' = 0
    BY <1>3 DEF Receive, TakeCommand, Occupied
  <2>4. inflight' = inflight - 1 /\ waitGroup' = waitGroup
    BY <1>3 DEF Receive, TakeCommand
  <2>5. SendsSomething'
    BY <1>0, <1>3, <2>1 DEF Receive, TakeCommand, SendsSomething, Moves
  <2> QED
    BY <1>0, <2>2, <2>3, <2>4, <2>5, CountsNat
<1>4. ASSUME NEW b \in Flushers, Tick(b) PROVE Counters'
  <2>1. pc[b] = "loop" /\ (Moves(pc, pc', b, "loop") \/ Moves(pc, pc', b, "enter"))
    BY <1>0, <1>4 DEF Tick, Moves
  <2>2. UNCHANGED <<commander, counters, batch>>
    BY <1>4 DEF Tick
  <2> QED
    BY <2>1, <2>2, CountersKept DEF Entered
<1>5. ASSUME NEW b \in Flushers, ShallQuit(b) PROVE Counters'
  <2>1. pc[b] = "check" /\ Moves(pc, pc', b, "enter") /\ UNCHANGED <<commander, counters, batch>>
    BY <1>0, <1>5 DEF ShallQuit, Quit, Moves
  <2> QED
    BY <2>1, CountersKept DEF Entered
<1>6. ASSUME NEW b \in Flushers, StayOn(b) PROVE Counters'
  <2>1. pc[b] = "check" /\ Moves(pc, pc', b, "loop") /\ UNCHANGED <<commander, counters, batch>>
    BY <1>0, <1>6 DEF StayOn, Moves
  <2> QED
    BY <2>1, CountersKept DEF Entered
<1>7. ASSUME NEW b \in Flushers, NEW a \in Adders, Confirm(b, a) PROVE Counters'
  <2> DEFINE mid == [pc EXCEPT ![b] = "cmdExecute"]
  <2>1. /\ pc[b] = "cmdConfirm" /\ Moves(pc, mid, b, "cmdExecute")
        /\ mid[a] = "confirm" /\ Moves(mid, pc', a, "idle")
    BY <1>0, <1>7 DEF Confirm, Moves
  <2>2. UNCHANGED <<commander, counters, batch>>
    BY <1>7 DEF Confirm
  <2>3. SendsSomething'
    BY <1>0, <1>7 DEF Confirm, SendsSomething
  <2> HIDE DEF mid
  <2>4. /\ Sending(mid) = Sending(pc)
        /\ Confirming(mid) = Confirming(pc)
        /\ Unconfirmed(mid) = Unconfirmed(pc) - 1
        /\ Executing(mid) = Executing(pc)
    <3>1. OtherCounts(pc, mid, b, "cmdExecute")
      BY <2>1, OtherMoves
    <3> QED
      BY <2>1, <3>1, CountsNat DEF OtherCounts, Entered
  <2>5. /\ Sending(pc') = Sending(mid)
        /\ Confirming(pc') = Confirming(mid) - 1
        /\ Unconfirmed(pc') = Unconfirmed(mid)
        /\ Executing(pc') = Executing(mid)
    <3>1. AdderCounts(mid, pc', a, "idle")
      BY <2>1, AdderMoves
    <3> QED
      BY <2>1, <3>1, CountsNat DEF AdderCounts
  <2>6. Occupied' = Occupied /\ Occupied \in Int
    BY <2>2 DEF Occupied
  <2> QED
    BY <2>2, <2>3, <2>4, <2>5, <2>6, CountsNat
<1>8. ASSUME NEW p \in Flushers \cup Callers, EnterExecution(p) PROVE Counters'
  <2>1. PICK s \in {"cmdConfirm", "take"} :
          /\ pc[p] = (IF s = "cmdConfirm" THEN "cmdEnter" ELSE "enter")
          /\ Moves(pc, pc', p, s)
    BY <1>0, <1>8 DEF EnterExecution, Enter, Moves
  <2>2. waitGroup' = waitGroup + 1 /\ UNCHANGED <<commander, inflight, batch>>
    BY <1>8 DEF EnterExecution, Enter
  <2>3. SendsSomething'
    BY <1>0, <2>1, <2>2 DEF SendsSomething, Moves
  <2>4. /\ Sending(pc') = Sending(pc)
        /\ Confirming(pc') = Confirming(pc)
        /\ Unconfirmed(pc') = Unconfirmed(pc)
        /\ Executing(pc') = Executing(pc) + 1
    <3>1. OtherCounts(pc, pc', p, s)
      BY <2>1, OtherMoves
    <3> QED
      BY <2>1, <3>1, CountsNat DEF OtherCounts, Entered
  <2>5. Occupied' = Occupied
    BY <2>2 DEF Occupied
  <2> QED
    BY <2>2, <2>3, <2>4, <2>5
<1>9. ASSUME NEW p \in Flushers \cup Callers, RemoveAll(p) PROVE Counters'
  <2>1. /\ pc[p] = "take" /\ Moves(pc, pc', p, "execute")
        /\ UNCHANGED <<commander, counters>>
        /\ \A a \in Adders : batch'[a] = batch[a]
    BY <1>0, <1>9 DEF RemoveAll, Take, Moves
  <2> QED
    BY <2>1, CountersKept DEF Entered
<1>10. ASSUME NEW p \in Flushers \cup Callers, ExecuteTasks(p) PROVE Counters'
  <2>1. PICK s \in {"idle", "barrier", "dead", "loop", "check"} : Moves(pc, pc', p, s)
    BY <1>0, <1>10 DEF ExecuteTasks, AfterExecute, Moves
  <2>2. /\ pc[p] \in {"cmdExecute", "execute"}
        /\ waitGroup' = waitGroup - 1 /\ UNCHANGED <<commander, inflight>>
        /\ \A a \in Adders : batch'[a] = batch[a]
    BY <1>0, <1>10 DEF ExecuteTasks
  <2>3. SendsSomething'
    BY <1>0, <2>1, <2>2 DEF SendsSomething, Moves
  <2>4. /\ Sending(pc') = Sending(pc)
        /\ Confirming(pc') = Confirming(pc)
        /\ Unconfirmed(pc') = Unconfirmed(pc)
        /\ Executing(pc') = Executing(pc) - 1
    <3>1. OtherCounts(pc, pc', p, s)
      BY <2>1, OtherMoves
    <3> QED
      BY <2>1, <2>2, <3>1, CountsNat DEF OtherCounts, Entered
  <2>5. Occupied' = Occupied
    BY <2>2 DEF Occupied
  <2> QED
    BY <2>2, <2>3, <2>4, <2>5
<1>11. ASSUME NEW c \in Callers, CallFlush(c) \/ TakeBarrier(c) \/ WaitReturn(c)
       PROVE Counters'
  <2>1. PICK s \in {"enter", "wait", "idle"} :
          /\ pc[c] \in {"idle", "barrier", "wait"} /\ Moves(pc, pc', c, s)
          /\ UNCHANGED <<commander, counters, batch>>
    BY <1>0, <1>11 DEF CallFlush, TakeBarrier, WaitReturn, EndWait, Moves
  <2> QED
    BY <2>1, CountersKept DEF Entered
<1>12. CASE UNCHANGED vars
  <2>1. UNCHANGED <<pc, inflight, waitGroup, commander, batch>>
    BY <1>12 DEF vars
  <2> QED
    BY <2>1 DEF SendsSomething, Occupied
<1> QED
  BY <1>1, <1>2, <1>3, <1>4, <1>5, <1>6, <1>7, <1>8, <1>9, <1>10, <1>11, <1>12 DEF Next

-----------------------------------------------------------------------------
\* A background goroutine that quits is in its deferred Flush.
QuittingFlushes == \A b \in quitting : pc[b] \in FlushPc

Served == QuittingFlushes /\ GuardedIsServed

LEMMA InitServed == Init => Served
<1> SUFFICES ASSUME Init PROVE Served
  OBVIOUS
<1>1. guarded = FALSE /\ quitting = {} /\ commander = {}
  BY DEF Init
<1>2. Serving = {} /\ \A a \in Adders : pc[a] = "idle"
  BY ProcAssumption DEF Init, Procs, Serving
<1> QED
  BY <1>1, <1>2 DEF Served, QuittingFlushes, GuardedIsServed

\* No adder waits for anything when shallQuit finds nothing in flight: a batch
\* that was received is confirmed by the goroutine that serves, and that one is
\* at its check.
LEMMA NobodyWaits ==
  ASSUME Types, Counters, Served, NEW b \in Flushers, pc[b] = "check", inflight = 0
  PROVE  commander = {} /\ \A a \in Adders : pc[a] = "idle"
<1>1. Sending(pc) = 0 /\ Occupied = 0
  BY CountsNat DEF Counters, InflightExact, Occupied
<1>2. b \in Serving
  BY DEF Served, QuittingFlushes, Serving, FlushPc
<1>3. \A f \in Flushers : pc[f] \notin {"cmdEnter", "cmdConfirm"}
  <2> TAKE f \in Flushers
  <2>1. CASE f \in Serving
    BY <1>2, <2>1 DEF Served, GuardedIsServed
  <2>2. CASE f \notin Serving
    BY <2>2 DEF Serving, Served, QuittingFlushes, FlushPc
  <2> QED
    BY <2>1, <2>2
<1>4. Unconfirmed(pc) = 0
  BY <1>3, FiniteAssumption, CountZero DEF Unconfirmed
<1>5. Confirming(pc) = 0
  BY <1>1, <1>4 DEF Counters, ConfirmBalance
<1>6. \A a \in Adders : pc[a] \notin {"send"} /\ pc[a] \notin {"confirm"}
  BY <1>1, <1>5, FiniteAssumption, CountZero DEF Sending, Confirming
<1> QED
  BY <1>1, <1>6 DEF Occupied, Types, AdderPc

LEMMA NextServed == Types /\ Counters /\ Served /\ [Next]_vars => Served'
<1> SUFFICES ASSUME Types, Counters, Served, [Next]_vars PROVE Served'
  OBVIOUS
<1> USE DEF Served, QuittingFlushes, GuardedIsServed, Serving
<1>0. /\ pc \in [Procs -> Places]
      /\ Adders \subseteq Procs /\ Flushers \cup Callers \subseteq Procs
      /\ \A b \in Flushers \cup Callers : b \notin Adders
      /\ \A b \in Flushers : b \notin Callers
      /\ quitting \subseteq Flushers
      /\ guarded \in BOOLEAN
  BY ProcAssumption DEF Types, Places, Procs
<1>1. ASSUME NEW a \in Adders, NEW t \in Tasks, AddTask(a, t) PROVE Served'
  <2>0. guarded' = TRUE /\ quitting' = quitting
    BY <1>1 DEF AddTask
  <2>1. CASE guarded
    <3>1. \A b \in Flushers : pc'[b] = pc[b]
      BY <1>0, <1>1, <2>1 DEF AddTask
    <3> QED
      BY <1>0, <2>0, <2>1, <3>1
  <2>2. CASE ~guarded
    <3>1. PICK b \in Flushers : /\ pc[b] = "dead" /\ pc'[b] = "loop"
                                /\ \A f \in Flushers \ {b} : pc'[f] = pc[f]
      BY <1>0, <1>1, <2>2 DEF AddTask, Spawn
    <3>2. b \notin quitting
      BY <3>1 DEF FlushPc
    <3>3. Serving = {} /\ Serving' = {b}
      BY <2>0, <2>2, <3>1, <3>2
    <3> QED
      BY <1>0, <2>0, <3>1, <3>2, <3>3
  <2> QED
    BY <2>1, <2>2, <1>0
<1>2. ASSUME NEW a \in Adders, Send(a) PROVE Served'
  <2>1. pc[a] = "send" /\ \A b \in Flushers : pc'[b] = pc[b]
    BY <1>0, <1>2 DEF Send, SendThen
  <2>2. UNCHANGED <<guarded, quitting>> /\ guarded
    BY <1>2, <2>1 DEF Send, SendThen
  <2> QED
    BY <1>0, <2>1, <2>2
<1>3. ASSUME NEW p \in Flushers \cup Callers, NEW s,
             Moves(pc, pc', p, s), UNCHANGED <<commander, guarded, quitting>>,
             p \in Flushers => s # "dead" /\ pc[p] # "dead",
             p \in quitting => s \in FlushPc
      PROVE  Served'
  <2>1. Serving' = Serving
    BY <1>0, <1>3 DEF Moves
  <2>2. QuittingFlushes'
    BY <1>0, <1>3 DEF Moves
  <2>3. \A a \in Adders : pc'[a] = pc[a]
    BY <1>0, <1>3 DEF Moves
  <2> QED
    BY <1>3, <2>1, <2>2, <2>3
<1>4. ASSUME NEW b \in Flushers, Receive(b) PROVE Served'
  <2>1. /\ pc[b] = "loop" /\ Moves(pc, pc', b, "cmdEnter") /\ commander # {} /\ commander' = {}
        /\ UNCHANGED <<guarded, quitting>>
    BY <1>0, <1>4 DEF Receive, TakeCommand, Moves
  <2>2. Serving' = Serving /\ QuittingFlushes'
    BY <1>0, <2>1 DEF Moves, FlushPc
  <2> QED
    BY <2>1, <2>2
<1>5. ASSUME NEW b \in Flushers, Tick(b) \/ StayOn(b) PROVE Served'
  <2>1. PICK s \in {"loop", "enter"} : Moves(pc, pc', b, s) /\ pc[b] \in {"loop", "check"}
    BY <1>0, <1>5 DEF Tick, StayOn, Moves
  <2>2. UNCHANGED <<commander, guarded, quitting>>
    BY <1>5 DEF Tick, StayOn
  <2> QED
    BY <1>3, <2>1, <2>2 DEF FlushPc
<1>6. ASSUME NEW b \in Flushers, ShallQuit(b) PROVE Served'
  <2>1. /\ pc[b] = "check" /\ inflight = 0 /\ Moves(pc, pc', b, "enter") /\ commander' = commander
        /\ guarded' = FALSE /\ quitting' = quitting \cup {b}
    BY <1>0, <1>6 DEF ShallQuit, Quit, Moves
  <2>2. commander' = {} /\ \A a \in Adders : pc'[a] = "idle"
    BY <1>0, <2>1, NobodyWaits DEF Moves
  <2>3. Serving' = {}
    BY <1>0, <2>1 DEF Moves, FlushPc
  <2>4. QuittingFlushes'
    BY <1>0, <2>1 DEF Moves, FlushPc
  <2> QED
    BY <2>1, <2>2, <2>3, <2>4
<1>7. ASSUME NEW b \in Flushers, NEW a \in Adders, Confirm(b, a) PROVE Served'
  <2>1. /\ pc[b] = "cmdConfirm" /\ pc'[b] = "cmdExecute" /\ pc[a] # "idle"
        /\ \A f \in Flushers \ {b} : pc'[f] = pc[f]
        /\ UNCHANGED <<commander, guarded, quitting>>
    BY <1>0, <1>7 DEF Confirm, flusher
  <2>2. Serving' = Serving /\ QuittingFlushes'
    BY <1>0, <2>1 DEF FlushPc
  <2>3. guarded
    BY <2>1
  <2> QED
    BY <2>1, <2>2, <2>3
<1>8. ASSUME NEW p \in Flushers \cup Callers, EnterExecution(p) \/ RemoveAll(p) PROVE Served'
  <2>1. PICK s \in {"cmdConfirm", "take", "execute"} :
          /\ Moves(pc, pc', p, s) /\ pc[p] \in {"cmdEnter", "enter", "take"}
          /\ pc[p] # "cmdEnter" => s \in {"take", "execute"}
    BY <1>0, <1>8 DEF EnterExecution, Enter, RemoveAll, Take, Moves
  <2>2. UNCHANGED <<commander, guarded, quitting>>
    BY <1>8 DEF EnterExecution, Enter, RemoveAll, Take
  <2> QED
    BY <1>3, <2>1, <2>2 DEF FlushPc
<1>9. ASSUME NEW p \in Flushers \cup Callers, ExecuteTasks(p) PROVE Served'
  <2>1. PICK s : /\ Moves(pc, pc', p, s) /\ pc[p] \in {"cmdExecute", "execute"}
                 /\ p \in quitting => s = "dead"
                 /\ p \in Flushers /\ p \notin quitting => s \in {"loop", "check"}
    BY <1>0, <1>9 DEF ExecuteTasks, AfterExecute, Moves
  <2>2. UNCHANGED <<commander, guarded>> /\ quitting' = quitting \ {p}
    BY <1>9 DEF ExecuteTasks
  <2>3. \A f \in Flushers : f \in Serving' <=> f \in Serving
    BY <1>0, <2>1, <2>2 DEF Moves
  <2>4. QuittingFlushes'
    BY <1>0, <2>1, <2>2 DEF Moves
  <2>5. \A a \in Adders : pc'[a] = pc[a]
    BY <1>0, <2>1 DEF Moves
  <2>6. Serving' = Serving
    BY <2>3
  <2> QED
    BY <2>2, <2>4, <2>5, <2>6
<1>10. ASSUME NEW c \in Callers, CallFlush(c) \/ TakeBarrier(c) \/ WaitReturn(c)
       PROVE Served'
  <2>1. PICK s \in {"enter", "wait", "idle"} : Moves(pc, pc', c, s)
    BY <1>0, <1>10 DEF CallFlush, TakeBarrier, WaitReturn, EndWait, Moves
  <2>2. UNCHANGED <<commander, guarded, quitting>>
    BY <1>10 DEF CallFlush, TakeBarrier, WaitReturn, EndWait
  <2> QED
    BY <1>0, <1>3, <2>1, <2>2
<1>11. CASE UNCHANGED vars
  BY <1>11 DEF vars
<1> QED
  BY <1>1, <1>2, <1>4, <1>5, <1>6, <1>7, <1>8, <1>9, <1>10, <1>11 DEF Next

\* The counters of pe and the places of its goroutines agree in every state:
\* inflight, the confirmations and the wait group are never off by one.
THEOREM CountersExact == Spec => [](CountersMatch /\ ConfirmBalance)
<1>1. Init => Types /\ Counters
  BY InitType, InitCounters
<1>2. Types /\ Counters /\ [Next]_vars => (Types /\ Counters)'
  BY NextType, NextCounters
<1>3. Counters => CountersMatch /\ ConfirmBalance
  BY DEF Counters, CountersMatch
<1> QED
  BY <1>1, <1>2, <1>3, PTL DEF Spec

\* Every variable keeps its type and no counter goes below zero, whatever
\* interleaving of Add, Flush, Wait and the background goroutine brought the
\* state about: each doneExecution and each receive has its enterExecution and
\* its addAndCheck before it.
THEOREM ExecutorTypes == Spec => []TypeOK
<1>1. Init => Types /\ Counters
  BY InitType, InitCounters
<1>2. Types /\ Counters /\ [Next]_vars => (Types /\ Counters)'
  BY NextType, NextCounters
<1>3. Types /\ Counters => TypeOK
  BY CountsNat DEF Counters, InflightExact, WaitGroupExact, Occupied, TypeOK
<1> QED
  BY <1>1, <1>2, <1>3, PTL DEF Spec

\* As many adders wait for a confirmation as there are batches sent and not yet
\* confirmed by backgroundFlush, so no Add waits for one that never comes.
THEOREM ConfirmationsBalance == Spec => []ConfirmBalance
BY CountersExact, PTL

\* A batch on its way is never left without the goroutine that shallQuit was
\* asked to keep, and two goroutines never serve: the check of inflight and the
\* reset of guarded under one lock are enough.
THEOREM AlwaysServed == Spec => []GuardedIsServed
<1>1. Init => Types /\ Counters /\ Served
  BY InitType, InitCounters, InitServed
<1>2. Types /\ Counters /\ Served /\ [Next]_vars => (Types /\ Counters /\ Served)'
  BY NextType, NextCounters, NextServed
<1>3. Served => GuardedIsServed
  BY DEF Served
<1> QED
  BY <1>1, <1>2, <1>3, PTL DEF Spec

-----------------------------------------------------------------------------
\* Where a goroutine has a batch in its hands.
Holding == {"send", "execute", "cmdEnter", "cmdConfirm", "cmdExecute"}

HoldsBatch == \A p \in Procs : pc[p] \notin Holding => batch[p] = {}

\* The tasks whose Add had returned before a call are somewhere, and none of them
\* is back in the container once the call's own RemoveAll has run.
Covered ==
    \A c \in Callers :
        /\ called[c] \subseteq Added
        /\ pc[c] \in {"execute", "barrier", "wait"} => called[c] \cap container = {}

LEMMA AddedAre ==
    /\ \A t : t \in Added <=> \/ t \in container \cup commander \cup executed
                              \/ \E p \in Procs : t \in batch[p]
    /\ \A t : t \in Added' <=> \/ t \in container' \cup commander' \cup executed'
                               \/ \E p \in Procs : t \in batch'[p]
BY DEF Added, Handed

\* The types these proofs need, and who is who.
LEMMA Facts ==
    ASSUME Types
    PROVE  /\ pc \in [Procs -> Places] /\ batch \in [Procs -> SUBSET Tasks]
           /\ called \in [Callers -> SUBSET Tasks]
           /\ \A a \in Adders : a \in Procs /\ a \notin Callers /\ a \notin Flushers
           /\ \A b \in Flushers : b \in Procs /\ b \notin Adders /\ b \notin Callers
           /\ \A c \in Callers : c \in Procs /\ c \notin Adders /\ c \notin Flushers
           /\ \A p \in Procs : p \in Adders \/ p \in Flushers \/ p \in Callers
           /\ \A c \in Callers : pc[c] \notin {"cmdEnter", "cmdConfirm", "cmdExecute"}
<1>1. \A c \in Callers : pc[c] \notin {"cmdEnter", "cmdConfirm", "cmdExecute"}
  BY DEF Types, CallerPc, FlushPc
<1> QED
  BY <1>1, ProcAssumption DEF Types, Places, Procs

LEMMA NextHolds == Types /\ HoldsBatch /\ [Next]_vars => HoldsBatch'
<1> SUFFICES ASSUME Types, HoldsBatch, [Next]_vars PROVE HoldsBatch'
  OBVIOUS
<1>0. /\ pc \in [Procs -> Places] /\ batch \in [Procs -> SUBSET Tasks]
      /\ \A a \in Adders : a \in Procs /\ a \notin Callers /\ a \notin Flushers
      /\ \A b \in Flushers : b \in Procs /\ b \notin Adders /\ b \notin Callers
      /\ \A c \in Callers : c \in Procs /\ c \notin Adders /\ c \notin Flushers
  BY Facts
<1> USE <1>0 DEF HoldsBatch, Holding
<1>1. ASSUME NEW a \in Adders, NEW t \in Tasks, AddTask(a, t) PROVE HoldsBatch'
  <2> DEFINE full == Full(container \cup {t})
             next == [pc EXCEPT ![a] = IF full THEN "send" ELSE "idle"]
  <2>1. pc' = next \/ \E b \in Flushers : pc[b] = "dead" /\ pc' = [next EXCEPT ![b] = "loop"]
    BY <1>1 DEF AddTask, Spawn
  <2>2. /\ pc[a] = "idle"
        /\ full => \A p \in Procs \ {a} : batch'[p] = batch[p]
        /\ ~full => batch' = batch
    BY <1>1 DEF AddTask
  <2> HIDE DEF full
  <2> QED
    BY <2>1, <2>2
<1>2. ASSUME NEW a \in Adders, Send(a) PROVE HoldsBatch'
  BY <1>2 DEF Send, SendThen
<1>3. ASSUME NEW b \in Flushers, Receive(b) PROVE HoldsBatch'
  BY <1>3 DEF Receive, TakeCommand
<1>4. ASSUME NEW b \in Flushers, Tick(b) \/ ShallQuit(b) \/ StayOn(b) PROVE HoldsBatch'
  BY <1>4 DEF Tick, ShallQuit, Quit, StayOn
<1>5. ASSUME NEW b \in Flushers, NEW a \in Adders, Confirm(b, a) PROVE HoldsBatch'
  BY <1>5 DEF Confirm
<1>6. ASSUME NEW p \in Flushers \cup Callers, EnterExecution(p) PROVE HoldsBatch'
  BY <1>6 DEF EnterExecution, Enter
<1>7. ASSUME NEW p \in Flushers \cup Callers, RemoveAll(p) PROVE HoldsBatch'
  BY <1>7 DEF RemoveAll, Take
<1>8. ASSUME NEW p \in Flushers \cup Callers, ExecuteTasks(p) PROVE HoldsBatch'
  BY <1>8 DEF ExecuteTasks
<1>9. ASSUME NEW c \in Callers, CallFlush(c) \/ TakeBarrier(c) \/ WaitReturn(c) PROVE HoldsBatch'
  BY <1>9 DEF CallFlush, TakeBarrier, WaitReturn, EndWait
<1>10. CASE UNCHANGED vars
  BY <1>10 DEF vars
<1> QED
  BY <1>1, <1>2, <1>3, <1>4, <1>5, <1>6, <1>7, <1>8, <1>9, <1>10 DEF Next

\* The tasks added stay added: every step hands them on or executes them.
LEMMA AddedKept ==
    ASSUME Types, HoldsBatch, [Next]_vars, NEW t \in Added
    PROVE  t \in Added'
<1>0. \/ t \in container \cup commander \cup executed
      \/ \E p \in Procs : t \in batch[p]
  BY AddedAre
<1> SUFFICES \/ t \in container' \cup commander' \cup executed'
             \/ \E p \in Procs : t \in batch'[p]
  BY AddedAre
<1> DEFINE Goal == \/ t \in container' \cup commander' \cup executed'
                   \/ \E p \in Procs : t \in batch'[p]
<1>a. /\ batch \in [Procs -> SUBSET Tasks]
      /\ \A a \in Adders : a \in Procs
      /\ \A b \in Flushers \cup Callers : b \in Procs
  BY Facts
<1> USE <1>0, <1>a
<1>1. ASSUME NEW a \in Adders, NEW u \in Tasks, AddTask(a, u) PROVE Goal
  <2>1. batch[a] = {}
    BY <1>1 DEF AddTask, HoldsBatch, Holding
  <2>2. UNCHANGED <<commander, executed>>
    BY <1>1 DEF AddTask
  <2>3. \/ batch' = [batch EXCEPT ![a] = container \cup {u}]
        \/ container' = container \cup {u} /\ batch' = batch
    BY <1>1 DEF AddTask
  <2> QED
    BY <2>1, <2>2, <2>3
<1>2. ASSUME NEW a \in Adders, Send(a) PROVE Goal
  BY <1>2 DEF Send, SendThen
<1>3. ASSUME NEW b \in Flushers, Receive(b) PROVE Goal
  BY <1>3 DEF Receive, TakeCommand, HoldsBatch, Holding
<1>4. ASSUME UNCHANGED <<container, commander, executed, batch>> PROVE Goal
  BY <1>4
<1>5. ASSUME NEW p \in Flushers \cup Callers, RemoveAll(p) PROVE Goal
  BY <1>5 DEF RemoveAll, Take, HoldsBatch, Holding
<1>6. ASSUME NEW p \in Flushers \cup Callers, ExecuteTasks(p) PROVE Goal
  BY <1>6 DEF ExecuteTasks
<1>7. ASSUME NEW b \in Flushers, Tick(b) \/ ShallQuit(b) \/ StayOn(b) PROVE Goal
  BY <1>4, <1>7 DEF Tick, ShallQuit, Quit, StayOn
<1>8. ASSUME NEW b \in Flushers, NEW a \in Adders, Confirm(b, a) PROVE Goal
  BY <1>4, <1>8 DEF Confirm
<1>9. ASSUME NEW p \in Flushers \cup Callers, EnterExecution(p) PROVE Goal
  BY <1>4, <1>9 DEF EnterExecution, Enter
<1>10. ASSUME NEW c \in Callers, CallFlush(c) \/ TakeBarrier(c) \/ WaitReturn(c) PROVE Goal
  BY <1>4, <1>10 DEF CallFlush, TakeBarrier, WaitReturn, EndWait
<1>11. CASE UNCHANGED vars
  BY <1>4, <1>11 DEF vars
<1> HIDE <1>0
<1> QED
  BY <1>1, <1>2, <1>3, <1>5, <1>6, <1>7, <1>8, <1>9, <1>10, <1>11 DEF Next

LEMMA NextCovered == Types /\ HoldsBatch /\ Covered /\ [Next]_vars => Covered'
<1> SUFFICES ASSUME Types, HoldsBatch, Covered, [Next]_vars, NEW c \in Callers
             PROVE  /\ called'[c] \subseteq Added'
                    /\ pc'[c] \in {"execute", "barrier", "wait"} => called'[c] \cap container' = {}
  BY DEF Covered
<1>0. /\ called[c] \subseteq Added
      /\ pc[c] \in {"execute", "barrier", "wait"} => called[c] \cap container = {}
      /\ \A t \in Added : t \in Added'
  BY AddedKept DEF Covered
<1>a. Returned \subseteq Added /\ called \in [Callers -> SUBSET Tasks]
  BY Facts DEF Returned
<1>b. /\ pc \in [Procs -> Places]
      /\ c \in Procs /\ c \notin Adders /\ c \notin Flushers
      /\ \A d \in Callers : d \in Procs
      /\ pc[c] \notin {"cmdEnter", "cmdConfirm", "cmdExecute"}
  BY Facts
<1> DEFINE Goal == /\ called'[c] \subseteq Added'
                   /\ pc'[c] \in {"execute", "barrier", "wait"} => called'[c] \cap container' = {}
<1> USE <1>0, <1>b
<1>1. ASSUME UNCHANGED called, pc'[c] = pc[c], \A t \in container' : t \in container \/ t \notin Added
      PROVE  Goal
  BY <1>1
<1>2. ASSUME NEW a \in Adders, NEW u \in Tasks, AddTask(a, u) PROVE Goal
  <2>1. u \notin Added /\ (container' = {} \/ container' = container \cup {u}) /\ UNCHANGED called
    BY <1>2 DEF AddTask
  <2>2. pc'[c] = pc[c]
    BY <1>2 DEF AddTask, Spawn
  <2> QED
    BY <1>1, <2>1, <2>2
<1>3. ASSUME NEW a \in Adders, Send(a) PROVE Goal
  BY <1>1, <1>3 DEF Send, SendThen
<1>4. ASSUME NEW b \in Flushers, Receive(b) \/ Tick(b) \/ ShallQuit(b) \/ StayOn(b) PROVE Goal
  BY <1>1, <1>4 DEF Receive, TakeCommand, Tick, ShallQuit, Quit, StayOn
<1>5. ASSUME NEW b \in Flushers, NEW a \in Adders, Confirm(b, a) PROVE Goal
  BY <1>1, <1>5 DEF Confirm
<1>6. ASSUME NEW p \in Flushers \cup Callers, EnterExecution(p) PROVE Goal
  BY <1>6 DEF EnterExecution, Enter
<1>7. ASSUME NEW p \in Flushers \cup Callers, RemoveAll(p) PROVE Goal
  BY <1>7 DEF RemoveAll, Take
<1>8. ASSUME NEW p \in Flushers \cup Callers, ExecuteTasks(p) PROVE Goal
  <2>1. /\ UNCHANGED <<called, container>>
        /\ p = c => pc[c] = "execute"
        /\ p # c => pc'[c] = pc[c]
    BY <1>8 DEF ExecuteTasks
  <2> QED
    BY <2>1
<1>9. ASSUME NEW d \in Callers, CallFlush(d) PROVE Goal
  <2>1. /\ UNCHANGED container /\ pc'[d] = "enter"
        /\ called' = [called EXCEPT ![d] = Returned]
        /\ d # c => pc'[c] = pc[c]
    BY <1>9 DEF CallFlush
  <2> QED
    BY <1>a, <2>1
<1>10. ASSUME NEW d \in Callers, TakeBarrier(d) \/ WaitReturn(d) PROVE Goal
  BY <1>10 DEF TakeBarrier, WaitReturn, EndWait
<1>11. CASE UNCHANGED vars
  BY <1>1, <1>11 DEF vars
<1> HIDE <1>0
<1> QED
  BY <1>2, <1>3, <1>4, <1>5, <1>6, <1>7, <1>8, <1>9, <1>10, <1>11 DEF Next

\* Wait returns when nobody is between enterExecution and doneExecution; what has
\* left the container is then executed, or on its way there from an adder.
LEMMA ReturnCovered ==
    ASSUME Types, Counters, HoldsBatch, Covered, [Next]_vars,
           NEW c \in Callers, pc[c] = "wait", pc'[c] = "idle"
    PROVE  called[c] \subseteq executed \cup OnTheWay
<1>0. /\ pc \in [Procs -> Places]
      /\ c \in Procs /\ c \notin Adders /\ c \notin Flushers
      /\ \A d \in Callers : pc[d] \notin {"cmdEnter", "cmdConfirm", "cmdExecute"}
      /\ \A p \in Procs : p \in Adders \/ p \in Flushers \/ p \in Callers
      /\ \A p \in Flushers \cup Callers : p \in Procs
      /\ \A p \in Callers : p \notin Adders
      /\ \A p \in Flushers \cup Callers : pc[p] # "send"
  <2>1. \A p \in Flushers \cup Callers : pc[p] # "send"
    BY DEF Types, CallerPc, FlusherPc, FlushPc
  <2> QED
    BY <2>1, Facts
<1> USE <1>0
<1>1. waitGroup = 0
  <2>1. ASSUME pc'[c] = pc[c] PROVE FALSE
    BY <2>1
  <2>2. ASSUME NEW a \in Adders, NEW u \in Tasks, AddTask(a, u) PROVE pc'[c] = pc[c]
    BY <2>2 DEF AddTask, Spawn
  <2>3. ASSUME NEW a \in Adders, Send(a) PROVE pc'[c] = pc[c]
    BY <2>3 DEF Send, SendThen
  <2>4. ASSUME NEW b \in Flushers, Receive(b) \/ Tick(b) \/ ShallQuit(b) \/ StayOn(b)
        PROVE  pc'[c] = pc[c]
    BY <2>4 DEF Receive, TakeCommand, Tick, ShallQuit, Quit, StayOn
  <2>5. ASSUME NEW b \in Flushers, NEW a \in Adders, Confirm(b, a) PROVE pc'[c] = pc[c]
    BY <2>5 DEF Confirm
  <2>6. ASSUME NEW p \in Flushers \cup Callers, EnterExecution(p) \/ RemoveAll(p) \/ ExecuteTasks(p)
        PROVE  pc'[c] = pc[c]
    BY <2>6 DEF EnterExecution, Enter, RemoveAll, Take, ExecuteTasks
  <2>7. ASSUME NEW d \in Callers, CallFlush(d) \/ TakeBarrier(d) PROVE pc'[c] = pc[c]
    BY <2>7 DEF CallFlush, TakeBarrier
  <2>8. ASSUME NEW d \in Callers, WaitReturn(d) PROVE waitGroup = 0
    BY <2>8 DEF WaitReturn, EndWait
  <2>9. CASE UNCHANGED vars
    BY <2>1, <2>9 DEF vars
  <2> QED
    BY <2>1, <2>2, <2>3, <2>4, <2>5, <2>6, <2>7, <2>8, <2>9 DEF Next
<1>2. \A p \in Flushers \cup Callers : pc[p] \notin Entered
  <2>1. Executing(pc) = 0 /\ IsFiniteSet(Flushers \cup Callers)
    BY <1>1, FiniteAssumption, FS_Union DEF Counters, WaitGroupExact
  <2> QED
    BY <2>1, CountZero DEF Executing
<1> HIDE <1>0
<1>3. \A p \in Flushers \cup Callers : batch[p] # {} => p \in Flushers /\ pc[p] = "cmdEnter"
  BY <1>0, <1>2 DEF HoldsBatch, Holding, Entered
<1>4. ASSUME NEW t \in called[c] PROVE t \in executed \cup OnTheWay
  <2>1. t \in Added /\ t \notin container
    BY DEF Covered
  <2>2. t \in commander \cup executed \/ \E p \in Procs : t \in batch[p]
    BY <2>1, AddedAre
  <2>3. ASSUME NEW p \in Procs, t \in batch[p] PROVE t \in OnTheWay
    <3>1. CASE p \in Adders
      BY <2>3, <3>1 DEF OnTheWay
    <3>2. CASE p \in Flushers \cup Callers
      <4>1. p \in {f \in Flushers : pc[f] = "cmdEnter"}
        BY <1>3, <2>3, <3>2
      <4>2. t \in UNION {batch[b] : b \in {f \in Flushers : pc[f] = "cmdEnter"}}
        BY ONLY <2>3, <4>1, Zenon
      <4> QED
        BY ONLY <4>2, Zenon DEF OnTheWay
    <3> QED
      BY <1>0, <3>1, <3>2
  <2> QED
    BY <2>2, <2>3 DEF OnTheWay
<1> QED
  BY <1>4

\* When Wait returns it has missed no task but those of batches that another
\* adder has taken out of the container and backgroundFlush has not yet entered:
\* enterExecution before RemoveAll, and the barrier, close every other gap.
THEOREM WaitMissesNoOther == Spec => WaitCovers
<1> DEFINE J == Types /\ Counters /\ HoldsBatch /\ Covered
           A == \A c \in Callers : pc[c] = "wait" /\ pc'[c] = "idle"
                    => called[c] \subseteq executed \cup OnTheWay
<1>1. Init => J
  <2>1. Init => HoldsBatch /\ Covered
    BY DEF Init, HoldsBatch, Covered
  <2> QED
    BY <2>1, InitType, InitCounters
<1>2. J /\ [Next]_vars => J'
  BY NextType, NextCounters, NextHolds, NextCovered
<1>3. J /\ [Next]_vars => [A]_vars
  BY ReturnCovered
<1> QED
  BY <1>1, <1>2, <1>3, PTL DEF Spec, WaitCovers
=============================================================================
