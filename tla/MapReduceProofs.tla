--------------------------- MODULE MapReduceProofs ---------------------------
(***************************************************************************)
(* Proofs about MapReduce: executeMappers keeps within its workers, loses  *)
(* no place of its pool, and closes the collector after the last mapper,   *)
(* for any number of items and workers and whatever the user's functions   *)
(* do; and what the caller is told when the call ends.                     *)
(***************************************************************************)
EXTENDS MapReduce, FiniteSetTheorems, TLAPS

ExecutorPc == {"loop", "select", "recv", "wait", "drain", "ended"}

\* The collector is closed on the way out of executeMappers, and nowhere else.
ClosedOnExit ==
    /\ pc[Executor] \in ExecutorPc
    /\ collectorClosed => pc[Executor] \in {"drain", "ended"}

\* The inductive invariant.
IInv == TypeOK /\ PlacesExact /\ ClosedOnExit /\ ClosedAfterMappers

\* What a step leaves alone if it neither starts nor ends a mapper and is not
\* one of executeMappers.
Calm ==
    /\ pc'[Executor] = pc[Executor]
    /\ \A i \in Items : pc'[i] \in NotMapping <=> pc[i] \in NotMapping
    /\ UNCHANGED <<pool, wg, collectorClosed>>

-----------------------------------------------------------------------------
LEMMA MappingFinite == IsFiniteSet(Mapping) /\ Cardinality(Mapping) \in Nat
<1>1. IsFiniteSet(Mapping)
  BY FS_Subset, ProcAssumption DEF Mapping
<1> QED BY <1>1, FS_CardinalityType

\* A calm step keeps everything but the types.
LEMMA CalmKeeps ==
  ASSUME IInv, Calm
  PROVE (PlacesExact /\ ClosedOnExit /\ ClosedAfterMappers)'
<1>1. Mapping' = Mapping
  BY DEF Calm, Mapping
<1> QED BY <1>1 DEF IInv, Calm, PlacesExact, Taken, ClosedOnExit, ClosedAfterMappers

\* A goroutine other than executeMappers that goes on without starting or
\* ending a mapper is calm.
LEMMA GoIsCalm ==
  ASSUME TypeOK, NEW p \in Procs, NEW s \in Places, Go(p, s), p # Executor,
         p \in Items => (pc[p] \notin NotMapping /\ s \notin NotMapping),
         UNCHANGED <<pool, wg, collectorClosed>>
  PROVE Calm /\ pc' \in [Procs -> Places]
<1>1. pc' = [pc EXCEPT ![p] = s] /\ pc \in [Procs -> Places]
  BY DEF Go, TypeOK
<1>2. \A i \in Items : pc'[i] \in NotMapping <=> pc[i] \in NotMapping
  BY <1>1 DEF Procs, Writers
<1>3. pc'[Executor] = pc[Executor]
  BY <1>1 DEF Procs
<1> QED BY <1>1, <1>2, <1>3 DEF Calm

\* executeMappers goes on without a change of its counters or of the collector.
LEMMA ExecutorKeeps ==
  ASSUME IInv, NEW s \in ExecutorPc, Go(Executor, s), pc[Executor] # "recv", s # "recv",
         collectorClosed => s \in {"drain", "ended"},
         UNCHANGED <<pool, wg, collectorClosed>>
  PROVE pc' \in [Procs -> Places] /\ (PlacesExact /\ ClosedOnExit /\ ClosedAfterMappers)'
<1>1. pc' = [pc EXCEPT ![Executor] = s] /\ pc \in [Procs -> Places]
  BY DEF Go, IInv, TypeOK
<1>2. pc' \in [Procs -> Places] /\ pc'[Executor] = s
  BY <1>1 DEF Procs, Places, ExecutorPc
<1>3. Mapping' = Mapping
  BY <1>1, ProcAssumption DEF Mapping, Procs, Writers
<1> QED BY <1>2, <1>3 DEF IInv, PlacesExact, Taken, ClosedOnExit, ClosedAfterMappers

-----------------------------------------------------------------------------
LEMMA InitIInv == Init => IInv
<1> SUFFICES ASSUME Init PROVE IInv
  OBVIOUS
<1>1. pc \in [Procs -> Places]
  BY DEF Init, Places
<1>2. pc[Executor] = "loop" /\ \A i \in Items : pc[i] = "new"
  BY ProcAssumption DEF Init, Procs, Writers
<1>3. TypeOK
  <2>1. pool \in 0 .. Workers /\ collector \in 0 .. Workers /\ wg \in Nat
    BY WorkersAssumption DEF Init
  <2>2. writes \in [Writers -> Nat]
    BY DEF Init
  <2>3. result \in Results
    BY DEF Init, Results
  <2> QED BY <1>1, <2>1, <2>2, <2>3 DEF Init, TypeOK
<1>4. Mapping = {}
  BY <1>2 DEF Mapping, NotMapping
<1>5. PlacesExact
  BY <1>2, <1>4, FS_EmptySet DEF Init, PlacesExact, Taken
<1> QED BY <1>2, <1>3, <1>4, <1>5 DEF Init, IInv, ClosedOnExit, ClosedAfterMappers, ExecutorPc

\* Another mapper.
LEMMA DispatchKeeps ==
  ASSUME IInv, NEW i \in Items, Dispatch(i)
  PROVE IInv'
<1>1. pc \in [Procs -> Places] /\ i \in Procs /\ i \notin {Generator, Executor}
      /\ Generator \in Procs /\ Executor \in Procs /\ Generator # Executor
  BY ProcAssumption DEF IInv, TypeOK, Procs, Writers
<1>2. pc' = [pc EXCEPT ![Generator] = "run", ![i] = "run", ![Executor] = "loop"]
  BY DEF Dispatch
<1>3. pc' \in [Procs -> Places] /\ pc'[Executor] = "loop" /\ pc'[i] = "run"
      /\ \A j \in Items \ {i} : pc'[j] = pc[j]
  BY <1>1, <1>2, ProcAssumption DEF Places, Procs, Writers
<1>4. Mapping' = Mapping \cup {i} /\ i \notin Mapping
  BY <1>3 DEF Dispatch, Mapping, NotMapping
<1>5. Cardinality(Mapping') = Cardinality(Mapping) + 1
  BY <1>4, MappingFinite, FS_AddElement
<1>6. pc[Executor] = "recv" /\ wg' = wg + 1 /\ pool' = pool /\ collectorClosed' = collectorClosed
  BY DEF Dispatch, collected
<1>7. PlacesExact'
  BY <1>3, <1>5, <1>6, MappingFinite DEF IInv, PlacesExact, Taken
<1>8. ClosedOnExit' /\ ClosedAfterMappers'
  BY <1>3, <1>6 DEF IInv, ClosedOnExit, ClosedAfterMappers, ExecutorPc
<1>9. TypeOK'
  BY <1>3 DEF IInv, TypeOK, Dispatch, collected, panicking, cancelled
<1> QED BY <1>7, <1>8, <1>9 DEF IInv

\* One mapper less.
LEMMA MapperExitKeepsIInv ==
  ASSUME IInv, NEW i \in Items, MapperExit(i)
  PROVE IInv'
<1>1. pc \in [Procs -> Places] /\ i \in Procs /\ i # Executor /\ Executor \in Procs
  BY ProcAssumption DEF IInv, TypeOK, Procs, Writers
<1>2. pc' = [pc EXCEPT ![i] = "ended"] /\ pc[i] = "exit"
  BY DEF MapperExit, MapperExitLeaving, Go
<1>3. pc' \in [Procs -> Places] /\ pc'[Executor] = pc[Executor] /\ pc'[i] = "ended"
      /\ \A j \in Items \ {i} : pc'[j] = pc[j]
  BY <1>1, <1>2 DEF Places, Procs, Writers
<1>4. Mapping' = Mapping \ {i} /\ i \in Mapping
  BY <1>2, <1>3 DEF Mapping, NotMapping
<1>5. Cardinality(Mapping') = Cardinality(Mapping) - 1
  BY <1>4, MappingFinite, FS_RemoveElement
<1>6. Cardinality(Mapping') \in Nat
  BY <1>4, MappingFinite, FS_Subset, FS_CardinalityType
<1>7. wg' = wg - 1 /\ pool' = pool - 1 /\ collectorClosed' = collectorClosed
  BY DEF MapperExit, MapperExitLeaving, collected
<1>8. PlacesExact' /\ wg' \in Nat /\ pool' \in 0 .. Workers
  BY <1>3, <1>5, <1>6, <1>7, WorkersAssumption DEF IInv, TypeOK, PlacesExact, Taken
<1>9. ClosedOnExit' /\ ClosedAfterMappers'
  BY <1>3, <1>4, <1>7 DEF IInv, ClosedOnExit, ClosedAfterMappers
<1>10. TypeOK'
  BY <1>3, <1>8 DEF IInv, TypeOK, MapperExit, MapperExitLeaving, collected, panicking, cancelled
<1> QED BY <1>8, <1>9, <1>10 DEF IInv

\* The steps of executeMappers that take or give back a place, or close the
\* collector.
LEMMA PlaceKeeps ==
  ASSUME IInv, Acquire \/ SourceEnd
  PROVE IInv'
<1>1. pc \in [Procs -> Places] /\ Executor \in Procs /\ Executor \notin Items
  BY ProcAssumption DEF IInv, TypeOK, Procs
<1>2. PICK s \in {"recv", "wait"} : pc' = [pc EXCEPT ![Executor] = s]
  BY DEF Acquire, SourceEnd, Go
<1>3. pc' \in [Procs -> Places] /\ pc'[Executor] = s /\ \A i \in Items : pc'[i] = pc[i]
  BY <1>1, <1>2 DEF Places, Procs, Writers
<1>4. Mapping' = Mapping
  BY <1>3 DEF Mapping
<1>5. collectorClosed' = collectorClosed /\ wg' = wg
  BY DEF Acquire, SourceEnd, collected
<1>6. PlacesExact' /\ pool' \in 0 .. Workers
  BY <1>1, <1>2, <1>3, <1>4, <1>5, MappingFinite, WorkersAssumption
  DEF IInv, TypeOK, PlacesExact, Taken, Acquire, SourceEnd, Go
<1>7. ClosedOnExit' /\ ClosedAfterMappers'
  BY <1>3, <1>4, <1>5 DEF IInv, ClosedOnExit, ClosedAfterMappers, ExecutorPc, Acquire, SourceEnd
<1>8. TypeOK'
  BY <1>3, <1>6 DEF IInv, TypeOK, Acquire, SourceEnd, collected, panicking, cancelled
<1> QED BY <1>6, <1>7, <1>8 DEF IInv

LEMMA CloseKeeps ==
  ASSUME IInv, CloseCollector
  PROVE IInv'
<1>1. pc \in [Procs -> Places] /\ Executor \in Procs /\ Executor \notin Items
  BY ProcAssumption DEF IInv, TypeOK, Procs
<1>2. pc' = [pc EXCEPT ![Executor] = "drain"] /\ pc[Executor] = "wait" /\ wg = 0
      /\ pool' = pool /\ wg' = wg
  BY DEF CloseCollector, CloseWhen, Go, mapping
<1>3. pc' \in [Procs -> Places] /\ pc'[Executor] = "drain" /\ \A i \in Items : pc'[i] = pc[i]
  BY <1>1, <1>2 DEF Places, Procs, Writers
<1>4. Mapping' = Mapping
  BY <1>3 DEF Mapping
<1>5. Mapping = {}
  BY <1>2, MappingFinite, FS_EmptySet DEF IInv, PlacesExact
<1>6. PlacesExact'
  BY <1>2, <1>3, <1>4 DEF IInv, PlacesExact, Taken
<1>7. ClosedOnExit' /\ ClosedAfterMappers'
  BY <1>3, <1>4, <1>5 DEF ClosedOnExit, ClosedAfterMappers, ExecutorPc
<1>8. TypeOK'
  BY <1>3 DEF IInv, TypeOK, CloseCollector, CloseWhen, mapping, panicking, cancelled
<1> QED BY <1>6, <1>7, <1>8 DEF IInv

\* The other steps of executeMappers.
LEMMA ExecutorStepKeeps ==
  ASSUME IInv, Loop \/ Leave \/ Drained
  PROVE IInv'
<1>1. PICK s \in ExecutorPc \ {"recv"} : /\ Go(Executor, s)
                                         /\ collectorClosed => s \in {"drain", "ended"}
  BY DEF Loop, Leave, Drained, ExecutorPc, IInv, ClosedOnExit
<1>2. pc[Executor] # "recv" /\ UNCHANGED <<pool, wg, collectorClosed>>
  BY DEF Loop, Leave, Drained, mapping, collected
<1>3. pc' \in [Procs -> Places] /\ (PlacesExact /\ ClosedOnExit /\ ClosedAfterMappers)'
  BY <1>1, <1>2, ExecutorKeeps
<1>4. TypeOK'
  BY <1>3 DEF IInv, TypeOK, Loop, Leave, Drained, mapping, collected, panicking, cancelled
<1> QED BY <1>3, <1>4 DEF IInv

-----------------------------------------------------------------------------
\* The steps of one goroutine, not executeMappers, that start and end no mapper.
LEMMA UserStepKeeps ==
  ASSUME IInv, NEW p \in Procs, p # Executor,
         \/ p \in Items \cup {Generator} /\ (Return(p) \/ Panic(p))
         \/ p = Generator /\ (Generate \/ GeneratorExit)
         \/ p \in Writers /\ (Write(p) \/ CallCancel(p))
         \/ p \in Items /\ Deliver(p)
         \/ p \in Writers \cup {Caller} /\ (Cancel(p) \/ CancelFinish(p) \/ CancelReturn(p))
  PROVE IInv'
<1>1. PICK s \in Places :
        Go(p, s) /\ (p \in Items => (pc[p] \notin NotMapping /\ s \notin NotMapping))
  BY ProcAssumption DEF Return, Panic, WritePanic, Generate, GeneratorExit, GeneratorExitLeaving,
     Write, CallCancel, Deliver, Cancel, CancelWith, CancelFinish, CancelReturn, AfterCancel,
     Places, NotMapping
<1>2. UNCHANGED <<pool, wg, collectorClosed>>
  BY DEF Return, Panic, Generate, GeneratorExit, GeneratorExitLeaving, Write, CallCancel, Deliver,
     Cancel, CancelWith, CancelFinish, CancelReturn, mapping, collected
<1>3. Calm /\ pc' \in [Procs -> Places]
  BY <1>1, <1>2, GoIsCalm DEF IInv
<1>4. (PlacesExact /\ ClosedOnExit /\ ClosedAfterMappers)'
  BY <1>3, CalmKeeps
<1>5. TypeOK'
  <2>1. CASE Return(p) \/ Generate \/ GeneratorExit \/ CallCancel(p) \/ CancelReturn(p)
    BY <2>1, <1>3 DEF IInv, TypeOK, Return, Generate, GeneratorExit, GeneratorExitLeaving,
       CallCancel, CancelReturn, mapping, collected, panicking, cancelled
  <2>2. CASE Panic(p)
    BY <2>2, <1>3 DEF IInv, TypeOK, Panic, WritePanic, mapping, collected, cancelled
  <2>3. CASE p \in Writers /\ Write(p)
    BY <2>3, <1>3 DEF IInv, TypeOK, Write, mapping, collected, panicking, cancelled
  <2>4. CASE Deliver(p)
    BY <2>4, <1>3, WorkersAssumption DEF IInv, TypeOK, Deliver, mapping, panicking, cancelled
  <2>5. CASE Cancel(p) \/ CancelFinish(p)
    BY <2>5, <1>3 DEF IInv, TypeOK, Cancel, CancelWith, CancelFinish, mapping, collected, panicking
  <2> QED BY <2>1, <2>2, <2>3, <2>4, <2>5
<1> QED BY <1>4, <1>5 DEF IInv

LEMMA ReducerStepKeeps ==
  ASSUME IInv, Read \/ Collect \/ ReadClosed \/ ReducerReturn \/ ReducerPanic \/ Collected
                 \/ ReducerExit
  PROVE IInv'
<1>1. Reducer \in Procs /\ Reducer # Executor /\ Reducer \notin Items
  BY ProcAssumption DEF Procs, Writers
<1>2. PICK s \in Places : Go(Reducer, s)
  <2>1. CASE Collect
    <3>1. pc[Reducer] \in Places
      BY <1>1 DEF IInv, TypeOK
    <3> QED BY <2>1, <3>1 DEF Collect, Go, Places
  <2>2. CASE ~Collect
    BY <2>2 DEF Read, ReadClosed, ReducerReturn, ReducerPanic, Collected, CollectedWhen, WritePanic,
       ReducerExit, Places
  <2> QED BY <2>1, <2>2
<1>3. UNCHANGED <<pool, wg, collectorClosed>>
  BY DEF Read, Collect, ReadClosed, ReducerReturn, ReducerPanic, Collected, CollectedWhen,
     ReducerExit, mapping, collected
<1>4. Calm /\ pc' \in [Procs -> Places]
  BY <1>1, <1>2, <1>3, GoIsCalm DEF IInv
<1>5. (PlacesExact /\ ClosedOnExit /\ ClosedAfterMappers)'
  BY <1>4, CalmKeeps
<1>6. TypeOK'
  <2>1. CASE Read \/ ReadClosed \/ ReducerReturn \/ ReducerExit
    BY <2>1, <1>4 DEF IInv, TypeOK, Read, ReadClosed, ReducerReturn, ReducerExit, mapping, collected,
       panicking, cancelled
  <2>2. CASE Collect
    BY <2>2, <1>4, WorkersAssumption DEF IInv, TypeOK, Collect, mapping, panicking, cancelled
  <2>3. CASE ReducerPanic \/ Collected
    BY <2>3, <1>4 DEF IInv, TypeOK, ReducerPanic, Collected, CollectedWhen, WritePanic, mapping,
       collected, cancelled
  <2> QED BY <2>1, <2>2, <2>3
<1> QED BY <1>5, <1>6 DEF IInv

\* An item nobody maps.
LEMMA DrainItemKeeps ==
  ASSUME IInv, NEW i \in Items, NEW p \in Procs, DrainItem(i, p)
  PROVE IInv'
<1>1. pc' = [pc EXCEPT ![Generator] = "run", ![i] = "drained"] /\ pc[i] = "new"
      /\ pc \in [Procs -> Places]
  BY DEF DrainItem, IInv, TypeOK
<1>2. pc' \in [Procs -> Places] /\ pc'[i] = "drained" /\ pc'[Executor] = pc[Executor]
      /\ \A j \in Items \ {i} : pc'[j] = pc[j]
  BY <1>1, ProcAssumption DEF Procs, Writers, Places
<1>3. Calm
  BY <1>1, <1>2 DEF DrainItem, Calm, NotMapping, mapping, collected
<1>4. (PlacesExact /\ ClosedOnExit /\ ClosedAfterMappers)'
  BY <1>3, CalmKeeps
<1>5. TypeOK'
  BY <1>2 DEF IInv, TypeOK, DrainItem, mapping, collected, panicking, cancelled
<1> QED BY <1>4, <1>5 DEF IInv

\* The steps the caller takes alone or together with a sender, which goes on.
LEMMA CallerStepKeeps ==
  ASSUME IInv, \/ CallerTimeout \/ CallerOutput \/ CallerTakes \/ CallerEnd
               \/ \E p \in Procs : CallerPanic(p)
  PROVE IInv'
<1>1. /\ pc \in [Procs -> Places]
      /\ Caller \in Procs /\ Reducer \in Procs /\ Executor \in Procs
      /\ Caller \notin Items \cup {Reducer, Executor} /\ Reducer \notin Items \cup {Executor}
  BY ProcAssumption DEF IInv, TypeOK, Procs, Writers
<1>2. PICK c, s \in Places, q \in Procs :
        /\ pc' = [pc EXCEPT ![Caller] = c, ![q] = s]
        /\ q # Executor
        /\ q \in Items => (pc[q] \notin NotMapping /\ s \notin NotMapping)
  <2>1. CASE CallerTimeout \/ CallerEnd
    BY <2>1, <1>1 DEF CallerTimeout, CallerEnd, Go, Places
  <2>2. CASE CallerOutput
    BY <2>2, <1>1 DEF CallerOutput, Go, Places
  <2>3. CASE CallerTakes
    BY <2>3, <1>1 DEF CallerTakes, Go, Places
  <2>4. CASE \E p \in Procs : CallerPanic(p)
    <3>1. PICK p \in Procs : CallerPanic(p)
      BY <2>4
    <3>2. p # Executor
      BY <3>1 DEF CallerPanic, IInv, ClosedOnExit, ExecutorPc
    <3>3. pc' = [pc EXCEPT ![Caller] = "drainOutput", ![p] = "exit"] /\ pc[p] = "panic"
      BY <3>1 DEF CallerPanic
    <3>4. "drainOutput" \in Places /\ "exit" \in Places
          /\ "exit" \notin NotMapping /\ "panic" \notin NotMapping
      BY DEF Places, NotMapping
    <3> QED BY <3>2, <3>3, <3>4
  <2> QED BY <2>1, <2>2, <2>3, <2>4
<1>3. pc' \in [Procs -> Places] /\ pc'[Executor] = pc[Executor]
  BY <1>1, <1>2
<1>4. \A i \in Items : pc'[i] \in NotMapping <=> pc[i] \in NotMapping
  BY <1>1, <1>2 DEF Procs, Writers
<1>5. Calm
  BY <1>3, <1>4 DEF Calm, CallerTimeout, CallerOutput, CallerTakes, CallerEnd, CallerPanic, mapping,
     collected
<1>6. (PlacesExact /\ ClosedOnExit /\ ClosedAfterMappers)'
  BY <1>5, CalmKeeps
<1>7. TypeOK'
  BY <1>3 DEF IInv, TypeOK, CallerTimeout, CallerOutput, CallerTakes, CallerEnd, CallerPanic, Results,
     mapping, collected, panicking, cancelled
<1> QED BY <1>6, <1>7 DEF IInv

LEMMA ExpireKeeps == IInv /\ (Expire \/ UNCHANGED vars) => IInv'
<1> SUFFICES ASSUME IInv, Expire \/ UNCHANGED vars PROVE IInv'
  OBVIOUS
<1>1. TypeOK' /\ Calm
  BY DEF IInv, TypeOK, Calm, Expire, vars, mapping, collected, panicking, cancelled
<1> QED BY <1>1, CalmKeeps DEF IInv

LEMMA NextIInv == IInv /\ [Next]_vars => IInv'
<1> SUFFICES ASSUME IInv, [Next]_vars PROVE IInv'
  OBVIOUS
<1> USE ProcAssumption DEF Procs, Writers
<1>1. CASE Loop \/ Leave \/ Drained
  BY <1>1, ExecutorStepKeeps
<1>2. CASE Acquire \/ SourceEnd
  BY <1>2, PlaceKeeps
<1>3. CASE CloseCollector
  BY <1>3, CloseKeeps
<1>4. CASE Generate \/ GeneratorExit
  BY <1>4, UserStepKeeps
<1>5. ASSUME NEW i \in Items, Dispatch(i) \/ Deliver(i) \/ MapperExit(i) PROVE IInv'
  BY <1>5, DispatchKeeps, UserStepKeeps, MapperExitKeepsIInv
<1>6. ASSUME NEW i \in Items, NEW p \in Procs, DrainItem(i, p) PROVE IInv'
  BY <1>6, DrainItemKeeps
<1>7. ASSUME NEW p \in Items \cup {Generator}, Return(p) \/ Panic(p) PROVE IInv'
  BY <1>7, UserStepKeeps
<1>8. ASSUME NEW p \in Writers, Write(p) \/ CallCancel(p) PROVE IInv'
  BY <1>8, UserStepKeeps
<1>9. ASSUME NEW p \in Writers \cup {Caller}, Cancel(p) \/ CancelFinish(p) \/ CancelReturn(p)
      PROVE IInv'
  BY <1>9, UserStepKeeps
<1>10. CASE Read \/ Collect \/ ReadClosed \/ ReducerReturn \/ ReducerPanic \/ Collected \/ ReducerExit
  BY <1>10, ReducerStepKeeps
<1>11. CASE CallerTimeout \/ CallerOutput \/ CallerTakes \/ CallerEnd \/ \E p \in Procs : CallerPanic(p)
  BY <1>11, CallerStepKeeps
<1>12. CASE Expire \/ UNCHANGED vars
  BY <1>12, ExpireKeeps
<1> QED
  BY <1>1, <1>2, <1>3, <1>4, <1>5, <1>6, <1>7, <1>8, <1>9, <1>10, <1>11, <1>12 DEF Next, Step

\* The inductive invariant holds throughout.
THEOREM MapReduceInv == Spec => []IInv
<1> QED BY InitIInv, NextIInv, PTL DEF Spec

\* Type correctness; in particular the pool never holds more than
\* options.workers places.
THEOREM MapReduceTypes == Spec => []TypeOK
<1>1. IInv => TypeOK
  BY DEF IInv
<1> QED BY <1>1, MapReduceInv, PTL

\* The pool and the wait group of executeMappers count the running mappers,
\* whether they return, panic or cancel.
THEOREM MapReducePlaces == Spec => []PlacesExact
<1>1. IInv => PlacesExact
  BY DEF IInv
<1> QED BY <1>1, MapReduceInv, PTL

\* Hence at most options.workers mappers run at a time.
THEOREM MapReduceWorkers == Spec => [](Cardinality(Mapping) <= Workers)
<1>1. IInv => Cardinality(Mapping) <= Workers
  BY MappingFinite, WorkersAssumption DEF IInv, TypeOK, PlacesExact, Taken
<1> QED BY <1>1, MapReduceInv, PTL

\* executeMappers closes the collector after the last mapper, so that no mapper
\* sends on a closed channel.
THEOREM MapReduceCloses == Spec => []ClosedAfterMappers
<1>1. IInv => ClosedAfterMappers
  BY DEF IInv
<1> QED BY <1>1, MapReduceInv, PTL

-----------------------------------------------------------------------------
(***************************************************************************)
(* How a call ends.  The invariant follows cancel, the closing of output   *)
(* and of source, the one panic that is written to panicChan, and what the *)
(* caller's select decided.                                                *)
(***************************************************************************)

\* Where the goroutines can be.
ItemPc      == {"new", "run", "send", "panic", "exit", "ended", "cancel", "drain", "drained"}
GeneratorPc == {"run", "send", "panic", "exit", "ended"}
ReducerPc   == {"run", "send", "read", "collect", "panic", "exit", "ended", "cancel", "drain"}
CallerPc    == {"select", "cancel", "drain", "deferred", "drainOutput", "returned", "panicked"}

Where ==
    /\ \A i \in Items : pc[i] \in ItemPc
    /\ pc[Generator] \in GeneratorPc
    /\ pc[Reducer] \in ReducerPc
    /\ pc[Caller] \in CallerPc

\* cancel sets the error first, and one goroutine at most drains the source
\* for it.
CancelStory ==
    /\ retErr <=> cancelOnce # "unused"
    /\ \A p \in Procs \ {Executor} : pc[p] = "drain" => cancelOnce = "running"
    /\ \A p, q \in Procs \ {Executor} : pc[p] = "drain" /\ pc[q] = "drain" => p = q

\* The output is closed by cancel, or by the reducer once the mappers are done.
FinishStory ==
    /\ finished => pc[Reducer] = "ended" \/ cancelOnce = "used"
    /\ pc[Reducer] \in {"panic", "exit", "ended"} => collectorClosed

\* executeMappers leaves items unmapped only after a failure, a done context or
\* cancel.
Stopped == failed \/ ctxDone \/ cancelOnce # "unused"

SourceStory ==
    /\ sourceClosed => pc[Generator] = "ended"
    /\ pc[Executor] \in {"wait", "drain", "ended"} => Stopped \/ sourceClosed
    /\ \A i \in Items : pc[i] = "drained" => Stopped

\* One panic is written, and waits for the caller until the caller has it.
PanicStory ==
    /\ \A p, q \in Procs : pc[p] = "panic" /\ pc[q] = "panic" => p = q
    /\ \A p \in Procs : pc[p] = "panic" => wrote
    /\ wrote => pc[Caller] \in {"drainOutput", "panicked"} \/ \E p \in Procs : pc[p] = "panic"
    /\ failed \/ Generator \in raised => wrote
    /\ pc[Generator] = "panic" => Generator \in raised
    /\ Reducer \in raised => wrote \/ pc[Reducer] = "collect"

CallerStory ==
    /\ pc[Caller] \in {"select", "drainOutput"} => result = "none"
    /\ pc[Caller] \in {"cancel", "drain"} => result = "deadline"
    /\ pc[Caller] \in {"deferred", "returned"} => result # "none"
    /\ pc[Caller] = "returned" => finished
    /\ result = "deadline" => ctxDone
    /\ result = "error" => retErr
    /\ result = "noOutput" => finished /\ cancelOnce = "unused"
    /\ pc[Caller] # "select" /\ result = "none" => wrote /\ \A p \in Procs : pc[p] # "panic"

\* The inductive invariant, on top of IInv.
EndInv == Where /\ CancelStory /\ FinishStory /\ SourceStory /\ PanicStory /\ CallerStory

LEMMA EndNext == IInv /\ EndInv /\ [Next]_vars => EndInv'
<1> SUFFICES ASSUME IInv, EndInv, [Next]_vars PROVE EndInv'
  OBVIOUS
<1>0. /\ pc \in [Procs -> Places] /\ Items \subseteq Procs
      /\ Caller \in Procs /\ Generator \in Procs /\ Executor \in Procs /\ Reducer \in Procs
      /\ Items \cap {Caller, Generator, Executor, Reducer} = {}
      /\ Executor # Caller /\ Executor # Generator /\ Executor # Reducer
      /\ Caller # Generator /\ Caller # Reducer /\ Generator # Reducer
      /\ Procs = Items \cup {Caller, Generator, Executor, Reducer}
  BY ProcAssumption DEF IInv, TypeOK, Procs, Writers
<1>a. /\ collectorClosed => pc[Executor] \in {"drain", "ended"}
      /\ collectorClosed => \A i \in Items : pc[i] \in NotMapping
      /\ pc[Executor] \in ExecutorPc
  BY DEF IInv, ClosedOnExit, ClosedAfterMappers, Mapping
<1> USE <1>0, <1>a
    DEF EndInv, Where, CancelStory, FinishStory, SourceStory, PanicStory, CallerStory, Stopped,
        ItemPc, GeneratorPc, ReducerPc, CallerPc, ExecutorPc, NotMapping, Go,
        mapping, collected, panicking, cancelled
<1>1. CASE Loop
  BY <1>1 DEF Loop
<1>2. CASE Leave
  BY <1>2 DEF Leave
<1>3. CASE Acquire
  BY <1>3 DEF Acquire
<1>4. CASE SourceEnd
  BY <1>4 DEF SourceEnd
<1>5. CASE CloseCollector
  BY <1>5 DEF CloseCollector, CloseWhen
<1>6. CASE Drained
  BY <1>6 DEF Drained
<1>7. CASE Generate
  BY <1>7 DEF Generate
<1>8. CASE GeneratorExit
  BY <1>8 DEF GeneratorExit, GeneratorExitLeaving
<1>9. ASSUME NEW i \in Items, Dispatch(i) PROVE EndInv'
  BY <1>9 DEF Dispatch
<1>10. ASSUME NEW i \in Items, Deliver(i) PROVE EndInv'
  BY <1>10 DEF Deliver
<1>11. ASSUME NEW i \in Items, MapperExit(i) PROVE EndInv'
  BY <1>11 DEF MapperExit, MapperExitLeaving
<1>12. ASSUME NEW i \in Items, NEW p \in Procs, DrainItem(i, p) PROVE EndInv'
  BY <1>12 DEF DrainItem
<1>13. ASSUME NEW p \in Items \cup {Generator}, Return(p) PROVE EndInv'
  BY <1>13 DEF Return
<1>14. ASSUME NEW p \in Items \cup {Generator}, Panic(p) PROVE EndInv'
  <2>1. /\ p \in Procs /\ pc[p] = "run" /\ wrote'
        /\ pc' = [pc EXCEPT ![p] = IF wrote THEN "exit" ELSE "panic"]
        /\ UNCHANGED <<sourceClosed, finished, ctxDone, result, collectorClosed, retErr, cancelOnce>>
    BY <1>14 DEF Panic, WritePanic
  <2>2. /\ Reducer \in raised' => Reducer \in raised
        /\ Generator \in raised => Generator \in raised'
        /\ p = Generator => Generator \in raised'
    BY <1>14 DEF Panic
  <2>3. failed => failed'
    BY <1>14 DEF Panic
  <2>4. CASE wrote
    BY <2>1, <2>2, <2>3, <2>4
  <2>5. CASE ~wrote
    BY <2>1, <2>2, <2>3, <2>5
  <2> QED
    BY <2>4, <2>5
<1>15. ASSUME NEW p \in Writers, Write(p) PROVE EndInv'
  BY <1>15 DEF Write, Writers
<1>16. ASSUME NEW p \in Writers, CallCancel(p) PROVE EndInv'
  BY <1>16 DEF CallCancel, Writers
<1>17. ASSUME NEW p \in Writers \cup {Caller}, Cancel(p) PROVE EndInv'
  BY <1>17 DEF Cancel, CancelWith, Writers
<1>18. ASSUME NEW p \in Writers \cup {Caller}, CancelFinish(p) PROVE EndInv'
  BY <1>18 DEF CancelFinish, AfterCancel, Writers
<1>19. ASSUME NEW p \in Writers \cup {Caller}, CancelReturn(p) PROVE EndInv'
  BY <1>19 DEF CancelReturn, AfterCancel, Writers
<1>20. CASE Read
  BY <1>20 DEF Read
<1>21. CASE Collect
  BY <1>21 DEF Collect
<1>22. CASE ReadClosed
  BY <1>22 DEF ReadClosed
<1>23. CASE ReducerReturn
  BY <1>23 DEF ReducerReturn
<1>24. CASE ReducerPanic
  BY <1>24 DEF ReducerPanic
<1>25. CASE Collected
  BY <1>25 DEF Collected, CollectedWhen, WritePanic
<1>26. CASE ReducerExit
  BY <1>26 DEF ReducerExit
<1>27. CASE CallerTimeout
  BY <1>27 DEF CallerTimeout
<1>28. CASE CallerOutput
  BY <1>28 DEF CallerOutput
<1>29. CASE CallerTakes
  BY <1>29 DEF CallerTakes
<1>30. CASE CallerEnd
  BY <1>30 DEF CallerEnd
<1>31. ASSUME NEW p \in Procs, CallerPanic(p) PROVE EndInv'
  BY <1>31 DEF CallerPanic
<1>32. CASE Expire
  BY <1>32 DEF Expire
<1>33. CASE UNCHANGED vars
  BY <1>33 DEF vars
<1> QED
  BY <1>1, <1>2, <1>3, <1>4, <1>5, <1>6, <1>7, <1>8, <1>9, <1>10, <1>11, <1>12, <1>13, <1>14,
     <1>15, <1>16, <1>17, <1>18, <1>19, <1>20, <1>21, <1>22, <1>23, <1>24, <1>25, <1>26, <1>27,
     <1>28, <1>29, <1>30, <1>31, <1>32, <1>33 DEF Next, Step

LEMMA EndInit == Init => EndInv
<1> SUFFICES ASSUME Init PROVE EndInv
  OBVIOUS
<1>1. /\ pc[Caller] = "select" /\ pc[Generator] = "run" /\ pc[Executor] = "loop"
      /\ pc[Reducer] = "run" /\ \A i \in Items : pc[i] = "new"
  BY ProcAssumption DEF Init, Procs, Writers
<1>2. \A p \in Procs : pc[p] \notin {"panic", "drain"}
  BY DEF Init
<1>3. Where /\ CancelStory
  BY <1>1, <1>2 DEF Init, Where, CancelStory, ItemPc, GeneratorPc, ReducerPc, CallerPc
<1>4. FinishStory /\ SourceStory
  BY <1>1, <1>2 DEF Init, FinishStory, SourceStory
<1>5. PanicStory /\ CallerStory
  BY <1>1, <1>2 DEF Init, PanicStory, CallerStory
<1> QED
  BY <1>3, <1>4, <1>5 DEF EndInv

LEMMA EndHolds == Spec => [](IInv /\ EndInv)
<1>1. Init => IInv /\ EndInv
  BY InitIInv, EndInit
<1>2. (IInv /\ EndInv) /\ [Next]_vars => (IInv /\ EndInv)'
  BY NextIInv, EndNext
<1> QED
  BY <1>1, <1>2, PTL DEF Spec

\* The output closed without cancel: the reducer is done, so the mappers are,
\* and executeMappers has stopped early or has come to the end of the source.
LEMMA ClosedOutput ==
  ASSUME IInv, EndInv, finished, cancelOnce = "unused"
  PROVE  /\ pc[Reducer] = "ended"
         /\ \A i \in Items : pc[i] \in NotMapping
         /\ Stopped \/ pc[Generator] = "ended"
<1>1. pc[Reducer] = "ended" /\ collectorClosed
  BY DEF EndInv, FinishStory
<1>2. pc[Executor] \in {"drain", "ended"} /\ \A i \in Items : pc[i] \in NotMapping
  BY <1>1 DEF IInv, ClosedOnExit, ClosedAfterMappers, Mapping
<1> QED
  BY <1>1, <1>2 DEF EndInv, SourceStory

\* Then no panic waits to be received: it could only be that of the generator,
\* whose source executeMappers would still be reading.
LEMMA LatePanic ==
  ASSUME IInv, EndInv, finished, Undisturbed, NEW p \in Procs
  PROVE  pc[p] # "panic"
<1> SUFFICES ASSUME pc[p] = "panic" PROVE FALSE
  OBVIOUS
<1>1. /\ pc[Reducer] = "ended" /\ \A i \in Items : pc[i] \in NotMapping
      /\ Stopped \/ pc[Generator] = "ended"
  BY ClosedOutput DEF Undisturbed
<1>2. p = Generator
  BY <1>1 DEF Procs, Writers, NotMapping, EndInv, Where, CallerPc, IInv, ClosedOnExit, ExecutorPc
<1>3. Generator \in raised
  BY <1>2 DEF EndInv, PanicStory
<1>4. ~failed
  BY <1>3 DEF Undisturbed, BothPanicked
<1> QED
  BY <1>1, <1>2, <1>4 DEF Undisturbed, Stopped

\* MapReduce returns, without panic, cancel or a done context, only when every
\* item that was generated has been mapped and nothing panicked, whatever the
\* number of items, workers and panics that race, but for the panic of generate
\* that collides with that of a mapper.
THEOREM MapReduceComplete == Spec => []CompleteUnlessCancelled
<1>1. IInv /\ EndInv => CompleteUnlessCancelled
  <2> SUFFICES ASSUME IInv, EndInv, pc[Caller] = "returned", Undisturbed
               PROVE  (\A i \in Items : pc[i] \in {"new", "ended"}) /\ raised = {} /\ ~failed
    BY DEF CompleteUnlessCancelled
  <2>1. finished /\ cancelOnce = "unused"
    BY DEF EndInv, CallerStory, Undisturbed
  <2>2. /\ pc[Reducer] = "ended" /\ \A i \in Items : pc[i] \in NotMapping
    BY <2>1, ClosedOutput
  <2>3. ~wrote
    BY <2>1, LatePanic DEF EndInv, PanicStory
  <2>4. ~failed /\ Generator \notin raised /\ Reducer \notin raised
    BY <2>2, <2>3 DEF EndInv, PanicStory
  <2>5. raised = {}
    BY <2>4 DEF IInv, TypeOK
  <2>6. \A i \in Items : pc[i] # "drained"
    BY <2>4 DEF EndInv, SourceStory, Stopped, Undisturbed
  <2> QED
    BY <2>2, <2>4, <2>5, <2>6 DEF NotMapping
<1> QED
  BY <1>1, EndHolds, PTL

\* Once the caller's select has taken the closed output for ErrReduceNoOutput,
\* nobody is left who could call cancel: the error is never one that hides
\* another.
THEOREM MapReduceNoOutput == Spec => []NoOutputIsHonest
<1>1. EndInv => NoOutputIsHonest
  BY DEF EndInv, CallerStory, CancelStory, NoOutputIsHonest
<1> QED
  BY <1>1, EndHolds, PTL

\* A goroutine that has written its panic to panicChan finds the caller in its
\* select, unless the call was cancelled, its context done, two panics collided,
\* or the reducer wrote its value early.
THEOREM MapReducePanics == Spec => []PanicsReachCaller
<1>1. IInv /\ EndInv => PanicsReachCaller
  <2> SUFFICES ASSUME IInv, EndInv, NEW p \in Procs, pc[p] = "panic", pc[Caller] # "select",
                      Undisturbed, result # "value"
               PROVE  FALSE
    BY DEF PanicsReachCaller, LostPanic
  <2>1. result \notin {"none", "deadline", "error"}
    BY DEF EndInv, CallerStory, CancelStory, Undisturbed
  <2>2. result = "noOutput"
    BY <2>1 DEF IInv, TypeOK, Results
  <2> QED
    BY <2>2, LatePanic DEF EndInv, CallerStory
<1> QED
  BY <1>1, EndHolds, PTL
=============================================================================
