----------------------------- MODULE MapReduce -----------------------------
(***************************************************************************)
(* mr.MapReduce (core/mr/mapreduce.go): the caller, the generator, the     *)
(* goroutine of executeMappers, one goroutine per mapped item and the      *)
(* reducer, over the unbuffered channels source, output and panicChan, the *)
(* buffered collector, and the channels done and ctx.Done().               *)
(*                                                                         *)
(* generate, mapper and reducer are the user's: each may at any moment     *)
(* send, write or receive, call cancel (not generate), panic, or return,   *)
(* and once it has begun to send or receive it waits until that is done.   *)
(* The receive from an unbuffered channel is one step with its send.       *)
(* close(done) and close(output) follow each other in finish and are one   *)
(* step, as are wg.Done and <-pool of a mapper: nobody looks at both.      *)
(***************************************************************************)
EXTENDS Naturals, FiniteSets

CONSTANTS
    Items,          \* items generate may send; each names the goroutine that maps it
    Caller,         \* the goroutine that called MapReduce
    Generator,      \* the goroutine of buildSource
    Executor,       \* the goroutine of executeMappers
    Reducer,        \* the goroutine that runs reducer
    Workers,        \* options.workers
    MaxWrites,      \* bound on the writes of one mapper
    MaxOutputs,     \* bound on the writes of the reducer; the caller panics over the second
    Deadline        \* may the context be done?

ASSUME WorkersAssumption == Workers \in Nat \ {0}
ASSUME BoundAssumption == MaxWrites \in Nat /\ MaxOutputs \in Nat /\ Deadline \in BOOLEAN
ASSUME ProcAssumption ==
    /\ IsFiniteSet(Items)
    /\ Items \cap {Caller, Generator, Executor, Reducer} = {}
    /\ Executor \notin {Caller, Generator, Reducer}
    /\ Caller \notin {Generator, Reducer}
    /\ Generator # Reducer

VARIABLES
    pc,             \* where each goroutine is
    sourceClosed,   \* is source closed?
    pool,           \* elements in executeMappers' pool
    wg,             \* the counter of executeMappers' wait group
    failed,         \* executeMappers' failed is not 0
    collector,      \* elements in the collector's buffer
    collectorClosed,
    finished,       \* have done and output been closed?
    ctxDone,        \* is ctx.Done() closed?
    wrote,          \* panicChan.wrote
    raised,         \* which of generate and reducer panicked
    retErr,         \* is retErr set?
    cancelOnce,     \* of the sync.Once of cancel
    writes,         \* writes[p]: calls of Write by p, while it runs
    result          \* what the caller's select decided

vars == <<pc, sourceClosed, pool, wg, failed, collector, collectorClosed, finished,
          ctxDone, wrote, raised, retErr, cancelOnce, writes, result>>

mapping   == <<sourceClosed, pool, wg, failed>>
collected == <<collector, collectorClosed>>
panicking == <<wrote, raised>>
cancelled == <<retErr, cancelOnce>>

Writers == Items \cup {Reducer}
Procs   == Writers \cup {Caller, Generator, Executor}
Places  == {"new", "run", "send", "read", "panic", "exit", "ended", "cancel", "drain",
            "drained", "collect", "loop", "select", "recv", "wait", "deferred", "drainOutput",
            "returned", "panicked"}
Results == {"none", "value", "noOutput", "error", "deadline"}

Init ==
    /\ pc = [p \in Procs |-> IF p \in Items THEN "new"
                               ELSE IF p = Caller THEN "select"
                               ELSE IF p = Executor THEN "loop"
                               ELSE "run"]
    /\ sourceClosed = FALSE
    /\ pool = 0
    /\ wg = 0
    /\ failed = FALSE
    /\ collector = 0
    /\ collectorClosed = FALSE
    /\ finished = FALSE
    /\ ctxDone = FALSE
    /\ wrote = FALSE
    /\ raised = {}
    /\ retErr = FALSE
    /\ cancelOnce = "unused"
    /\ writes = [p \in Writers |-> 0]
    /\ result = "none"

Go(p, s) == pc' = [pc EXCEPT ![p] = s]

\* The context's deadline passes, or its owner cancels it.
Expire ==
    /\ Deadline
    /\ ~ctxDone
    /\ ctxDone' = TRUE
    /\ UNCHANGED <<pc, finished, writes, result, mapping, collected, panicking, cancelled>>

-----------------------------------------------------------------------------
\* executeMappers: for atomic.LoadInt32(&failed) == 0
Loop ==
    /\ pc[Executor] = "loop"
    /\ Go(Executor, IF failed THEN "wait" ELSE "select")
    /\ UNCHANGED <<finished, ctxDone, writes, result, mapping, collected, panicking, cancelled>>

\* case <-mCtx.ctx.Done(), case <-mCtx.doneChan
Leave ==
    /\ pc[Executor] = "select"
    /\ ctxDone \/ finished
    /\ Go(Executor, "wait")
    /\ UNCHANGED <<finished, ctxDone, writes, result, mapping, collected, panicking, cancelled>>

\* Mutant: the pool is one worker too large.
AcquireOneMore ==
    /\ pc[Executor] = "select"
    /\ pool <= Workers
    /\ pool' = pool + 1
    /\ Go(Executor, "recv")
    /\ UNCHANGED <<sourceClosed, wg, failed, finished, ctxDone, writes, result, collected,
                   panicking, cancelled>>

\* case pool <- struct{}{}
Acquire ==
    /\ pc[Executor] = "select"
    /\ pool < Workers
    /\ pool' = pool + 1
    /\ Go(Executor, "recv")
    /\ UNCHANGED <<sourceClosed, wg, failed, finished, ctxDone, writes, result, collected,
                   panicking, cancelled>>

\* generate begins to send an item.
Generate ==
    /\ pc[Generator] = "run"
    /\ \E i \in Items : pc[i] = "new"
    /\ Go(Generator, "send")
    /\ UNCHANGED <<finished, ctxDone, writes, result, mapping, collected, panicking, cancelled>>

\* executeMappers receives the item i and hands it to a goroutine.
Dispatch(i) ==
    /\ pc[Generator] = "send"
    /\ pc[Executor] = "recv"
    /\ pc[i] = "new"
    /\ pc' = [pc EXCEPT ![Generator] = "run", ![i] = "run", ![Executor] = "loop"]
    /\ wg' = wg + 1
    /\ UNCHANGED <<sourceClosed, pool, failed, finished, ctxDone, writes, result, collected,
                   panicking, cancelled>>

\* The source is closed: <-pool; return
SourceEnd ==
    /\ pc[Executor] = "recv"
    /\ sourceClosed
    /\ pool' = pool - 1
    /\ Go(Executor, "wait")
    /\ UNCHANGED <<sourceClosed, wg, failed, finished, ctxDone, writes, result, collected,
                   panicking, cancelled>>

\* The collector is closed once the mappers are done, if it must wait for them.
CloseWhen(done) ==
    /\ pc[Executor] = "wait"
    /\ done
    /\ collectorClosed' = TRUE
    /\ Go(Executor, "drain")
    /\ UNCHANGED <<collector, finished, ctxDone, writes, result, mapping, panicking, cancelled>>

\* Mutant: the deferred function does not wait for the mappers.
CloseCollectorNow == CloseWhen(TRUE)

\* wg.Wait(); close(mCtx.collector)
CloseCollector == CloseWhen(wg = 0)

\* drain: p, in cancel or executeMappers, takes an item nobody will map.
DrainItem(i, p) ==
    /\ pc[Generator] = "send"
    /\ pc[p] = "drain"
    /\ pc[i] = "new"
    /\ pc' = [pc EXCEPT ![Generator] = "run", ![i] = "drained"]
    /\ UNCHANGED <<finished, ctxDone, writes, result, mapping, collected, panicking, cancelled>>

\* drain(mCtx.source) ends, and executeMappers returns.
Drained ==
    /\ pc[Executor] = "drain"
    /\ sourceClosed
    /\ Go(Executor, "ended")
    /\ UNCHANGED <<finished, ctxDone, writes, result, mapping, collected, panicking, cancelled>>

-----------------------------------------------------------------------------
\* generate or mapper returns.
Return(p) ==
    /\ pc[p] = "run"
    /\ p \in Items \cup {Generator}
    /\ Go(p, "exit")
    /\ UNCHANGED <<finished, ctxDone, writes, result, mapping, collected, panicking, cancelled>>

\* The first panic is written to panicChan, the others are dropped.
WritePanic(p) ==
    /\ wrote' = TRUE
    /\ Go(p, IF wrote THEN "exit" ELSE "panic")

\* generate or mapper panics; recover, and panicChan.write.
Panic(p) ==
    /\ pc[p] = "run"
    /\ p \in Items \cup {Generator}
    /\ raised' = raised \cup ({p} \cap {Generator})
    /\ failed' = (failed \/ p \in Items)
    /\ WritePanic(p)
    /\ UNCHANGED <<sourceClosed, pool, wg, finished, ctxDone, writes, result, collected,
                   cancelled>>

\* The generator's goroutine ends and leaves the source closed or not.
GeneratorExitLeaving(closed) ==
    /\ pc[Generator] = "exit"
    /\ sourceClosed' = closed
    /\ Go(Generator, "ended")
    /\ UNCHANGED <<pool, wg, failed, finished, ctxDone, writes, result, collected, panicking,
                   cancelled>>

\* Mutant: the source is closed only after a panic.
GeneratorExitOpen == GeneratorExitLeaving(Generator \in raised)

\* buildSource: close(source)
GeneratorExit == GeneratorExitLeaving(TRUE)

\* A mapper ends and leaves "places" in the pool.
MapperExitLeaving(i, places) ==
    /\ pc[i] = "exit"
    /\ wg' = wg - 1
    /\ pool' = places
    /\ writes' = [writes EXCEPT ![i] = 0]
    /\ Go(i, "ended")
    /\ UNCHANGED <<sourceClosed, failed, finished, ctxDone, result, collected, panicking,
                   cancelled>>

\* Mutant: once a mapper has failed no place is given back.
MapperExitKeeps(i) == MapperExitLeaving(i, IF failed THEN pool ELSE pool - 1)

\* wg.Done(); <-pool
MapperExit(i) == MapperExitLeaving(i, pool - 1)

\* guardedWriter.Write, up to its send: nothing is sent once done is closed or
\* the context is done.
Write(p) ==
    /\ pc[p] = "run"
    /\ writes[p] < IF p = Reducer THEN MaxOutputs ELSE MaxWrites
    /\ writes' = [writes EXCEPT ![p] = @ + 1]
    /\ Go(p, IF ctxDone \/ finished THEN "run" ELSE "send")
    /\ UNCHANGED <<finished, ctxDone, result, mapping, collected, panicking, cancelled>>

\* gw.channel <- v, of a mapper.
Deliver(i) ==
    /\ pc[i] = "send"
    /\ ~collectorClosed
    /\ collector < Workers
    /\ collector' = collector + 1
    /\ Go(i, "run")
    /\ UNCHANGED <<collectorClosed, finished, ctxDone, writes, result, mapping, panicking,
                   cancelled>>

-----------------------------------------------------------------------------
\* reducer begins to receive from the collector; a receive from one that is
\* closed and empty changes nothing.
Read ==
    /\ pc[Reducer] = "run"
    /\ ~(collectorClosed /\ collector = 0)
    /\ Go(Reducer, "read")
    /\ UNCHANGED <<finished, ctxDone, writes, result, mapping, collected, panicking, cancelled>>

\* reducer, or the drain(collector) deferred, receives an element.
Collect ==
    /\ pc[Reducer] \in {"read", "collect"}
    /\ collector > 0
    /\ collector' = collector - 1
    /\ pc' = [pc EXCEPT ![Reducer] = IF @ = "read" THEN "run" ELSE @]
    /\ UNCHANGED <<collectorClosed, finished, ctxDone, writes, result, mapping, panicking,
                   cancelled>>

\* reducer finds the collector closed.
ReadClosed ==
    /\ pc[Reducer] = "read"
    /\ collectorClosed
    /\ collector = 0
    /\ Go(Reducer, "run")
    /\ UNCHANGED <<finished, ctxDone, writes, result, mapping, collected, panicking, cancelled>>

ReducerReturn ==
    /\ pc[Reducer] = "run"
    /\ Go(Reducer, "collect")
    /\ UNCHANGED <<finished, ctxDone, writes, result, mapping, collected, panicking, cancelled>>

\* reducer panics, or sends on the output that cancel has closed.
ReducerPanic ==
    /\ pc[Reducer] = "run" \/ (pc[Reducer] = "send" /\ finished)
    /\ raised' = raised \cup {Reducer}
    /\ Go(Reducer, "collect")
    /\ UNCHANGED <<finished, ctxDone, wrote, writes, result, mapping, collected, cancelled>>

\* The deferred function goes on, if the collector is drained.
CollectedWhen(drained) ==
    /\ pc[Reducer] = "collect"
    /\ drained
    /\ IF Reducer \in raised THEN WritePanic(Reducer) ELSE Go(Reducer, "exit") /\ UNCHANGED wrote
    /\ UNCHANGED <<finished, ctxDone, raised, writes, result, mapping, collected, cancelled>>

\* Mutant: the deferred function does not drain the collector.
CollectedNow == CollectedWhen(TRUE)

\* drain(collector) ends when the collector is closed and empty.
Collected == CollectedWhen(collectorClosed /\ collector = 0)

\* finish
ReducerExit ==
    /\ pc[Reducer] = "exit"
    /\ finished' = TRUE
    /\ Go(Reducer, "ended")
    /\ UNCHANGED <<ctxDone, writes, result, mapping, collected, panicking, cancelled>>

-----------------------------------------------------------------------------
\* A mapper or the reducer calls cancel; after the first call has ended, a call
\* does nothing.
CallCancel(p) ==
    /\ pc[p] = "run"
    /\ cancelOnce # "used"
    /\ Go(p, "cancel")
    /\ UNCHANGED <<finished, ctxDone, writes, result, mapping, collected, panicking, cancelled>>

\* once.Do, with what becomes of retErr.
CancelWith(p, err) ==
    /\ pc[p] = "cancel"
    /\ cancelOnce = "unused"
    /\ cancelOnce' = "running"
    /\ retErr' = err
    /\ Go(p, "drain")
    /\ UNCHANGED <<finished, ctxDone, writes, result, mapping, collected, panicking>>

\* Mutant: the error is not set.
CancelNoError(p) == CancelWith(p, retErr)

\* cancel, first call: retErr.Set(err), and drain(source) begins.
Cancel(p) == CancelWith(p, TRUE)

AfterCancel(p) == IF p = Caller THEN "deferred" ELSE "run"

\* The source is drained: finish.
CancelFinish(p) ==
    /\ pc[p] = "drain"
    /\ p # Executor
    /\ sourceClosed
    /\ finished' = TRUE
    /\ cancelOnce' = "used"
    /\ Go(p, AfterCancel(p))
    /\ UNCHANGED <<ctxDone, retErr, writes, result, mapping, collected, panicking>>

\* once.Do returns to those who called while the first call was running.
CancelReturn(p) ==
    /\ pc[p] = "cancel"
    /\ cancelOnce = "used"
    /\ Go(p, AfterCancel(p))
    /\ UNCHANGED <<finished, ctxDone, writes, result, mapping, collected, panicking, cancelled>>

-----------------------------------------------------------------------------
\* The caller's select, case <-options.ctx.Done()
CallerTimeout ==
    /\ pc[Caller] = "select"
    /\ ctxDone
    /\ result' = "deadline"
    /\ Go(Caller, "cancel")
    /\ UNCHANGED <<finished, ctxDone, writes, mapping, collected, panicking, cancelled>>

\* case v := <-panicChan.channel, sent by p.
CallerPanic(p) ==
    /\ pc[Caller] = "select"
    /\ pc[p] = "panic"
    /\ pc' = [pc EXCEPT ![Caller] = "drainOutput", ![p] = "exit"]
    /\ UNCHANGED <<finished, ctxDone, writes, result, mapping, collected, panicking, cancelled>>

\* case v, ok := <-output, with a value or closed.
CallerOutput ==
    /\ pc[Caller] = "select"
    /\ \/ /\ pc[Reducer] = "send"
          /\ ~finished
          /\ pc' = [pc EXCEPT ![Caller] = "deferred", ![Reducer] = "run"]
          /\ result' = IF retErr THEN "error" ELSE "value"
       \/ /\ finished
          /\ Go(Caller, "deferred")
          /\ result' = IF retErr THEN "error" ELSE "noOutput"
    /\ UNCHANGED <<finished, ctxDone, writes, mapping, collected, panicking, cancelled>>

\* The reducer's value is taken in drain(output), or in the deferred loop,
\* which panics.
CallerTakes ==
    /\ pc[Reducer] = "send"
    /\ ~finished
    /\ \/ /\ pc[Caller] = "drainOutput"
          /\ Go(Reducer, "run")
       \/ /\ pc[Caller] = "deferred"
          /\ pc' = [pc EXCEPT ![Caller] = "panicked", ![Reducer] = "run"]
    /\ UNCHANGED <<finished, ctxDone, writes, result, mapping, collected, panicking, cancelled>>

\* The output is closed: the caller panics with the panic it was sent, or
\* returns.
CallerEnd ==
    /\ finished
    /\ \/ pc[Caller] = "drainOutput" /\ Go(Caller, "panicked")
       \/ pc[Caller] = "deferred" /\ Go(Caller, "returned")
    /\ UNCHANGED <<finished, ctxDone, writes, result, mapping, collected, panicking, cancelled>>

-----------------------------------------------------------------------------
Step ==
    \/ Loop \/ Leave \/ Acquire \/ SourceEnd \/ CloseCollector \/ Drained
    \/ Generate \/ GeneratorExit
    \/ \E i \in Items : Dispatch(i) \/ Deliver(i) \/ MapperExit(i)
    \/ \E i \in Items, p \in Procs : DrainItem(i, p)
    \/ \E p \in Items \cup {Generator} : Return(p) \/ Panic(p)
    \/ \E p \in Writers : Write(p) \/ CallCancel(p)
    \/ \E p \in Writers \cup {Caller} : Cancel(p) \/ CancelFinish(p) \/ CancelReturn(p)
    \/ Read \/ Collect \/ ReadClosed \/ ReducerReturn \/ ReducerPanic \/ Collected \/ ReducerExit
    \/ CallerTimeout \/ CallerOutput \/ CallerTakes \/ CallerEnd
    \/ \E p \in Procs : CallerPanic(p)

Next == Step \/ Expire

Spec == Init /\ [][Next]_vars

\* While some goroutine can go on, one does; the user's functions, which send
\* and write a bounded number of times, return.  The context need not end.
FairSpec == Spec /\ WF_vars(Step)

-----------------------------------------------------------------------------
TypeOK ==
    /\ pc \in [Procs -> Places]
    /\ pool \in 0 .. Workers
    /\ wg \in Nat
    /\ collector \in 0 .. Workers
    /\ sourceClosed \in BOOLEAN
    /\ failed \in BOOLEAN
    /\ collectorClosed \in BOOLEAN
    /\ finished \in BOOLEAN
    /\ ctxDone \in BOOLEAN
    /\ wrote \in BOOLEAN
    /\ retErr \in BOOLEAN
    /\ raised \subseteq {Generator, Reducer}
    /\ cancelOnce \in {"unused", "running", "used"}
    /\ writes \in [Writers -> Nat]
    /\ result \in Results

\* Where an item is whose goroutine does not run.
NotMapping == {"new", "drained", "ended"}

\* The goroutines that map an item.
Mapping == {i \in Items : pc[i] \notin NotMapping}

\* The place executeMappers has taken before it knows whether there is an item.
Taken == IF pc[Executor] = "recv" THEN 1 ELSE 0

\* Every place in the pool is that of a running mapper or of the next one, and
\* the wait group counts the mappers, whether they return or panic: so no more
\* than options.workers run at a time and no place is lost on the way.
PlacesExact == pool = Cardinality(Mapping) + Taken /\ wg = Cardinality(Mapping)

\* executeMappers closes the collector when no mapper is left that could write
\* to it, on every way out of its loop: a write would panic in a goroutine.
ClosedAfterMappers == collectorClosed => Mapping = {}

\* generate panicked, and so did a mapper: whichever comes second is dropped,
\* and if that is the mapper's, the call ends without the generator, whose
\* panic the caller's select may then pass over for the closed output.
BothPanicked == failed /\ Generator \in raised

Undisturbed == cancelOnce = "unused" /\ ~ctxDone /\ ~BothPanicked

\* A call that returns, not cancelled and in time, has mapped every item that
\* was generated, and neither generate nor mapper nor reducer panicked: a panic
\* reaches the caller and nothing is dropped.  (Not so if two panics collide.)
CompleteUnlessCancelled ==
    pc[Caller] = "returned" /\ Undisturbed =>
        /\ \A i \in Items : pc[i] \in {"new", "ended"}
        /\ raised = {}
        /\ ~failed

\* ErrReduceNoOutput is never returned for a call that was cancelled, at
\* whatever moment, by whichever goroutine.
NoOutputIsHonest == result = "noOutput" => cancelOnce = "unused" /\ ~retErr

\* A panic that nobody will ever receive: the caller has left its select.
LostPanic == \E p \in Procs : pc[p] = "panic" /\ pc[Caller] # "select"

\* A panic is lost only after cancel, a done context, another panic, or a value
\* the reducer wrote before the mappers were done.
PanicsReachCaller == LostPanic => ~Undisturbed \/ result = "value"

Ended ==
    /\ pc[Caller] \in {"returned", "panicked"}
    /\ \A p \in {Generator, Executor, Reducer} : pc[p] = "ended"
    /\ Mapping = {}

\* A value that nobody will receive: the caller panicked over the reducer's
\* second value, and the reducer writes a further one.
LostValue == pc[Reducer] = "send" /\ pc[Caller] = "panicked"

\* In the end the call has returned or panicked and no goroutine is left behind
\* (the tests end with goleak.VerifyNone), whatever the user's functions do,
\* except that the goroutine of a lost panic, and a reducer that writes again
\* after the caller panicked over its second value, block for ever, and so does
\* whoever waits for them.
EverybodyEnds == <>[](Ended \/ LostPanic \/ LostValue)
=============================================================================
