------------------------- MODULE PeriodicalExecutor -------------------------
(***************************************************************************)
(* executors.PeriodicalExecutor (core/executors/periodicalexecutor.go) over *)
(* the containers of BulkExecutor and ChunkExecutor: goroutines add tasks, *)
(* a background goroutine executes them in batches, on a tick or when the  *)
(* container is full, and quits when it has been idle.                     *)
(*                                                                         *)
(* Every critical section of pe.lock is one step, and so is every one of   *)
(* wgBarrier, except that Wait keeps wgBarrier while it waits.  How long   *)
(* the background goroutine has been idle is left open: a delayed goroutine *)
(* may find any amount of time passed.  Sync runs the caller's function    *)
(* under pe.lock and touches nothing of pe.  Execute does not call back.   *)
(***************************************************************************)
EXTENDS Integers, FiniteSetsExt

CONSTANTS
    Tasks,      \* the tasks ever added; each is added once
    Size,       \* Size[t]: 1 for a bulk executor, a chunk's size for a chunk executor
    MaxSize,    \* maxTasks, or maxChunkSize
    Adders,     \* goroutines that call Add
    Callers,    \* goroutines that call Flush and Wait
    Flushers,   \* background goroutines that may exist at the same time
    Nobody      \* the owner of an unlocked mutex; no task

ASSUME SizeAssumption == Size \in [Tasks -> Nat] /\ MaxSize \in Nat
ASSUME ProcAssumption ==
    /\ Adders \cap Callers = {}
    /\ Adders \cap Flushers = {}
    /\ Callers \cap Flushers = {}
    /\ Nobody \notin Tasks \cup Callers
ASSUME FiniteAssumption == IsFiniteSet(Adders) /\ IsFiniteSet(Callers) /\ IsFiniteSet(Flushers)

VARIABLES
    container,  \* the tasks in the container
    commander,  \* the batch in the commander channel (buffer 1), {} if empty:
                \* a batch that is sent is never empty
    inflight,   \* pe.inflight
    guarded,    \* pe.guarded: is there a background goroutine?
    waitGroup,  \* the counter of pe.waitGroup
    barrier,    \* the caller that waits inside wgBarrier, or Nobody
    pc,         \* where each goroutine is
    batch,      \* batch[p]: the tasks goroutine p has taken
    adding,     \* adding[a]: the task of a's Add call
    commanded,  \* commanded[b]: the local variable of backgroundFlush
    quitting,   \* background goroutines in their deferred Flush
    called,     \* called[c]: tasks whose Add had returned when c called Wait
    executed    \* tasks given to Execute

vars == <<container, commander, inflight, guarded, waitGroup, barrier, pc,
          batch, adding, commanded, quitting, called, executed>>

queues   == <<container, commander>>
counters == <<inflight, waitGroup>>
flusher  == <<guarded, commanded, quitting>>
calls    == <<adding, called>>

Procs == Adders \cup Callers \cup Flushers

AdderPc   == {"idle", "send", "confirm"}
FlushPc   == {"enter", "take", "execute"}
CallerPc  == {"idle", "barrier", "wait"} \cup FlushPc
FlusherPc == {"dead", "loop", "check", "cmdEnter", "cmdConfirm", "cmdExecute"} \cup FlushPc

\* AddTask: is the container to be flushed after the addition?
Full(S) == MapThenSumSet(LAMBDA t : Size[t], S) >= MaxSize

Handed   == UNION {batch[p] : p \in Procs}
Added    == container \cup commander \cup Handed \cup executed
Returned == Added \ {adding[a] : a \in Adders}

Init ==
    /\ container = {}
    /\ commander = {}
    /\ inflight = 0
    /\ guarded = FALSE
    /\ waitGroup = 0
    /\ barrier = Nobody
    /\ pc = [p \in Procs |-> IF p \in Flushers THEN "dead" ELSE "idle"]
    /\ batch = [p \in Procs |-> {}]
    /\ adding = [a \in Adders |-> Nobody]
    /\ commanded = [b \in Flushers |-> FALSE]
    /\ quitting = {}
    /\ called = [c \in Callers |-> {}]
    /\ executed = {}

-----------------------------------------------------------------------------
\* The go statement of backgroundFlush.  It follows the unlock of addAndCheck
\* in the same goroutine; until it is executed guarded is already set and
\* nobody receives, which the idle new goroutine stands for.
Spawn(b, atAdd) ==
    /\ pc[b] = "dead"
    /\ pc' = [atAdd EXCEPT ![b] = "loop"]
    /\ commanded' = [commanded EXCEPT ![b] = FALSE]

\* Add, addAndCheck: the first adder to find pe unguarded starts the
\* background goroutine.
AddTask(a, t) ==
    LET full == Full(container \cup {t})
        at(s) == [pc EXCEPT ![a] = s]
        next == at(IF full THEN "send" ELSE "idle")
    IN /\ pc[a] = "idle"
       /\ t \notin Added
       /\ IF full
          THEN /\ batch' = [batch EXCEPT ![a] = container \cup {t}]
               /\ container' = {}
               /\ inflight' = inflight + 1
               /\ adding' = [adding EXCEPT ![a] = t]
          ELSE /\ container' = container \cup {t}
               /\ UNCHANGED <<batch, inflight, adding>>
       /\ guarded' = TRUE
       /\ IF guarded
          THEN pc' = next /\ UNCHANGED commanded
          ELSE \E b \in Flushers : Spawn(b, next)
       /\ UNCHANGED <<commander, waitGroup, barrier, quitting, called, executed>>

\* The send of a's batch into the free buffer; a goes to "where".
SendThen(a, where, task) ==
    /\ pc[a] = "send"
    /\ commander = {}
    /\ commander' = batch[a]
    /\ batch' = [batch EXCEPT ![a] = {}]
    /\ adding' = [adding EXCEPT ![a] = task]
    /\ pc' = [pc EXCEPT ![a] = where]
    /\ UNCHANGED <<container, barrier, called, executed, counters, flusher>>

\* Mutant: Add does not wait for the confirmation.
SendNoConfirm(a) == SendThen(a, "idle", Nobody)

\* pe.commander <- vals
Send(a) == SendThen(a, "confirm", adding[a])

-----------------------------------------------------------------------------
\* b receives the batch in the channel; inflight becomes "left".
TakeCommand(b, left) ==
    /\ pc[b] = "loop"
    /\ commander # {}
    /\ commander' = {}
    /\ batch' = [batch EXCEPT ![b] = commander]
    /\ commanded' = [commanded EXCEPT ![b] = TRUE]
    /\ inflight' = left
    /\ pc' = [pc EXCEPT ![b] = "cmdEnter"]
    /\ UNCHANGED <<container, guarded, waitGroup, barrier, quitting, executed, calls>>

\* Mutant: a received batch stays in flight.
ReceiveInflight(b) == TakeCommand(b, inflight)

\* backgroundFlush: vals := <-pe.commander
Receive(b) == TakeCommand(b, inflight - 1)

\* pe.confirmChan <- lang.Placeholder: any adder that waits for a
\* confirmation may be the one that gets it.
Confirm(b, a) ==
    /\ pc[b] = "cmdConfirm"
    /\ pc[a] = "confirm"
    /\ pc' = [pc EXCEPT ![b] = "cmdExecute", ![a] = "idle"]
    /\ adding' = [adding EXCEPT ![a] = Nobody]
    /\ UNCHANGED <<barrier, batch, called, executed, queues, counters, flusher>>

\* A tick: a goroutine that was commanded since the last one does nothing.
Tick(b) ==
    /\ pc[b] = "loop"
    /\ commanded' = [commanded EXCEPT ![b] = FALSE]
    /\ pc' = IF commanded[b] THEN pc ELSE [pc EXCEPT ![b] = "enter"]
    /\ UNCHANGED <<guarded, barrier, batch, quitting, executed, queues, counters,
                   calls>>

\* shallQuit returns true, if it may, and guarded is set.
Quit(b, may, stillGuarded) ==
    /\ pc[b] = "check"
    /\ may
    /\ guarded' = stillGuarded
    /\ quitting' = quitting \cup {b}
    /\ pc' = [pc EXCEPT ![b] = "enter"]
    /\ UNCHANGED <<barrier, batch, commanded, executed, queues, counters, calls>>

\* Mutants: quits although a batch is on its way; quits and leaves pe guarded.
ShallQuitAnyway(b)  == Quit(b, TRUE, FALSE)
ShallQuitGuarded(b) == Quit(b, inflight = 0, guarded)

\* shallQuit finds the goroutine idle for too long and no batch on its way;
\* the deferred Flush follows.
ShallQuit(b) == Quit(b, inflight = 0, FALSE)

\* shallQuit returns false: it is too early, or a batch is on its way.
StayOn(b) ==
    /\ pc[b] = "check"
    /\ pc' = [pc EXCEPT ![b] = "loop"]
    /\ UNCHANGED <<barrier, batch, executed, queues, counters, flusher, calls>>

-----------------------------------------------------------------------------
\* waitGroup becomes "count", under wgBarrier.
Enter(p, count) ==
    /\ pc[p] \in {"cmdEnter", "enter"}
    /\ barrier = Nobody
    /\ waitGroup' = count
    /\ pc' = [pc EXCEPT ![p] = IF @ = "cmdEnter" THEN "cmdConfirm" ELSE "take"]
    /\ UNCHANGED <<inflight, barrier, batch, executed, queues, flusher, calls>>

\* Mutant: Flush forgets to enter.
EnterExecutionCommand(p) == Enter(p, IF pc[p] = "enter" THEN waitGroup ELSE waitGroup + 1)

\* enterExecution, for a batch of an adder (cmdEnter) or a Flush (enter): it
\* waits while a caller waits inside wgBarrier.
EnterExecution(p) == Enter(p, waitGroup + 1)

\* p takes the container's tasks and leaves "left" in it.
Take(p, left) ==
    /\ pc[p] = "take"
    /\ batch' = [batch EXCEPT ![p] = container]
    /\ container' = left
    /\ pc' = [pc EXCEPT ![p] = "execute"]
    /\ UNCHANGED <<commander, barrier, executed, counters, flusher, calls>>

\* Mutant: RemoveAll returns the tasks and keeps them.
RemoveAllKeeps(p) == Take(p, container)

\* Flush: container.RemoveAll under pe.lock.
RemoveAll(p) == Take(p, {})

\* Where p goes after it executed its tasks: the background goroutine returns
\* to its loop, checks whether to quit if it had nothing to flush, or ends; a
\* caller returns from Flush, or goes on to wait.
AfterExecute(p) ==
    IF p \in Callers THEN {"idle", "barrier"}
    ELSE IF p \in quitting THEN {"dead"}
    ELSE IF pc[p] = "cmdExecute" \/ batch[p] # {} THEN {"loop"}
    ELSE {"check"}

\* executeTasks with its deferred doneExecution.
ExecuteTasks(p) ==
    /\ pc[p] \in {"cmdExecute", "execute"}
    /\ executed' = executed \cup batch[p]
    /\ batch' = [batch EXCEPT ![p] = {}]
    /\ waitGroup' = waitGroup - 1
    /\ \E s \in AfterExecute(p) : pc' = [pc EXCEPT ![p] = s]
    /\ quitting' = quitting \ {p}
    /\ UNCHANGED <<inflight, guarded, barrier, commanded, queues, calls>>

\* Flush, as a client or the shutdown listener calls it, or Wait, which begins
\* with a Flush.
CallFlush(c) ==
    /\ pc[c] = "idle"
    /\ pc' = [pc EXCEPT ![c] = "enter"]
    /\ called' = [called EXCEPT ![c] = Returned]
    /\ UNCHANGED <<barrier, batch, adding, executed, queues, counters, flusher>>

\* Wait: wgBarrier.Guard around waitGroup.Wait.
TakeBarrier(c) ==
    /\ pc[c] = "barrier"
    /\ barrier = Nobody
    /\ barrier' = c
    /\ pc' = [pc EXCEPT ![c] = "wait"]
    /\ UNCHANGED <<batch, executed, queues, counters, flusher, calls>>

\* Wait returns, if it may, and releases wgBarrier.
EndWait(c, may) ==
    /\ pc[c] = "wait"
    /\ may
    /\ barrier' = Nobody
    /\ pc' = [pc EXCEPT ![c] = "idle"]
    /\ UNCHANGED <<batch, executed, queues, counters, flusher, calls>>

\* Mutant: Wait does not wait for the wait group.
WaitReturnNow(c) == EndWait(c, TRUE)

\* pe.waitGroup.Wait() returns.
WaitReturn(c) == EndWait(c, waitGroup = 0)

-----------------------------------------------------------------------------
Next ==
    \/ \E a \in Adders, t \in Tasks : AddTask(a, t)
    \/ \E a \in Adders : Send(a)
    \/ \E b \in Flushers : Receive(b) \/ Tick(b) \/ ShallQuit(b) \/ StayOn(b)
    \/ \E b \in Flushers, a \in Adders : Confirm(b, a)
    \/ \E p \in Flushers \cup Callers : EnterExecution(p) \/ RemoveAll(p) \/ ExecuteTasks(p)
    \/ \E c \in Callers : CallFlush(c) \/ TakeBarrier(c) \/ WaitReturn(c)

Spec == Init /\ [][Next]_vars

\* Goroutines are scheduled, the ticker ticks and Execute returns.  The select
\* of backgroundFlush picks at random among what is ready, and a sync.Mutex
\* does not starve who waits for it: strong fairness.  Nobody is obliged to add
\* a task or to call Flush, nor the background goroutine to quit.
Fairness ==
    /\ WF_vars(\E a \in Adders : Send(a))
    /\ WF_vars(\E b \in Flushers, a \in Adders : Confirm(b, a))
    /\ SF_vars(\E b \in Flushers : Receive(b))
    /\ \A b \in Flushers :
        /\ SF_vars(EnterExecution(b))
        /\ WF_vars(Tick(b) \/ ShallQuit(b) \/ StayOn(b) \/ RemoveAll(b) \/ ExecuteTasks(b))
    /\ \A c \in Callers :
        WF_vars(EnterExecution(c) \/ RemoveAll(c) \/ ExecuteTasks(c)
                    \/ TakeBarrier(c) \/ WaitReturn(c))

FairSpec == Spec /\ Fairness

-----------------------------------------------------------------------------
Types ==
    /\ container \subseteq Tasks
    /\ commander \subseteq Tasks
    /\ inflight \in Int
    /\ guarded \in BOOLEAN
    /\ waitGroup \in Int
    /\ barrier \in Callers \cup {Nobody}
    /\ pc \in [Procs -> AdderPc \cup CallerPc \cup FlusherPc]
    /\ \A a \in Adders : pc[a] \in AdderPc
    /\ \A c \in Callers : pc[c] \in CallerPc
    /\ \A b \in Flushers : pc[b] \in FlusherPc
    /\ batch \in [Procs -> SUBSET Tasks]
    /\ adding \in [Adders -> Tasks \cup {Nobody}]
    /\ commanded \in [Flushers -> BOOLEAN]
    /\ quitting \subseteq Flushers
    /\ called \in [Callers -> SUBSET Tasks]
    /\ executed \subseteq Tasks

\* Every variable has its type, and the two counters never go below zero: the
\* wait group would panic, and shallQuit (inflight == 0) would not quit again.
TypeOK == Types /\ inflight \in Nat /\ waitGroup \in Nat

\* No task is in two places: whatever adders, ticks, Flush and a quitting
\* goroutine do at the same time, none takes a task that another one has or
\* that was executed, so no task is executed twice.
ExecutedOnce ==
    /\ \A p \in Procs :
        /\ batch[p] \cap (container \cup commander \cup executed) = {}
        /\ \A q \in Procs \ {p} : batch[p] \cap batch[q] = {}
    /\ container \cap (commander \cup executed) = {}
    /\ commander \cap executed = {}

\* Background goroutines that still serve the commander channel.
Serving == {b \in Flushers : pc[b] # "dead" /\ b \notin quitting}

\* The background goroutine never quits while a batch is on its way to it
\* ("checking pe.inflight and setting pe.guarded should be locked together"),
\* and there is never a second one that serves.
GuardedIsServed ==
    /\ guarded <=> Serving # {}
    /\ \A b, c \in Serving : b = c
    /\ commander # {} \/ (\E a \in Adders : pc[a] # "idle") => guarded

Occupied == IF commander # {} THEN 1 ELSE 0

\* How many goroutines of S are at one of the places L.
Count(at, S, L) == Cardinality({p \in S : at[p] \in L})

\* Where a goroutine is between enterExecution and doneExecution.
Entered == {"take", "execute", "cmdConfirm", "cmdExecute"}

Sending(at)     == Count(at, Adders, {"send"})
Confirming(at)  == Count(at, Adders, {"confirm"})
Unconfirmed(at) == Count(at, Flushers, {"cmdEnter", "cmdConfirm"})
Executing(at)   == Count(at, Flushers \cup Callers, Entered)

\* Every adder that waits for a confirmation will get one: there are as many
\* adders waiting as batches not yet confirmed, whichever adder takes which
\* confirmation.
ConfirmBalance == Confirming(pc) = Unconfirmed(pc) + Occupied

\* The counter shallQuit trusts: inflight counts the batches taken out of the
\* container by adders and not yet received, though it is incremented and
\* decremented by different goroutines.
InflightExact == inflight = Sending(pc) + Occupied

\* The counter Wait trusts: waitGroup counts the executions entered and not
\* done.
WaitGroupExact == waitGroup = Executing(pc)

\* Both counters are exact in every state, though adders increment inflight and
\* the receiver of a batch decrements it, and every goroutine that executes
\* changes waitGroup: one too low, and shallQuit abandons a batch or Wait returns
\* early; one too high, and the background goroutine or Wait stays for ever.
CountersMatch == InflightExact /\ WaitGroupExact

\* The batches of adders for which enterExecution has not been called.
OnTheWay ==
    commander \cup (UNION {batch[a] : a \in Adders})
        \cup (UNION {batch[b] : b \in {f \in Flushers : pc[f] = "cmdEnter"}})

\* "Wait waits the execution to be done.": when Wait returns, every task whose
\* Add had returned before the call is executed.  The code does not keep this:
\* see WaitCovers.
WaitWaits ==
    [][\A c \in Callers : WaitReturn(c) => called[c] \subseteq executed]_vars

\* Wait misses no task but those of batches on their way from another adder:
\* enterExecution comes before RemoveAll in Flush and before the confirmation
\* in backgroundFlush, and no batch is entered while Wait waits.
WaitCovers ==
    [][\A c \in Callers : pc[c] = "wait" /\ pc'[c] = "idle"
            => called[c] \subseteq executed \cup OnTheWay]_vars

\* Every task that is added is executed, though nobody calls Flush and the
\* background goroutine may quit at any idle moment.
EventuallyExecuted == \A t \in Tasks : t \in Added ~> t \in executed

\* Every Add returns, and every Wait returns.
CallsReturn ==
    /\ \A a \in Adders : pc[a] # "idle" ~> pc[a] = "idle"
    /\ \A c \in Callers : pc[c] # "idle" ~> pc[c] = "idle"
=============================================================================
