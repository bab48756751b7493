----------------------------- MODULE CacheAside -----------------------------
(***************************************************************************)
(* A row of a database cached in redis under one key, as stores/sqlc and   *)
(* stores/cache do it: readers take it from redis and, on a miss, query the *)
(* database and fill redis; writers update the row and delete the key; a   *)
(* delete that fails is left to the cleaner, which tries again later.      *)
(* Readers of one process share their calls (syncx.SingleFlight).          *)
(*                                                                         *)
(* Redis and the database are external.  Any call to redis may fail, done  *)
(* or undone.  Expiry times are not modelled: an entry may expire at any   *)
(* moment.  The timer of a retry may run at any moment.  The deferred end  *)
(* of a shared call (delete from the map, wake the others) is one step.    *)
(***************************************************************************)
EXTENDS Integers, FiniteSets

CONSTANTS
    Procs,      \* processes; each has its own single flight and cleaner
    Readers,    \* goroutines that call QueryRow (cacheNode.Take)
    Writers,    \* goroutines that call Exec
    Homes,      \* the ways to place the goroutines on the processes
    MaxUpdates, \* bound on the updates of the row
    Nobody      \* no goroutine

ASSUME ProcAssumption ==
    /\ Homes \subseteq [Readers \cup Writers -> Procs]
    /\ Readers \cap Writers = {}
    /\ Nobody \notin Readers
ASSUME BoundAssumption == MaxUpdates \in Nat

VARIABLES
    home,       \* home[g]: the process of goroutine g, one of Homes
    db,         \* the row: its version and whether it is there
    cache,      \* redis: nothing, a placeholder, a value, or one not readable,
                \* with the version it is of; late: it was outdated when stored
    calls,      \* calls[p]: the reader that makes the shared call, or Nobody
    pc,         \* where each goroutine is
    lead,       \* lead[r]: whose call r waits for, or Nobody
    read,       \* read[r]: what r has read of the row
    result,     \* result[r]: what r's Take is about to return
    tasks,      \* tasks[p][d]: delayed deletes of p that wait for delay d
    since,      \* history: the version of the row when r's call, or the call
                \* in progress it joined, began
    lost        \* history: a delete was given up, lost in a crash, or skipped
                \* because exec changed the row and returned an error

vars == <<home, db, cache, calls, pc, lead, read, result, tasks, since, lost>>

flight == <<calls, lead, since>>

\* The delays of the cleaner, in seconds.
Delays == {1, 5, 60, 300, 3600}

Empty     == [kind |-> "none", ver |-> 0, late |-> FALSE]
Nothing   == [kind |-> "none", ver |-> 0]
Outcome(k, v) == [kind |-> k, ver |-> v]

ReaderPc == {"idle", "join", "get", "purge", "query", "fill", "hole", "end", "done"}
WriterPc == {"idle", "del"}

Init ==
    /\ home \in Homes
    /\ db \in [ver : {0}, there : BOOLEAN]
    /\ cache = Empty
    /\ calls = [p \in Procs |-> Nobody]
    /\ pc = [g \in Readers \cup Writers |-> "idle"]
    /\ lead = [r \in Readers |-> Nobody]
    /\ read = [r \in Readers |-> 0]
    /\ result = [r \in Readers |-> Nothing]
    /\ tasks = [p \in Procs |-> [d \in Delays |-> 0]]
    /\ since = [r \in Readers |-> 0]
    /\ lost = FALSE

-----------------------------------------------------------------------------
\* A key is stored, by a reader that has read version v of the row.
Stored(k, v) == [kind |-> k, ver |-> v, late |-> v < db.ver]

\* A call to redis: it succeeds, or fails after or before its effect.
RedisEffect(new) == cache' = new \/ UNCHANGED cache

\* Mutant: a caller never joins.
TakeAlone(r) ==
    /\ pc[r] = "idle"
    /\ pc' = [pc EXCEPT ![r] = "get"]
    /\ calls' = [calls EXCEPT ![home[r]] = r]
    /\ since' = [since EXCEPT ![r] = db.ver]
    /\ UNCHANGED <<home, db, cache, lead, read, result, tasks, lost>>

\* DoEx, createCall: the first caller makes the call, the others wait for it.
Take(r) ==
    LET leader == calls[home[r]] IN
    /\ pc[r] = "idle"
    /\ IF leader = Nobody
       THEN /\ pc' = [pc EXCEPT ![r] = "get"]
            /\ calls' = [calls EXCEPT ![home[r]] = r]
            /\ since' = [since EXCEPT ![r] = db.ver]
            /\ UNCHANGED lead
       ELSE /\ pc' = [pc EXCEPT ![r] = "join"]
            /\ lead' = [lead EXCEPT ![r] = leader]
            /\ since' = [since EXCEPT ![r] = since[leader]]
            /\ UNCHANGED calls
    /\ UNCHANGED <<home, db, cache, read, result, tasks, lost>>

\* The function of the shared call ends with outcome o.
Concludes(r, o) ==
    /\ pc' = [pc EXCEPT ![r] = "end"]
    /\ result' = [result EXCEPT ![r] = o]

\* doGetCache: a placeholder is an answer, an error of redis does not reach the
\* database, and a value that can not be read is deleted (processCache).
GetCache(r) ==
    /\ pc[r] = "get"
    /\ \/ /\ cache.kind = "none"
          /\ pc' = [pc EXCEPT ![r] = "query"] /\ UNCHANGED result
       \/ /\ cache.kind = "bad"
          /\ pc' = [pc EXCEPT ![r] = "purge"] /\ UNCHANGED result
       \/ cache.kind \in {"hole", "value"} /\ Concludes(r, Outcome("hit", 0))
       \/ Concludes(r, Outcome("error", 0))
    /\ UNCHANGED <<home, db, cache, flight, read, tasks, lost>>

\* processCache: the failure of this delete is only logged.
Purge(r) ==
    /\ pc[r] = "purge"
    /\ RedisEffect(Empty)
    /\ pc' = [pc EXCEPT ![r] = "query"]
    /\ UNCHANGED <<home, db, flight, read, result, tasks, lost>>

\* doTake: the caller's query; it may fail, and it may panic.
Query(r) ==
    /\ pc[r] = "query"
    /\ \/ /\ pc' = [pc EXCEPT ![r] = IF db.there THEN "fill" ELSE "hole"]
          /\ read' = [read EXCEPT ![r] = db.ver]
          /\ UNCHANGED result
       \/ Concludes(r, Outcome("error", 0)) /\ UNCHANGED read
       \/ Concludes(r, Outcome("panic", 0)) /\ UNCHANGED read
    /\ UNCHANGED <<home, db, cache, flight, tasks, lost>>

\* doTake, cacheVal: an error of redis is only logged.
Fill(r) ==
    /\ pc[r] = "fill"
    /\ RedisEffect(Stored("value", read[r]))
    /\ Concludes(r, Outcome("row", read[r]))
    /\ read' = [read EXCEPT ![r] = 0]
    /\ UNCHANGED <<home, db, flight, tasks, lost>>

\* setCacheWithNotFound: SETNX.
FillHole(r) ==
    /\ pc[r] = "hole"
    /\ RedisEffect(IF cache.kind = "none" THEN Stored("hole", read[r]) ELSE cache)
    /\ Concludes(r, Outcome("notFound", read[r]))
    /\ read' = [read EXCEPT ![r] = 0]
    /\ UNCHANGED <<home, db, flight, tasks, lost>>

Joined(r) == {j \in Readers : pc[j] = "join" /\ lead[j] = r}

\* Mutant: the call stays in the map, to be joined by those who come later.
EndCallStays(r) ==
    LET all == Joined(r) \cup {r} IN
    /\ pc[r] = "end"
    /\ pc' = [g \in DOMAIN pc |-> IF g \in all THEN "done" ELSE pc[g]]
    /\ result' = [j \in Readers |-> IF j \in all THEN result[r] ELSE result[j]]
    /\ lead' = [j \in Readers |-> IF j \in all THEN Nobody ELSE lead[j]]
    /\ UNCHANGED <<home, db, cache, calls, read, tasks, since, lost>>

\* Mutant: a panic skips the end of the call.
EndCallNotDeferred(r) ==
    LET all == IF result[r].kind = "panic" THEN {r} ELSE Joined(r) \cup {r} IN
    /\ pc[r] = "end"
    /\ calls' = [calls EXCEPT ![home[r]] = IF result[r].kind = "panic" THEN @ ELSE Nobody]
    /\ pc' = [g \in DOMAIN pc |-> IF g \in all THEN "done" ELSE pc[g]]
    /\ result' = [j \in Readers |-> IF j \in all THEN result[r] ELSE result[j]]
    /\ lead' = [j \in Readers |-> IF j \in all THEN Nobody ELSE lead[j]]
    /\ UNCHANGED <<home, db, cache, read, tasks, since, lost>>

\* makeCall, the deferred function: those who wait get val and err of the call.
\* After a panic both are nil, and doTake panics at val.([]byte) as well.
EndCall(r) ==
    LET all == Joined(r) \cup {r} IN
    /\ pc[r] = "end"
    /\ calls' = [calls EXCEPT ![home[r]] = Nobody]
    /\ pc' = [g \in DOMAIN pc |-> IF g \in all THEN "done" ELSE pc[g]]
    /\ result' = [j \in Readers |-> IF j \in all THEN result[r] ELSE result[j]]
    /\ lead' = [j \in Readers |-> IF j \in all THEN Nobody ELSE lead[j]]
    /\ UNCHANGED <<home, db, cache, read, tasks, since, lost>>

\* Take returns.
Return(r) ==
    /\ pc[r] = "done"
    /\ pc' = [pc EXCEPT ![r] = "idle"]
    /\ result' = [result EXCEPT ![r] = Nothing]
    /\ since' = [since EXCEPT ![r] = 0]
    /\ UNCHANGED <<home, db, cache, calls, lead, read, tasks, lost>>

-----------------------------------------------------------------------------
\* ExecCtx: the row is inserted, updated or deleted.  On an error of exec the
\* key is not deleted, although the row may have changed: the answer got lost,
\* the context ended after the commit, or one of several statements failed.  An
\* exec that fails and changes nothing is no step.
Exec(w, there) ==
    /\ pc[w] = "idle"
    /\ db.ver < MaxUpdates
    /\ db' = [ver |-> db.ver + 1, there |-> there]
    /\ \/ pc' = [pc EXCEPT ![w] = "del"] /\ UNCHANGED lost
       \/ lost' = TRUE /\ UNCHANGED pc
    /\ UNCHANGED <<home, cache, flight, read, result, tasks>>

\* Mutant: a delete that fails is forgotten.
DelCacheForgets(w) ==
    /\ pc[w] = "del"
    /\ RedisEffect(Empty)
    /\ UNCHANGED tasks
    /\ pc' = [pc EXCEPT ![w] = "idle"]
    /\ UNCHANGED <<home, db, flight, read, result, lost>>

\* DelCtx: a delete that fails, done or undone, is left to the cleaner
\* (asyncRetryDelCache, AddCleanTask).  The caller gets no error.
DelCache(w) ==
    LET p == home[w] IN
    /\ pc[w] = "del"
    /\ \/ cache' = Empty /\ UNCHANGED tasks
       \/ RedisEffect(Empty) /\ tasks' = [tasks EXCEPT ![p][1] = @ + 1]
    /\ pc' = [pc EXCEPT ![w] = "idle"]
    /\ UNCHANGED <<home, db, flight, read, result, lost>>

\* nextDelay: the delay after d, or 0 when there is no further retry.
NextDelay(d) ==
    IF d = 1 THEN 5 ELSE IF d = 5 THEN 60 ELSE IF d = 60 THEN 300
    ELSE IF d = 300 THEN 3600 ELSE 0

\* clean: the delete is tried again, and waits for the next delay or is given
\* up and reported.
Clean(p, d) ==
    LET rest == [tasks[p] EXCEPT ![d] = @ - 1]
        next == NextDelay(d)
    IN /\ tasks[p][d] > 0
       /\ \/ /\ cache' = Empty
             /\ tasks' = [tasks EXCEPT ![p] = rest]
             /\ UNCHANGED lost
          \/ /\ RedisEffect(Empty)
             /\ IF next = 0
                THEN /\ tasks' = [tasks EXCEPT ![p] = rest]
                     /\ lost' = TRUE
                ELSE /\ tasks' = [tasks EXCEPT ![p] = [rest EXCEPT ![next] = @ + 1]]
                     /\ UNCHANGED lost
       /\ UNCHANGED <<home, db, calls, pc, lead, read, result, since>>

-----------------------------------------------------------------------------
\* Redis drops an entry whose time has come.
Expire ==
    /\ cache.kind # "none"
    /\ cache' = Empty
    /\ UNCHANGED <<home, db, flight, pc, read, result, tasks, lost>>

\* Another release of the program stores a value that this one can not read.
Spoil ==
    /\ cache' = [kind |-> "bad", ver |-> 0, late |-> FALSE]
    /\ UNCHANGED <<home, db, flight, pc, read, result, tasks, lost>>

Pending(p) == \E d \in Delays : tasks[p][d] > 0

\* A process ends: its calls and its delayed deletes are gone.  (A shutdown
\* that is announced drains the wheel, which tries each delete once more.)
Crash(p) ==
    LET Here(g) == home[g] = p IN
    /\ calls' = [calls EXCEPT ![p] = Nobody]
    /\ pc' = [g \in DOMAIN pc |-> IF Here(g) THEN "idle" ELSE pc[g]]
    /\ lead' = [r \in Readers |-> IF Here(r) THEN Nobody ELSE lead[r]]
    /\ read' = [r \in Readers |-> IF Here(r) THEN 0 ELSE read[r]]
    /\ result' = [r \in Readers |-> IF Here(r) THEN Nothing ELSE result[r]]
    /\ since' = [r \in Readers |-> IF Here(r) THEN 0 ELSE since[r]]
    /\ lost' = (lost \/ Pending(p) \/ \E w \in Writers : Here(w) /\ pc[w] = "del")
    /\ tasks' = [tasks EXCEPT ![p] = [d \in Delays |-> 0]]
    /\ UNCHANGED <<home, db, cache>>

ReaderStep(r) ==
    \/ GetCache(r) \/ Purge(r) \/ Query(r) \/ Fill(r) \/ FillHole(r)
    \/ EndCall(r) \/ Return(r)

Next ==
    \/ \E r \in Readers : Take(r)
    \/ \E r \in Readers : ReaderStep(r)
    \/ \E w \in Writers, there \in BOOLEAN : Exec(w, there)
    \/ \E w \in Writers : DelCache(w)
    \/ \E p \in Procs, d \in Delays : Clean(p, d)
    \/ Expire
    \/ Spoil
    \/ \E p \in Procs : Crash(p)

Spec == Init /\ [][Next]_vars

\* Goroutines go on, calls to redis and queries end, timers run.  Nobody has to
\* call Take or Exec, and nothing has to expire.
Fairness ==
    /\ \A r \in Readers : WF_vars(ReaderStep(r))
    /\ \A p \in Procs : WF_vars(\E d \in Delays : Clean(p, d))

FairSpec == Spec /\ Fairness

-----------------------------------------------------------------------------
\* Whose call is made.
Leading(r) == pc[r] \in {"get", "purge", "query", "fill", "hole", "end"}

\* Every variable has its type; a reader waits only for a call of its process
\* that is being made.
TypeOK ==
    /\ home \in Homes
    /\ db \in [ver : 0..MaxUpdates, there : BOOLEAN]
    /\ cache \in [kind : {"none", "bad", "hole", "value"}, ver : 0..MaxUpdates, late : BOOLEAN]
    /\ calls \in [Procs -> Readers \cup {Nobody}]
    /\ pc \in [Readers \cup Writers -> ReaderPc \cup WriterPc]
    /\ lead \in [Readers -> Readers \cup {Nobody}]
    /\ \A r \in Readers : lead[r] # Nobody =>
          pc[r] = "join" /\ Leading(lead[r]) /\ home[lead[r]] = home[r]
    /\ read \in [Readers -> 0..MaxUpdates]
    /\ result \in [Readers -> [kind : {"none", "hit", "row", "notFound", "error", "panic"},
                               ver : 0..MaxUpdates]]
    /\ tasks \in [Procs -> [Delays -> Nat]]
    /\ since \in [Readers -> 0..MaxUpdates]
    /\ lost \in BOOLEAN

\* What redis says of the row is not what the database holds.
Stale ==
    \/ cache.kind = "value" /\ (cache.ver # db.ver \/ ~db.there)
    \/ cache.kind = "hole" /\ db.there

\* ExecCtx deletes the key after the update: while redis disagrees with the
\* database either a writer has its delete before it, or a failed delete waits
\* in a cleaner, or a delete was given up, lost in a crash or skipped after an
\* exec that changed the row and returned an error, or the entry was stored by a
\* reader that had read the row before the update.
StaleHasReason ==
    Stale => \/ \E w \in Writers : pc[w] = "del"
             \/ \E p \in Procs : Pending(p)
             \/ lost
             \/ cache.late

\* SingleFlight, "concurrent calls share the returned values": a process makes
\* one call at a time, and what a Take returns from the database (not from
\* redis) is no older than the beginning of its own call or of the call that
\* was in progress when it came.
FlightShared ==
    /\ \A r, s \in Readers : Leading(r) /\ Leading(s) /\ home[r] = home[s] => r = s
    /\ \A r \in Readers :
          pc[r] = "done" /\ result[r].kind \in {"row", "notFound"} => result[r].ver >= since[r]

\* Every Take returns, also when the call it shares fails or panics, and every
\* delayed delete succeeds or is reported in the end, however often redis fails.
EverythingEnds ==
    /\ \A r \in Readers : pc[r] # "idle" ~> pc[r] = "idle"
    /\ <>[](\A p \in Procs : ~Pending(p))
=============================================================================
