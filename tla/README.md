# A TLA+ development of go-zero

This directory models the concurrent components of go-zero in TLA+, checks them
with TLC on small instances and proves their safety properties with TLAPS for
every instance. `PROJECT.json` lists components, runs, mutants, the map from
definitions to source lines, findings, hazards and theorems.

## 1. The system

go-zero is a framework for web (`rest`) and RPC (`zrpc`) services. What makes it
more than wiring around `net/http`, grpc, redis and etcd are the components of
`core/` that keep state shared by goroutines. They are small, used everywhere,
and hard to test, because what can go wrong lies in orders of steps that a unit
test does not choose.

| component | state | operations | used by | hard behaviour | what makes it correct |
|---|---|---|---|---|---|
| timing wheel (`collection/timingwheel.go`) | slots with lists of entries, a map key -> entry, the slot last ticked | SetTimer, MoveTimer, RemoveTimer, Drain, Stop, tick | local cache, cleaner of the redis cache | entries shared by map and list, moves that stay in the list, delays around one revolution | a timer runs once, on the tick asked for, with its last value |
| periodical executor (`executors/periodicalexecutor.go`, bulk and chunk containers) | container, commander and confirm channels, inflight, guarded, wait group and its barrier | Add, Flush, Wait, background goroutine, shutdown listener | metrics, log and stat writers, bulk inserter | the background goroutine quits when idle while adders are under way | no task lost or executed twice, no call blocked, Wait covers what was added |
| discovery (`discov/internal/registry.go`, `statewatcher.go`, `discov/subscriber.go`) | cached values, listeners, done channel and watch group under one lock; a container per subscriber | Monitor, load, watch, reload, OnAdd/OnDelete, connection state | resolvers of zrpc | loads, event streams, reconnections and joining subscribers interleave; listeners are called outside the lock | cache and subscribers converge to etcd |
| MapReduce (`mr/mapreduce.go`) | channels source, collector, output, done, panic; pool, wait group, once flags | generate, map, reduce, cancel, deadline, panic | application code, `fx`, `Finish` | user functions that cancel, panic or stop reading at any point | the call ends, leaves no goroutine, reports errors and panics |
| token limiter (`limit/tokenlimit.go`) | tokens and time in redis; redisAlive, monitorStarted, rescue limiter | AllowN, startMonitor, waitForRedis | applications | redis fails and comes back while requests run | burst bound; a dead redis has a monitor |
| period limit (`limit/periodlimit.go`) | a counter with expiry in redis | Take | applications | alignment, expiry | at most quota per window |
| local cache (`collection/cache.go`) | data map, LRU list, timers of the wheel, single flight barrier | Set, Get, Del, Take | applications | map under a lock, timers outside it | entries expire, LRU bound |
| cache-aside (`stores/cache/cachenode.go`, `cleaner.go`, `syncx/singleflight.go`, `stores/sqlc`) | redis, the database, placeholder values, delayed deletes | Take, Set, Del | generated models | stale set after delete, retried deletes | bounded staleness, one query per key at a time |
| rolling window, breaker, shedder (`collection/rollingwindow.go`, `breaker`, `load`) | buckets, offsets, counters | Add, Reduce, Allow, Pass/Fail | rest and zrpc interceptors | spans skipped, window edges | counts of the last window only |
| redis lock (`stores/redis/redislock.go`) | a key with owner and expiry | Acquire, Release | applications | expiry while the holder works | at most one unexpired holder |
| `syncx` primitives | pool, cond, limits, shared calls and resources | Get/Put, Wait/Signal, Borrow/Return, Do | all of the above | timed waits, lost signals | bounds kept, nobody waits for ever |
| publisher (`discov/publisher.go`) | lease, key, pause and resume channels | KeepAlive, Pause, Resume, Stop | rpc servers | races over one lease | registered iff running |
| queue (`queue/queue.go`), service group, shutdown (`service`, `proc`) | channels, wait groups, listeners | Start, Stop, Broadcast | services | order at shutdown | everything stops |
| REST timeout handler | buffered writer, timed-out flag | ServeHTTP, Write, Flush | rest engine | late writes | one answer |
| p2c balancer, kube resolver | inflight counts, endpoints | pick, done, events | zrpc clients | order of events | counts return to zero |

The REST middlewares (`rest/handler`, ordered by `rest/engine.go`) keep the
latch of MaxConns, the promises of breaker and shedder and the status last
written; they are correct if every request is answered once, counted on every way
out, and reported as the client saw it.

Interactions: the local cache and the cleaner call the timing wheel; the
cache-aside node uses single flight and the cleaner; the resolvers subscribe
through discovery; interceptors of rest and zrpc call breaker, shedder, limiters
and the timeout handler; `proc`'s shutdown listeners call the executors' Flush.

Left aside: configuration and mapping (reflection over user types), logging and
the stores (I/O around drivers), codecs, and `tools/goctl` (a code generator).
`PROJECT.json` gives the reason for each.

## 2. Plan

Order, most important behaviour first. A `*` marks what is done.

1. `*` TimingWheel, with the abstract service Timers it implements.
2. `*` PeriodicalExecutor.
3. `*` Discovery, with keys that change their value; later a run with two keys and an
   exclusive subscriber.
4. `*` MapReduce; later ForEach, and `fx`'s streams in the same manner.
5. `*` Limit: TokenLimiter and PeriodLimit, the scripts and the hand-over between
   redis and the rescue limiter.
6. `*` CacheAside: cachenode, single flight and cleaner over an abstract redis and
   database, with crashes.
7. `*` LocalCache, composed with Timers (not with the wheel: the refinement of
   step 1 justifies it, but for the moves its findings name).
8. `*` RestChain: the timeout handler and the middlewares around it.
9. Left: RollingWindow against a reference definition over bounded histories;
   syncx pool and cond; publisher; redis lock; queue; shutdown; Discovery with an
   exclusive subscriber.

Theorems: every invariant, action property and refinement that a passing run
checks is stated by a theorem (section 6); the temporal properties stay with TLC.
Left: the same for the components of step 9.

## 3. Modules

| module | models |
|---|---|
| `Timers` | what a timer service promises: per key, ticks until it runs, and its value; `TimingWheel` is proved to implement it |
| `TimingWheel` | `collection/timingwheel.go` |
| `PeriodicalExecutor` | `executors/periodicalexecutor.go`, containers of the bulk and chunk executors |
| `Discovery` | `discov/internal/registry.go`, `statewatcher.go`, `discov/subscriber.go` |
| `MapReduce` | `mr/mapreduce.go` |
| `Limit` | `limit/tokenlimit.go`, `limit/periodlimit.go` |
| `CacheAside` | `stores/cache/cachenode.go`, `cleaner.go`, `syncx/singleflight.go`, Exec and QueryRow of `stores/sqlc/cachedsql.go` |
| `LocalCache` | `collection/cache.go`, composed with `Timers` |
| `RestChain` | `rest/handler/timeouthandler.go`, maxconns, breaker, shedding and recover handlers in the order of `rest/engine.go`, `syncx/limit.go` |
| `MC*` | instances for TLC: sets of model values, symmetry, a view |
| `*Proofs` | theorems and proofs about the module of that name |

In each module some operators are marked *Mutant*: a definition changed as a
plausible bug would change it, used to confirm that a property can fail. The
others are used by the specification or by its properties.

### TimingWheel

The `run` goroutine serves one request at a time over unbuffered channels, so
each handler is one action with everything it does. `entries[i]` is a
`timingEntry` object; its `slot` names the list that holds it, or none.
`timers[k]` is the `positionEntry` of the map. `Pos` and `Circle` are
getPositionAndCircle; `Relocate` is the part of moveTask for delays of at least
one tick, with its three cases; `Tick` is onTick with the whole of
scanAndRunTasks; `Drain` empties the lists and, as the code does, not the map.
Delays are in ticks; 0 is any positive delay below one. `call` and `ran` record
the request served and the callbacks started with their arguments at that moment,
for the refinement. A tick hands copies of key and value to its callbacks. Those of
a move below a tick and of Drain run in goroutines that read them from the entry
later, while the wheel goes on: `late` holds these goroutines, with the
`positionEntry` (moveTask) or the entry (drainAll) each reads from, and `RunLate` is
the moment it reads. The code synchronises nothing here: the read races with the
write of setTask, and finds the value before or after it. An entry that no list, no
map and no waiting goroutine refers to is garbage, and its identity is used again.

### PeriodicalExecutor

A critical section of `pe.lock` is a step; `commander` is the one-place channel;
the rendezvous on `confirmChan` is one step of two goroutines, and any waiting
adder may be the one that gets it. `inflight`, `guarded`, `waitGroup` are the
fields; `barrier` is the caller that waits inside `wgBarrier`. How long the
background goroutine has been idle is left open. `AfterExecute` is where
executeTasks returns to: the loop, shallQuit, the end of the deferred Flush, or a
caller.

### Discovery

One key prefix. `log` is etcd's history, and a watch stream delivers any number
of events at a time from where it stands. Each Monitor call, watch goroutine and
reload is a process; `job` holds its local variables, including the calls of
OnAdd and OnDelete it still has to make, one step each. A critical section of
`c.lock` is a step, except that reload keeps the lock while it waits. A failed
stream is opened again from the revision loaded, so events are applied again.
A key may be put again with another value, as one with a fixed id (WithId) is when
its server moves. `disturbed` is a history variable for KeysComplete.

### MapReduce

The five kinds of goroutines, and user functions that may do anything in their
power at any moment: send, write, receive, cancel, panic, return, stop reading.
Once such a function has begun to send or receive it waits. A deadline or a
cancelled context may strike at any step. `finished` stands for the closed `done`
and `output`.

### Limit

Redis is external: a script is one step, a key is gone at some moment of the
second it expires in, redis fails and comes back with or without its data, an
answer may get lost after the script has run. What the code does in its own
process is modelled step by step: the time is read when the call begins (`Enter`)
and used when the script runs, so scripts run late and in another order than
their times; `redisAlive` is read without the lock; startMonitor is one critical
section; waitForRedis sets `redisAlive` in one step (`Ping`) and clears
`monitorStarted` in a later one (`MonitorEnd`). `Filled` and `Ttl` are the script's
arithmetic, rounding included. `waiting` and `leaving` count monitor goroutines, so
that a second monitor would be seen. `win` and `cal` are history variables: what
was granted since an arbitrary moment, and in the calendar period.

### CacheAside

One key and its row. A call to redis is a step that fails before or after its
effect. `cache` remembers which version of the row it holds and whether that was
outdated when stored. `calls` is the map of single flight in each process; the
waiting goroutines get the outcome when the deferred function of makeCall ends the
call, panics included. `tasks` counts the delayed deletes of each process by the
delay they wait for, and `Clean` is the cleaner's task with nextDelay. `Crash` ends a
process at any moment, with everything it had in memory. Readers are the callers of
QueryRow, writers those of Exec. The function that Exec is given may succeed, fail
without effect, or change the row and return an error (the answer is lost after the
commit, or one of several statements fails): then ExecCtx returns without the delete,
which is lost. An unreadable value (`Spoil`, stored by another
release) leads to the delete in processCache.

### LocalCache

`data` and `lru` change together under the lock; the timer is set, moved or removed
later, without it (`SetEnd`, `FetchEnd`, `DelEnd`), except for an evicted key. The
wheel is an instance of `Timers`, with its `due` ticks; a timer that runs starts a
goroutine (`expired`) that calls Del, itself in two steps. Take goes through the
barrier with its double check. `unarmed` is history: keys whose new timer was taken
by an older Del.

### RestChain

Each request has two goroutines: the one that serves it, which goes through the
middlewares and back (`pc`), and the handler's (`hpc`), which Timeout starts and may
outlive the request. `tw` is the timeoutWriter with its lock, `code` the Code of the
WithCodeResponseWriter that all middlewares share, `wire` what the connection got.
The handler may write, set a status, flush, panic, return, or never do anything.
Breaker and shedder decide freely; what is modelled is what they are told.
`flushed`, `crashed` and `bare` are history for the exceptions in the properties.

## 4. Runs

| run | instance | states | result |
|---|---|---|---|
| `wheel` | 2 slots, 2 keys, 2 values, 3 entry objects, 2 callbacks that wait, delays below a tick, of a revolution and of more | 427,800 | passes |
| `wheel_move` | 3 slots, whole ticks within one revolution, no Drain | - | OnSchedule violated |
| `executor` | 3 tasks of sizes 1, 1, 2 with room for 2; 2 adders, 1 caller, 2 generations of the background goroutine | 71,838 | passes, with liveness |
| `executor_wait` | the same instance | - | WaitWaits violated |
| `discovery` | 1 key, 2 values, 2 subscribers, 2 watch goroutines, 1 reload at a time, 2 revisions, 1 reconnection | 2,178,375 | passes |
| `discovery_join` | 1 value, 1 revision, no reconnection | - | ValuesComplete violated |
| `discovery_reload` | 1 subscriber, 1 revision, 1 reconnection | - | ReloadNotBlocked violated |
| `mapreduce` | 2 items, 2 workers, 1 write per mapper, 3 outputs, a deadline | 1,279,741 | passes, with liveness |
| `limit` | 2 callers of one process, 2 calls each of 1 or 2 tokens, 3 seconds, 1 failure of redis; rate 2 burst 2, rate 3 burst 1 (ttl zero), quota 2 in 2 seconds with and without Align | 660,005 | passes, with liveness |
| `cacheaside` | 2 processes, 2 readers together or apart, 1 writer, 1 update | 88,324 | passes, with liveness |
| `localcache` | 3 keys, 2 callers, no limit or a limit of 2, expiry below a tick and in 2 ticks, 1 expired timer per key under way | 796,564 | passes |
| `restchain` | 2 requests for 1 place, handlers that set 404 or 503, with and without Recover | 1,025,874 | passes, with liveness |

Why the bounds suffice. *wheel*: the slot of an entry and that of its new position
lie beyond the slot last ticked or not, in each of the four combinations, with 0 and 1
circles; two keys show that one key's requests leave the other alone; the third entry
object is the removed one a list or a waiting callback still refers to; two callbacks
can wait for two keys, or for one key twice. With 3 slots, delays of 0, 1, 3 and 4
ticks, 1 value and 1 callback that waits the run passes too (279,723 states).
*executor*: one task fills the container alone and two fill it together, so two batches can
be on their way, one sent and one waiting for the buffer; two background
goroutines allow one to flush on its way out while its successor serves. Adding
tasks ends with the last one, but Flush and Wait go on, so the run has no
deadlock and checks for it. *discovery*: put and delete of one key by two watch
goroutines, with a subscriber joining and a reload at every point; two revisions let
the key come and go, or change its value. Deadlock is not checked, because the log
ends and because of finding 4. *mapreduce*: two mappers at a time; a second output for
the panic in the caller's deferred loop, and a third that finds nobody reading; the
call ends, so deadlock is not checked, and EverybodyEnds says in which states it may
end. *limit*: two callers suffice for a script that runs
with an older time than the one before it, and for an error between the two steps
of a monitor's end; three seconds hold one whole period and the start of the next.
Calls and clock end, so deadlock is not checked. *cacheaside*: with one update each
of the reasons of StaleHasReason occurs alone; with two updates and without the
temporal property the run has 1,374,760 states and passes as well. *localcache*: two
callers and an expiry are the three parties of the race; three keys are needed for
an eviction by a limit of two. The view leaves out the last request to the timers
and what it ran, which no later step reads; symmetry is used because no liveness is
checked. With 2 keys, 3 callers and a limit of 1 it passes too (300,547 states).
*restchain*: one request has the place while the other comes, is refused, or
overlaps with a handler left behind. Requests end, so deadlock is not checked.

What the properties say, beyond types:

- **OnScheduleExcept** (wheel): the wheel implements Timers, step by step, except
  in four kinds of request that `Exceptional` describes with all their effects: an
  entry that stays in its list one revolution late or early (OffByARevolution), a move
  below a tick, which runs now and again later (RunsAndStays), and, since Drain leaves
  its keys in the map, a drained key that is set and gets no timer (NotSet) or is moved
  and runs once more (Revived). **LateArgs**: there is one goroutine for each callback
  that a move below a tick or Drain starts, and it reads its own key, and the value of
  the start or one that a later SetTimer of that key has set. **LiveIsCurrent**: every live
  entry is the one the map knows, where the map says. **ShiftLeavesSlot**: the
  code's comment "cannot be the same value of tw.tickedPos".
- **ExecutedOnce**, **CountersMatch**, **ConfirmBalance**,
  **GuardedIsServed** (executor): no task in two places; the three counters equal
  what they stand for; a batch on its way has a goroutine to receive it and there
  is never more than one. **WaitCovers**: what Wait may miss, exactly the batches
  on their way from another adder. **EventuallyExecuted** and **CallsReturn**: every
  task is executed and every Add, Flush and Wait returns.
- **CacheConverges** (discovery): when everything has been handled the cache is
  what etcd holds. **KeysComplete**: so is each subscriber's container, for the
  keys that kept their value, of which no change was told to others while it was
  joining, and no two changes were being told to it at once. Each of these conditions is
  needed: see finding 3 and what follows the findings.
- **PlacesExact**, **ClosedAfterMappers**, **CompleteUnlessCancelled**,
  **NoOutputIsHonest**, **PanicsReachCaller**, **EverybodyEnds** (mapreduce): pool
  and wait group are exact; the collector is closed last; a call not cancelled
  maps every item and hides no panic; a cancelled call never reports "no output";
  a panic finds the caller gone only after a cancel, a deadline, a second panic, or
  a value written early; and but for such a panic, and for a reducer that writes on
  when the caller has panicked over its second value, everything ends.
- **WindowBound** (limit): from any moment on, the processes together get from redis
  at most the burst and the rate times the seconds passed, plus the seconds by which
  scripts ran late times the rate, plus a burst for each loss of data; and nothing
  when the ttl rounds to zero. **AlignedQuota**: per calendar period the quota, once
  more for each counter made with the window of an earlier period. **MonitorExact**: a
  process that takes redis for dead has exactly one goroutine that pings, and
  monitorStarted tells of it. **BackToRedis**: if redis stays up, so does every
  process's view of it, again and again.
- **StaleHasReason** (cacheaside): if redis contradicts the database, a delete is about
  to be made, or waits in a cleaner, or was given up, lost in a crash or skipped because
  exec had changed the row and returned an error, or the entry was outdated when a slow reader stored it. **FlightShared**: one call per process at
  a time, and a row returned from the database is no older than the call that read
  it. **EverythingEnds**: every Take returns and every retry ends.
- **LruExact** (localcache): map and LRU list hold the same keys, each once, within the
  limit. **ExpiresUnlessRaced**: a key at rest has a timer, but for the race below.
- **CountsExact** (restchain): latch and flying count exactly the requests inside.
  **VerdictMatches**: breaker and shedder are told what the client got.
  **AnswerHonest**: the client gets the handler's status and body, or the timeout's,
  and never a mixture; a panic before a status is a 500. **EveryRequestAnswered**: also
  when the handler never returns.

### Findings

1. `wheel_move`: moveTask compares slot numbers rather than distances from the
   current slot; a timer moved, or set again, may run one revolution late or early.
2. `executor_wait`: Wait may return while a batch with tasks added earlier is
   still on its way to the background goroutine.
3. `discovery_join`: a subscriber that joins while a server appears may never learn
   of it: it has copied the values before, and is registered after, the change.
4. `discovery_reload`: reload waits for the watch goroutines with the lock they need.

Named in passing properties rather than in a run of their own: a move below a
tick runs the task twice, a drained key may not be set again, or runs again when it
is moved (OnScheduleExcept), and the callback of a move below a tick, or of Drain, may
get a value that was set after it was started (LateArgs);
in MapReduce, a panic that comes when the caller has left its select (after a
deadline, a cancel, or an early value) blocks its goroutine for ever and with it,
if it is generate's or a mapper's, whoever waits for it; after a deadline that is
the caller itself, in `drain(source)`. A reducer that writes a third value is left in
its send for ever, since the caller has panicked over the second and reads no more.

In Discovery (conditions of KeysComplete; ValuesComplete fails on instances made for
each): addKv points the mapping of a key at its new value and leaves the pair with the
old one (`discov/subscriber.go:119-120`), so that a subscriber keeps the old address of
a key that changes its value (1 subscriber, 2 values, 2 revisions, no reconnection).
And handleChanges tells the listeners without the lock (`registry.go:160`): a Monitor
call and a watch goroutine of a reload may tell a subscriber of an addition and the
removal after it in the wrong order, and if another reload comes before the events are
applied again, its load finds no difference and the subscriber keeps a server that is
gone (1 subscriber, 1 value, 2 revisions, 2 reconnections).

In Limit, a bucket is credited twice for the seconds by which scripts run late; a
limiter whose burst is below half its rate never gets anything from redis, since
setex refuses a ttl of zero, and alternates between the monitor and its rescue
limiter. In LocalCache, a key set while a Del of it, or its own expiry, is between
the map and RemoveTimer loses its new timer and stays until it is evicted, deleted
or set again after a Del. In CacheAside, ExecCtx promises "result and non-nil error"
when the delete fails (`stores/sqlc/cachedsql.go:102`), while DelCtx
(`stores/cache/cachenode.go:70-89`) always returns nil; and when the query of a
shared call panics, those who joined it panic at `val.([]byte)` (`:255`). In RestChain,
a shed request is a failure to the breaker; a panic that nothing recovers is a
success to both; Flush looks neither at the lock nor at the timeout and does not
send the handler's status.

## 5. Fairness

*PeriodicalExecutor.* Weak fairness of each goroutine's own steps: goroutines are
scheduled, the ticker ticks, Execute returns. Strong fairness of receiving a
batch, because a select picks at random among what is ready, and of the background
goroutine's enterExecution, because a `sync.Mutex` in starvation mode does not
pass over who waits. Nobody is obliged to add a task or to call Flush; whether the
background goroutine quits when it may is left open.

*MapReduce.* Weak fairness of the disjunction of all goroutines' steps: while some
goroutine can go on, one does. Every step but a stuttering one uses something up
(an item, a write, a place in a function), so this is enough. The context need not
end.

*Limit.* Weak fairness of the monitor's ping (the ticker ticks; a ping of a redis
that is up is answered in the end), of its end, and of a caller that has met an
error. Redis need not come back: BackToRedis supposes that it does.

*CacheAside.* Weak fairness of each reader's own steps (goroutines are scheduled,
calls to redis and queries end, with or without success) and of the cleaner of each
process (timers run). Nobody has to call Take or Exec, nothing has to expire, and
redis may fail for ever.

*RestChain.* Weak fairness of each serving goroutine and of the timer of its
context. None for handlers.

LocalCache, TimingWheel and Discovery are checked for safety only; a tick that never comes, or
an etcd that never answers, is allowed.

## 6. Proofs

Assumptions are those named in the modules, and TLC evaluates them in the runs:
`NumSlots`, `Workers` and `MaxConns` are positive, delays and bounds are natural
numbers, rates, periods and quotas positive, the sets of goroutines disjoint and,
where something is counted, finite, and "nobody" and "nothing" are not values. One
theorem is about some clients only (FreshKeysOnSchedule).

**TimingWheelProofs.** LiveIsCurrent is not inductive: Tick follows the map by an
entry's key, so one also needs that the map's entries are live or in no list, and
carry their key. The inductive invariant is
`Inv == TypeOK /\ Good(entries, timers) /\ LateRefers`, where Good has the parts Typed,
HeldIsLive, LiveIsHeld and ShortDiffs. Each handler has a
lemma built from lemmas about what it does to an entry (adjust, remove, insert).
ShiftLeavesSlot follows from ShortDiffs (a diff is below the number of slots) by
`ShiftMoves`, a fact of arithmetic modulo.

The refinement (WheelOnSchedule) needs no stronger invariant, but arithmetic:
`DelaySplit` says that a delay is its circles times the number of slots and the
distance `Ahead` from the slot last ticked to the slot of getPositionAndCircle, and
`NowAhead` and `ShiftAhead` what a tick does to distances. With them `InsertDue` and
`RelocateDue` compute when an entry will run after a request, `TickKey` that a tick
brings every key one tick nearer and runs those with one tick left. RelocateDue
shows where the exceptions come from: the new time is the delay asked for, plus a
revolution if the old slot lies behind the slot last ticked, minus one if the new
slot does. `FreshKeysOnSchedule`: clients that never set a key again while it has a
timer, and move none, get Timers without exception. That is the cleaner of the redis
cache until it drains its wheel.

LateCallbacks (LateArgs) needs `LateRefers`: a callback that waits reads through a key
of the map or from an entry that has been in the wheel. A waiting goroutine keeps its
entry from being used again, and `RefsKept` says, per request, that the entry it reads
keeps its key, and its value unless the request is a SetTimer of that key.
Theorems: WheelTypes, WheelMapAgrees, WheelShiftsAway, WheelOnSchedule, LateCallbacks,
FreshKeysOnSchedule.

**PeriodicalExecutorProofs.** The counters are proved with lemmas on how the
cardinality `Count(pc, S, L)` changes when one goroutine moves. The invariant
joins Types, Counters (the three exact counters, and that what is sent is not
empty, without which the channel's state would not be visible in `commander`) and
Served (with: a quitting goroutine is in its Flush). GuardedIsServed needs the
counters, since shallQuit looks at inflight only, and the counters need no more
than themselves. TypeOK adds to Types that inflight and the wait group are not negative,
which is a consequence of the counters. WaitCovers is an action property; it follows from `Covered`, which
says of a caller of Wait that what was added before its call has left the container
once its own RemoveAll has run, and from WaitGroupExact: at zero nobody executes.
Theorems: ExecutorTypes, TasksExecutedOnce, CountersExact, ConfirmationsBalance,
AlwaysServed, WaitMissesNoOther.

**DiscoveryProofs.** CacheConverges speaks of quiet states only. `CacheInv` says what
holds all the time: for each key the cached value is right, or somebody is loading,
or nobody watches, or a watch goroutine has yet to handle an event of that key; and
`Positions` that streams start no later than where the load stood. KeysComplete
needs, in `SInv`, that the cache and the calls still to be made hold only what servers
have put (`CallInv`), and for each subscriber and key that is not disturbed that at
most one goroutine has yet to tell it of a change, and that without one its container
agrees with the cache (`SubscriberInv`). That is owed (`Owed`) for keys that have kept
their value; since the log only grows (`PutsStayPut`), a key that has kept its value
after a step had kept it before (`KeptBefore`), and the other keys need no argument.
Theorems: DiscoveryTypes, CacheCatchesUp, SubscribersComplete.

**MapReduceProofs.** `IInv` joins TypeOK, PlacesExact, ClosedAfterMappers and
ClosedOnExit (the collector is closed only when executeMappers is past its loop):
without the last an item could be dispatched after the collector is closed. Most
steps are *calm*: they change neither executeMappers, nor which items are being
mapped, nor the counters. How a call ends is `EndInv`, on top of IInv, with a part for
each thing that has a story: cancel (its error is set first, one goroutine drains),
the closed output, the source, the one panic that is written and waits for the caller,
and the caller's result.
Theorems: MapReduceTypes, MapReducePlaces, MapReduceWorkers (at most `Workers` mappers
at a time), MapReduceCloses, MapReduceComplete, MapReduceNoOutput, MapReducePanics.

**LimitProofs.** WindowBound is not inductive, since the tokens still in the bucket can
be had without time passing: `TokenInv` bounds what was granted together with what the
bucket would hold now, and says that a bucket lives until it is full again, which is
why an expired bucket gives nothing away. `PeriodInv` tells three cases of the counter
of a calendar period apart (none, of an earlier period, of this one).
Theorems: LimitTypes, TokensBounded, QuotaAligned, MonitorsExact.

**CacheAsideProofs.** FlightShared needs that the map of single flight names
exactly the reader that makes the call, and that those who wait do so for that call
(`FlightExact`), and that a row about to be returned is no older than the call (`Reads`).
StaleHasReason also needs that a reader that has read the current version knows whether
the row is there (`Knows`): then what it stores is right, or is recorded as late.
Theorems: CacheTypes, StaleEntriesExplained, FlightsShared.

**LocalCacheProofs.** `MapInv` is LruExact with the list free of repetitions, for which
there are lemmas on removing an element, putting one in front and cutting off the last.
`ArmInv`: a key of the map without timer will get one from who put it there, or is about
to be deleted by its expiry, or was raced.
Theorems: LocalTypes, LruMatchesMap, ExpiresOrRaced.

**RestChainProofs.** Requests meet only in the counters. These are cardinalities, with a
lemma per way in and out; everything else is an invariant of a single request, `RStory`:
what is on the wire by where its goroutines are, what a bare panic leaves, and what
breaker and shedder were told. `UntouchedKeeps` carries it over the steps of others.
Theorems: RestTypes, RestCounts, RestVerdicts, RestAnswers.

Only model-checked: the temporal properties EventuallyExecuted, CallsReturn,
EverybodyEnds, BackToRedis, EverythingEnds and EveryRequestAnswered, because liveness
under fairness is out of the prover's reach, and the four properties that fail in
runs of their own (OnSchedule, WaitWaits, ValuesComplete and ReloadNotBlocked).

## 7. Not modelled

Within the modelled components: the order inside a wheel's list (the order of the
callbacks of one tick) and its error returns; Sync of the executor; failing Gets,
compaction of etcd's history, and several prefixes or clusters in Discovery;
ForEach. Drain is one step, although the wheel waits in it when `drainWorkers`
callbacks run; what those read in the meantime nobody can change. In Limit, the
arithmetic of the rescue limiter (another library's). In CacheAside, plain Set,
QueryRowIndex with its two keys, the dispatch over a cluster, the expiry times. In
LocalCache, values and statistics; it is composed with the ideal `Timers`, although it
moves the timers of keys it holds, where the wheel may be a revolution off, or, below a
tick, runs and stays: its properties use of a timer only whether there is one. In
RestChain, the decisions of breaker and
shedder, websocket upgrades, Hijack and Push, and the middlewares without shared
state; a status 1xx is taken as final, and 204 and 304 as carrying a body, as the
handlers' own bookkeeping does.

The other components are listed in section 1 and in `PROJECT.json`, with the reason
or what would be modelled of them. Most of the repository's lines are of a kind that
a model would only copy: the command wrappers of `stores/redis` and `stores/kv` (one
call to a client each), the conversions of `core/mapping` by reflection over user
types, and `tools/goctl` with its generated parsers and templates. They keep no state
that several goroutines share and have no orders of steps to explore.
