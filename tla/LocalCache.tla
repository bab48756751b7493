----------------------------- MODULE LocalCache -----------------------------
(***************************************************************************)
(* collection.Cache (core/collection/cache.go): a map and an LRU list under *)
(* a lock, and a timer per key in a timing wheel, which is called after    *)
(* the lock is given up, except for the key the LRU list evicts.           *)
(*                                                                         *)
(* The wheel is the service Timers that TimingWheel implements; a timer    *)
(* that runs starts a goroutine that calls Del.  A critical section is one *)
(* step; the timer removed in it is part of it, since nobody else's access *)
(* to the wheel looks at the map.  Which value a key has is left out.      *)
(***************************************************************************)
EXTENDS Integers, Sequences, FiniteSets

CONSTANTS
    Keys,       \* the keys in use
    Callers,    \* goroutines that call Set, Get, Del and Take
    Limits,     \* the limits of WithLimit a cache may have; 0: none
    Delays,     \* the expiry times after unstableExpiry, in ticks
    MaxRuns,    \* bound on the expired timers of a key not yet handled
    Value,      \* the value of a timer: not looked at
    Nobody      \* no caller, no key

ASSUME BoundAssumption ==
    /\ Limits \subseteq Nat
    /\ Delays \subseteq Nat
    /\ MaxRuns \in Nat
ASSUME NobodyAssumption == Nobody \notin Keys \cup Callers /\ Value # Nobody

VARIABLES
    limit,      \* klru.limit, or 0 for emptyLru
    data,       \* the keys of c.data
    lru,        \* klru.evicts, the most recent first
    pc,         \* where each caller is
    key,        \* key[g]: the key of g's call
    calls,      \* calls[k]: the caller that makes the shared call for k, or Nobody
    expired,    \* expired[k]: timers of k that have run and not yet called Del
    leaving,    \* leaving[k]: such Dels between the unlock and RemoveTimer
    unarmed,    \* history: keys of the map whose timer a Del has taken away
                \* after they had been set again
    due, val, call, ran     \* the timers

vars == <<limit, data, lru, pc, key, calls, expired, leaving, unarmed, due, val, call, ran>>

W == INSTANCE Timers WITH Values <- {Value}, NoValue <- Nobody

timer  == <<due, val, call, ran>>
map    == <<data, lru>>
runs   == <<expired, leaving>>
caller == <<pc, key, calls>>

Init ==
    /\ limit \in Limits
    /\ data = {}
    /\ lru = <<>>
    /\ pc = [g \in Callers |-> "idle"]
    /\ key = [g \in Callers |-> Nobody]
    /\ calls = [k \in Keys |-> Nobody]
    /\ expired = [k \in Keys |-> 0]
    /\ leaving = [k \in Keys |-> 0]
    /\ unarmed = {}
    /\ W!Init

-----------------------------------------------------------------------------
Elements == {lru[i] : i \in DOMAIN lru}

\* evicts.Remove: the element of k, if there is one, leaves the list.
Without(k) ==
    IF k \notin Elements THEN lru
    ELSE LET at == CHOOSE i \in DOMAIN lru : lru[i] = k
         IN [i \in 1..(Len(lru) - 1) |-> IF i < at THEN lru[i] ELSE lru[i + 1]]

\* keyLru.add, removeOldest: the key that has to go when k is added.
Evicted(k) ==
    IF limit > 0 /\ k \notin Elements /\ Len(lru) >= limit THEN {lru[Len(lru)]} ELSE {}

\* The timers of the keys in S (at most one) are removed.
Disarm(S) == IF S = {} THEN UNCHANGED timer ELSE \E k \in S : W!Remove(k)

\* keyLru.add with onEvict, for a map that holds the keys in D.
Add(k, D) ==
    LET gone == Evicted(k)
        list == <<k>> \o Without(k)
    IN /\ data' = D \ gone
       /\ lru' = IF limit = 0 THEN lru ELSE SubSeq(list, 1, Len(list) - Cardinality(gone))
       /\ unarmed' = unarmed \ gone
       /\ Disarm(gone)

\* Mutant: the LRU list is not told.
UnlinkData(k) ==
    /\ data' = data \ {k}
    /\ unarmed' = unarmed \ {k}
    /\ UNCHANGED <<lru, timer>>

\* Del, the critical section: keyLru.remove calls onEvict.
Unlink(k) ==
    /\ data' = data \ {k}
    /\ lru' = Without(k)
    /\ unarmed' = unarmed \ {k}
    /\ Disarm({k} \cap Elements)

\* Del, after the unlock: RemoveTimer.
RemoveTimer(k) ==
    /\ W!Remove(k)
    /\ unarmed' = IF k \in data THEN unarmed \cup {k} ELSE unarmed

Idle(g) ==
    /\ pc' = [pc EXCEPT ![g] = "idle"]
    /\ key' = [key EXCEPT ![g] = Nobody]

-----------------------------------------------------------------------------
\* Del
Del(g, k) ==
    /\ pc[g] = "idle"
    /\ Unlink(k)
    /\ pc' = [pc EXCEPT ![g] = "untimer"]
    /\ key' = [key EXCEPT ![g] = k]
    /\ UNCHANGED <<limit, calls, runs>>

DelEnd(g) ==
    /\ pc[g] = "untimer"
    /\ RemoveTimer(key[g])
    /\ Idle(g)
    /\ UNCHANGED <<limit, map, calls, runs>>

\* Get, doGet: the key becomes the most recent one.  A miss changes nothing.
Get(g, k) ==
    /\ pc[g] = "idle"
    /\ k \in data
    /\ Add(k, data)
    /\ UNCHANGED <<limit, caller, runs>>

\* SetWithExpire, the critical section; the caller goes on to set or to move
\* the timer.  s says whether it was called by Take.
Store(g, k, s) ==
    /\ Add(k, data \cup {k})
    /\ pc' = [pc EXCEPT ![g] = IF k \in data THEN s.move ELSE s.set]

ForSet  == [set |-> "set", move |-> "move"]
ForTake == [set |-> "takeSet", move |-> "takeMove"]

Set(g, k) ==
    /\ pc[g] = "idle"
    /\ Store(g, k, ForSet)
    /\ key' = [key EXCEPT ![g] = k]
    /\ UNCHANGED <<limit, calls, runs>>

\* Mutant: the timer is moved whether or not the key was in the map.
ArmMoves(k, fresh, d) == W!Move(k, d) /\ UNCHANGED unarmed

\* SetWithExpire, after the unlock: SetTimer for a key that was not in the map
\* (fresh), MoveTimer otherwise.
Arm(k, fresh, d) ==
    IF fresh THEN W!Set(k, Value, d) /\ unarmed' = unarmed \ {k}
    ELSE W!Move(k, d) /\ UNCHANGED unarmed

\* The timers that the wheel has run, on a tick or because they were moved to
\* less than a tick from now.
RunTimers ==
    LET started == {r.key : r \in ran'} IN
    /\ \A k \in started : expired[k] + leaving[k] < MaxRuns
    /\ expired' = [k \in Keys |-> expired[k] + IF k \in started THEN 1 ELSE 0]

SetEnd(g, d) ==
    /\ pc[g] \in {"set", "move"}
    /\ Arm(key[g], pc[g] = "set", d)
    /\ RunTimers
    /\ Idle(g)
    /\ UNCHANGED <<limit, map, calls, leaving>>

-----------------------------------------------------------------------------
\* Take, doGet: a hit returns.
TakeHit(g, k) ==
    /\ pc[g] = "idle"
    /\ k \in data
    /\ Add(k, data)
    /\ UNCHANGED <<limit, caller, runs>>

\* Take, doGet: a miss goes on to the barrier.
TakeMiss(g, k) ==
    /\ pc[g] = "idle"
    /\ k \notin data
    /\ pc' = [pc EXCEPT ![g] = "barrier"]
    /\ key' = [key EXCEPT ![g] = k]
    /\ UNCHANGED <<limit, map, calls, runs, unarmed, timer>>

\* SingleFlight.Do: the first caller makes the call, the others wait for it.
Barrier(g) ==
    LET k == key[g] IN
    /\ pc[g] = "barrier"
    /\ IF calls[k] = Nobody
       THEN /\ calls' = [calls EXCEPT ![k] = g]
            /\ pc' = [pc EXCEPT ![g] = "check"]
       ELSE /\ pc' = [pc EXCEPT ![g] = "join"]
            /\ UNCHANGED calls
    /\ UNCHANGED <<limit, map, key, runs, unarmed, timer>>

\* Take, the double check.
Check(g) ==
    LET k == key[g] IN
    /\ pc[g] = "check"
    /\ IF k \in data
       THEN /\ Add(k, data)
            /\ pc' = [pc EXCEPT ![g] = "end"]
       ELSE /\ pc' = [pc EXCEPT ![g] = "fetch"]
            /\ UNCHANGED <<map, unarmed, timer>>
    /\ UNCHANGED <<limit, key, calls, runs>>

\* The caller's fetch: it fails or panics, or the value is stored.
Fetch(g) ==
    /\ pc[g] = "fetch"
    /\ \/ Store(g, key[g], ForTake)
       \/ /\ pc' = [pc EXCEPT ![g] = "end"]
          /\ UNCHANGED <<map, unarmed, timer>>
    /\ UNCHANGED <<limit, key, calls, runs>>

FetchEnd(g, d) ==
    /\ pc[g] \in {"takeSet", "takeMove"}
    /\ Arm(key[g], pc[g] = "takeSet", d)
    /\ RunTimers
    /\ pc' = [pc EXCEPT ![g] = "end"]
    /\ UNCHANGED <<limit, map, key, calls, leaving>>

Joined(k) == {j \in Callers : pc[j] = "join" /\ key[j] = k}

\* Mutant: the call stays in the map.
TakeEndStays(g) ==
    LET all == Joined(key[g]) \cup {g} IN
    /\ pc[g] = "end"
    /\ pc' = [j \in Callers |-> IF j \in all THEN "idle" ELSE pc[j]]
    /\ key' = [j \in Callers |-> IF j \in all THEN Nobody ELSE key[j]]
    /\ UNCHANGED <<limit, map, calls, runs, unarmed, timer>>

\* SingleFlight, the end of the call: all return.
TakeEnd(g) ==
    LET all == Joined(key[g]) \cup {g} IN
    /\ pc[g] = "end"
    /\ calls' = [calls EXCEPT ![key[g]] = Nobody]
    /\ pc' = [j \in Callers |-> IF j \in all THEN "idle" ELSE pc[j]]
    /\ key' = [j \in Callers |-> IF j \in all THEN Nobody ELSE key[j]]
    /\ UNCHANGED <<limit, map, runs, unarmed, timer>>

-----------------------------------------------------------------------------
\* The wheel ticks; NewCache's callback will call Del for every timer that runs.
Tick ==
    /\ W!Tick
    /\ RunTimers
    /\ UNCHANGED <<limit, map, caller, leaving, unarmed>>

\* The callback of a timer of k: Del.
Expire(k) ==
    /\ expired[k] > 0
    /\ Unlink(k)
    /\ expired' = [expired EXCEPT ![k] = @ - 1]
    /\ leaving' = [leaving EXCEPT ![k] = @ + 1]
    /\ UNCHANGED <<limit, caller>>

ExpireEnd(k) ==
    /\ leaving[k] > 0
    /\ RemoveTimer(k)
    /\ leaving' = [leaving EXCEPT ![k] = @ - 1]
    /\ UNCHANGED <<limit, map, caller, expired>>

Next ==
    \/ \E g \in Callers, k \in Keys :
          Del(g, k) \/ Get(g, k) \/ Set(g, k) \/ TakeHit(g, k) \/ TakeMiss(g, k)
    \/ \E g \in Callers, d \in Delays : SetEnd(g, d) \/ FetchEnd(g, d)
    \/ \E g \in Callers : DelEnd(g) \/ Barrier(g) \/ Check(g) \/ Fetch(g) \/ TakeEnd(g)
    \/ \E k \in Keys : Expire(k) \/ ExpireEnd(k)
    \/ Tick

Spec == Init /\ [][Next]_vars

-----------------------------------------------------------------------------
\* The caller inside the shared call for its key.
Leading(g) == pc[g] \in {"check", "fetch", "takeSet", "takeMove", "end"}

\* Every variable has its type, and a shared call is in the map of the barrier
\* exactly while its caller makes it.
TypeOK ==
    /\ limit \in Limits
    /\ data \subseteq Keys
    /\ lru \in Seq(Keys)
    /\ pc \in [Callers -> {"idle", "untimer", "set", "move", "barrier", "join", "check",
                           "fetch", "takeSet", "takeMove", "end"}]
    /\ key \in [Callers -> Keys \cup {Nobody}]
    /\ \A g \in Callers : pc[g] = "idle" <=> key[g] = Nobody
    /\ calls \in [Keys -> Callers \cup {Nobody}]
    /\ \A g \in Callers, k \in Keys : calls[k] = g <=> Leading(g) /\ key[g] = k
    /\ expired \in [Keys -> 0..MaxRuns]
    /\ leaving \in [Keys -> 0..MaxRuns]
    /\ unarmed \subseteq data
    /\ due \in [Keys -> Nat]

\* WithLimit "customizes a Cache with items up to limit": the LRU list holds
\* every key of the map once and no other, and never more than the limit,
\* whatever order Set, Take, Del, evictions and expiries come in.
LruExact ==
    limit > 0 =>
        /\ Elements = data
        /\ Len(lru) = Cardinality(data)
        /\ Len(lru) <= limit

\* Nobody is between the map and the timer of k, and no timer of k has run.
Quiet(k) ==
    /\ \A g \in Callers : key[g] = k => pc[g] \notin {"untimer", "set", "move", "takeSet", "takeMove"}
    /\ expired[k] = 0
    /\ leaving[k] = 0

\* NewCache "returns a Cache with given expire": once the calls for a key are
\* over, a key in the map has a timer and will expire.  The one exception is a
\* key that was set again while a Del of it (the caller's or that of its own
\* expiry) was between the map and RemoveTimer, which then took the new timer.
ExpiresUnlessRaced ==
    \A k \in Keys : k \in data /\ Quiet(k) => due[k] > 0 \/ k \in unarmed
=============================================================================
