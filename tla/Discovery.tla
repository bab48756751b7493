------------------------------ MODULE Discovery ------------------------------
(***************************************************************************)
(* Service discovery over etcd: the cluster of the registry                *)
(* (core/discov/internal/registry.go), the connection watcher              *)
(* (statewatcher.go) and the subscribers' containers                       *)
(* (core/discov/subscriber.go).                                            *)
(*                                                                         *)
(* One monitored key prefix of one etcd cluster.  Every subscriber calls   *)
(* Monitor once, in its own goroutine, and each call starts a watch        *)
(* goroutine; a reconnection starts a reload goroutine.  c.values[key] is  *)
(* the function "values": a missing map and an empty one act alike.        *)
(* A critical section of c.lock is one step; only reload keeps the lock    *)
(* over several.  Listeners are called outside the lock, one at a time.    *)
(*                                                                         *)
(* Left out: failing Gets (load retries until one succeeds), compaction of *)
(* etcd's history, and the snapshot and dirty flag of container.getValues, *)
(* both written under the container's lock.  addKv removes the earlier keys *)
(* of an exclusive container as a set: it ranges over the slice doRemoveKey *)
(* shortens, which shows only with three keys of one value, and an          *)
(* exclusive container never holds more than one key of a value.            *)
(***************************************************************************)
EXTENDS Naturals, Sequences, FiniteSetsExt

CONSTANTS
    Keys,           \* etcd keys under the prefix
    Vals,           \* their values
    NoVal,          \* of a key that is absent; of a delete event
    Puts,           \* the <<key, value>> pairs servers publish
    Subs,           \* subscribers
    Exclusive,      \* those made with the Exclusive option
    Watchers,       \* watch goroutines that may exist at the same time
    Reloaders,      \* reload goroutines that may exist at the same time
    Unlocked,       \* the owner of an unlocked c.lock
    MaxRev,         \* bound on etcd's revisions
    MaxReconnects   \* bound on reconnections

ASSUME PutsAssumption == Puts \subseteq Keys \X Vals /\ NoVal \notin Vals
ASSUME SubsAssumption == Exclusive \subseteq Subs /\ Subs \cap Watchers = {}
ASSUME LockAssumption == Unlocked \notin Reloaders /\ Reloaders \cap (Subs \cup Watchers) = {}
ASSUME BoundAssumption == MaxRev \in Nat /\ MaxReconnects \in Nat

VARIABLES
    log,            \* etcd: log[r] is the event of revision r
    disconnected,   \* stateWatcher.disconnected
    reconnects,     \* reconnections so far
    lock,           \* the reload goroutine that holds c.lock, or Unlocked
    doneClosed,     \* is c.done closed?
    group,          \* watch goroutines of c.watchGroup that run
    values,         \* c.values[key]
    listeners,      \* c.listeners[key]
    pc,             \* where each Monitor, watch and reload goroutine is
    job,            \* what each Monitor and watch goroutine works on
    pairs,          \* pairs[s]: container.values, as <<value, key>> pairs
    mapping,        \* mapping[s]: container.mapping
    disturbed       \* disturbed[s]: keys of which s may not be told the last change

vars == <<log, disconnected, reconnects, lock, doneClosed, group, values,
          listeners, pc, job, pairs, mapping, disturbed>>

conn       == <<disconnected, reconnects>>
watching   == <<lock, doneClosed, group>>
cache      == <<values, listeners>>
containers == <<pairs, mapping>>

Loaders  == Subs \cup Watchers
Revs     == 0 .. MaxRev
Contents == [Keys -> Vals \cup {NoVal}]

\* Where a Monitor, a watch and a reload goroutine can be.
Places == {"new", "current", "load", "failed", "changes", "loaded", "done", "idle", "stream",
           "received", "apply", "reload", "wait", "restart"}

\* rev: the revision loaded; pos: the last event handled; upto: the last event
\* of the response at hand; snap: the contents loaded; told: the listeners to
\* notify of the response; adds, removes: the calls still to make, of OnAdd
\* (with key, value and listener) and of OnDelete (with key and listener).
Job == [rev : Revs, pos : Revs, upto : Revs, snap : Contents, told : SUBSET Subs,
        adds : SUBSET (Keys \X Vals \X Subs), removes : SUBSET (Keys \X Subs)]

Nothing == [k \in Keys |-> NoVal]
NoJob   == [rev |-> 0, pos |-> 0, upto |-> 0, snap |-> Nothing, told |-> {},
            adds |-> {}, removes |-> {}]

Present(c) == {k \in Keys : c[k] # NoVal}

\* etcd's contents at revision r.
Store(r) ==
    [k \in Keys |->
        LET on == {i \in 1 .. r : log[i].key = k}
        IN IF on = {} THEN NoVal ELSE log[Max(on)].val]

Current == Store(Len(log))

\* The calls of OnAdd that tell the listeners ls of the keys ks of contents c.
AddCalls(c, ks, ls) == {<<k, c[k], s>> : k \in ks, s \in ls}

\* A goroutine makes its calls of OnAdd and OnDelete before anything else.
Notified(p) == job[p].adds = {} /\ job[p].removes = {}

Init ==
    /\ log = <<>>
    /\ disconnected = FALSE
    /\ reconnects = 0
    /\ lock = Unlocked
    /\ doneClosed = FALSE
    /\ group = {}
    /\ values = Nothing
    /\ listeners = {}
    /\ pc = [p \in Loaders \cup Reloaders |-> IF p \in Subs THEN "new" ELSE "idle"]
    /\ job = [p \in Loaders |-> NoJob]
    /\ pairs = [s \in Subs |-> {}]
    /\ mapping = [s \in Subs |-> Nothing]
    /\ disturbed = [s \in Subs |-> {}]

At(p, s) == pc' = [pc EXCEPT ![p] = s]

-----------------------------------------------------------------------------
\* etcd: servers put their address and delete it (or their lease expires).
EtcdPut(k, v) ==
    /\ Len(log) < MaxRev
    /\ log' = Append(log, [key |-> k, val |-> v])
    /\ UNCHANGED <<pc, job, disturbed, conn, watching, cache, containers>>

EtcdDelete(k) ==
    /\ Len(log) < MaxRev
    /\ Current[k] # NoVal
    /\ log' = Append(log, [key |-> k, val |-> NoVal])
    /\ UNCHANGED <<pc, job, disturbed, conn, watching, cache, containers>>

-----------------------------------------------------------------------------
\* container.doRemoveKey on a container's pairs p and mapping m, for all of
\* the keys ks.
RemovePairs(p, m, ks) == p \ {<<m[k], k>> : k \in ks}
RemoveKeys(m, ks)     == [k \in Keys |-> IF k \in ks THEN NoVal ELSE m[k]]

\* The keys an exclusive container drops when v is added.
EarlyKeys(s, v) == IF s \in Exclusive THEN {k \in Keys : <<v, k>> \in pairs[s]} ELSE {}

\* container.addKv
OnAdd(s, k, v) ==
    LET early == EarlyKeys(s, v)
    IN /\ pairs' = [pairs EXCEPT ![s] = RemovePairs(@, mapping[s], early) \cup {<<v, k>>}]
       /\ mapping' = [mapping EXCEPT ![s] = [RemoveKeys(@, early) EXCEPT ![k] = v]]

\* container.removeKey
OnDelete(s, k) ==
    /\ pairs' = [pairs EXCEPT ![s] = RemovePairs(@, mapping[s], {k})]
    /\ mapping' = [mapping EXCEPT ![s] = RemoveKeys(@, {k})]

\* Subscriber.Values
SubValues(s) == {p[1] : p \in pairs[s]}

-----------------------------------------------------------------------------
\* Changes of the keys ks are kept in c.values and will be told to the listeners
\* ls.  Two things may go wrong for a subscriber whose Monitor call has begun.
\* If it is not in ls, a later handleChanges will find the changes in c.values
\* and take them for known to it.  If another goroutine is still telling it of
\* an earlier change, it may be told of the two in the wrong order.
Disturb(ks, ls) ==
    disturbed' = [s \in Subs |->
        disturbed[s] \cup
            {k \in ks :
                \/ s \notin ls /\ pc[s] # "new"
                \/ s \in ls /\ \E q \in Loaders : \/ <<k, s>> \in job[q].removes
                                                   \/ \E v \in Vals : <<k, v, s>> \in job[q].adds}]

\* Registry.Monitor, getCurrent: the values known are added to the new
\* listener, which is not registered yet.
Monitor(s) ==
    /\ pc[s] = "new"
    /\ lock = Unlocked
    /\ job' = [job EXCEPT ![s].adds = AddCalls(values, Present(values), {s})]
    /\ At(s, "current")
    /\ UNCHANGED <<log, disturbed, conn, watching, cache, containers>>

\* cluster.monitor: c.listeners[key] = append(c.listeners[key], l), and
\* getClient, whose failure leaves the listener registered.
Register(s) ==
    /\ pc[s] = "current"
    /\ Notified(s)
    /\ lock = Unlocked
    /\ listeners' = listeners \cup {s}
    /\ At(s, "load") \/ At(s, "failed")
    /\ UNCHANGED <<log, values, job, disturbed, conn, watching, containers>>

\* load: the Get that succeeds.
Load(p) ==
    /\ pc[p] = "load"
    /\ job' = [job EXCEPT ![p].rev = Len(log), ![p].pos = Len(log), ![p].snap = Current]
    /\ At(p, "changes")
    /\ UNCHANGED <<log, disturbed, conn, watching, cache, containers>>

\* p finds the contents "new" in etcd and keeps "kept" in c.values.
Change(p, new, kept) ==
    LET differ == {k \in Keys : new[k] # values[k]}
    IN /\ pc[p] = "changes"
       /\ lock = Unlocked
       /\ values' = kept
       /\ Disturb(differ, listeners)
       /\ job' = [job EXCEPT ![p].snap = Nothing,
                             ![p].adds = AddCalls(new, differ \cap Present(new), listeners),
                             ![p].removes = (differ \cap Present(values)) \X listeners]
       /\ At(p, IF p \in Subs THEN "loaded" ELSE "stream")
       /\ UNCHANGED <<log, listeners, conn, watching, containers>>

\* Mutant: handleChanges removes nothing from c.values.
HandleChangesAdds(p) ==
    Change(p, job[p].snap,
           [k \in Keys |-> IF job[p].snap[k] # NoVal THEN job[p].snap[k] ELSE values[k]])

\* handleChanges, up to its unlock: what is new or has changed is to be added,
\* and what is gone or has changed is to be removed.
HandleChanges(p) == Change(p, job[p].snap, job[p].snap)

\* A call of OnAdd, in the loops of Monitor, handleChanges and
\* handleWatchEvents.
NotifyAdd(p) ==
    /\ \E n \in job[p].adds :
        /\ job' = [job EXCEPT ![p].adds = @ \ {n}]
        /\ OnAdd(n[3], n[1], n[2])
    /\ UNCHANGED <<log, pc, disturbed, conn, watching, cache>>

\* A call of OnDelete; these follow those of OnAdd.
NotifyDelete(p) ==
    /\ job[p].adds = {}
    /\ \E n \in job[p].removes :
        /\ job' = [job EXCEPT ![p].removes = @ \ {n}]
        /\ OnDelete(n[2], n[1])
    /\ UNCHANGED <<log, pc, disturbed, conn, watching, cache>>

\* Monitor ends with a new watch goroutine that begins after revision "from".
RunWatch(s, from) ==
    /\ pc[s] = "loaded"
    /\ Notified(s)
    /\ \E w \in Watchers :
        /\ pc[w] = "idle"
        /\ group' = group \cup {w}
        /\ job' = [job EXCEPT ![w] = [NoJob EXCEPT !.rev = from, !.pos = from], ![s] = NoJob]
        /\ pc' = [pc EXCEPT ![s] = "done", ![w] = "stream"]
    /\ UNCHANGED <<log, lock, doneClosed, disturbed, conn, cache, containers>>

\* Mutant: the watch begins after the revisions that are there by now.
StartWatchNow(s) == RunWatch(s, Len(log))

\* monitor: c.watchGroup.Run(watch), from the revision after the one loaded.
StartWatch(s) == RunWatch(s, job[s].rev)

-----------------------------------------------------------------------------
\* watchStream: a response with one or more events.
WatchResponse(w) ==
    /\ pc[w] = "stream"
    /\ Notified(w)
    /\ \E n \in job[w].pos + 1 .. Len(log) : job' = [job EXCEPT ![w].upto = n]
    /\ At(w, "received")
    /\ UNCHANGED <<log, disturbed, conn, watching, cache, containers>>

\* The stream is closed, cancelled or fails: watch opens another one, again
\* from the revision after the one loaded.
WatchFailure(w) ==
    /\ pc[w] = "stream"
    /\ Notified(w)
    /\ job' = [job EXCEPT ![w].pos = job[w].rev]
    /\ UNCHANGED <<log, pc, disturbed, conn, watching, cache, containers>>

\* case <-c.done
WatchDone(w) ==
    /\ pc[w] = "stream"
    /\ Notified(w)
    /\ doneClosed
    /\ At(w, "idle")
    /\ group' = group \ {w}
    /\ job' = [job EXCEPT ![w] = NoJob]
    /\ UNCHANGED <<log, lock, doneClosed, disturbed, conn, cache, containers>>

\* handleWatchEvents: the listeners are copied once, for all the events.
CopyListeners(w) ==
    /\ pc[w] = "received"
    /\ lock = Unlocked
    /\ job' = [job EXCEPT ![w].told = listeners]
    /\ At(w, "apply")
    /\ UNCHANGED <<log, disturbed, conn, watching, cache, containers>>

\* handleWatchEvents: one event updates c.values, then the listeners are told.
ApplyEvent(w) ==
    LET ev == log[job[w].pos + 1]
        put == ev.val # NoVal
        last == job[w].pos + 1 = job[w].upto
        told == job[w].told
    IN /\ pc[w] = "apply"
       /\ Notified(w)
       /\ lock = Unlocked
       /\ values' = [values EXCEPT ![ev.key] = ev.val]
       /\ Disturb({ev.key}, told)
       /\ job' = [job EXCEPT ![w].pos = @ + 1,
                             ![w].upto = IF last THEN 0 ELSE @,
                             ![w].told = IF last THEN {} ELSE @,
                             ![w].adds = IF put THEN {<<ev.key, ev.val, s>> : s \in told} ELSE {},
                             ![w].removes = IF put THEN {} ELSE {ev.key} \X told]
       /\ At(w, IF last THEN "stream" ELSE "apply")
       /\ UNCHANGED <<log, listeners, conn, watching, containers>>

-----------------------------------------------------------------------------
\* stateWatcher.updateState: the connection fails, and is ready again, which
\* starts a reload goroutine.
Disconnect ==
    /\ reconnects < MaxReconnects
    /\ ~disconnected
    /\ disconnected' = TRUE
    /\ UNCHANGED <<log, reconnects, pc, job, disturbed, watching, cache, containers>>

\* The connection is ready: r is the goroutine of the listener's reload.
Ready(r, still) ==
    /\ disconnected
    /\ disconnected' = still
    /\ reconnects' = reconnects + 1
    /\ pc[r] = "idle"
    /\ At(r, "reload")
    /\ UNCHANGED <<log, job, disturbed, watching, cache, containers>>

\* Mutant: disconnected is not reset, so that every Ready state reloads.
ReconnectAgain(r) == Ready(r, TRUE)

\* updateState, case connectivity.Ready.
Reconnect(r) == Ready(r, FALSE)

\* reload: takes c.lock, closes c.done, and waits for the watch goroutines.
Reload(r) ==
    /\ pc[r] = "reload"
    /\ lock = Unlocked
    /\ lock' = r
    /\ doneClosed' = TRUE
    /\ At(r, "wait")
    /\ UNCHANGED <<log, group, job, disturbed, conn, cache, containers>>

\* c.watchGroup.Wait() returns; a new done and a new group; unlock.
Reloaded(r) ==
    /\ pc[r] = "wait"
    /\ group = {}
    /\ doneClosed' = FALSE
    /\ lock' = Unlocked
    /\ At(r, IF listeners = {} THEN "idle" ELSE "restart")
    /\ UNCHANGED <<log, group, job, disturbed, conn, cache, containers>>

\* c.watchGroup.Run(load and watch) for the key.
Restart(r) ==
    /\ pc[r] = "restart"
    /\ \E w \in Watchers :
        /\ pc[w] = "idle"
        /\ group' = group \cup {w}
        /\ pc' = [pc EXCEPT ![r] = "idle", ![w] = "load"]
    /\ UNCHANGED <<log, lock, doneClosed, job, disturbed, conn, cache, containers>>

-----------------------------------------------------------------------------
Next ==
    \/ \E kv \in Puts : EtcdPut(kv[1], kv[2])
    \/ \E k \in Keys : EtcdDelete(k)
    \/ \E s \in Subs : Monitor(s) \/ Register(s) \/ StartWatch(s)
    \/ \E p \in Loaders : Load(p) \/ HandleChanges(p) \/ NotifyAdd(p) \/ NotifyDelete(p)
    \/ \E w \in Watchers : \/ WatchResponse(w) \/ WatchFailure(w) \/ WatchDone(w)
                           \/ CopyListeners(w) \/ ApplyEvent(w)
    \/ Disconnect
    \/ \E r \in Reloaders : Reconnect(r) \/ Reload(r) \/ Reloaded(r) \/ Restart(r)

Spec == Init /\ [][Next]_vars

-----------------------------------------------------------------------------
TypeOK ==
    /\ log \in Seq([key : Keys, val : Vals \cup {NoVal}])
    /\ Len(log) \in Revs
    /\ disconnected \in BOOLEAN
    /\ reconnects \in 0 .. MaxReconnects
    /\ lock \in Reloaders \cup {Unlocked}
    /\ doneClosed \in BOOLEAN
    /\ group \subseteq Watchers
    /\ values \in Contents
    /\ listeners \subseteq Subs
    /\ pc \in [Loaders \cup Reloaders -> Places]
    /\ job \in [Loaders -> Job]
    /\ pairs \in [Subs -> SUBSET (Vals \X Keys)]
    /\ mapping \in [Subs -> Contents]
    /\ disturbed \in [Subs -> SUBSET Keys]

\* Nothing is left to do: no Monitor call is under way and every watch goroutine
\* has handled every event.
Quiet ==
    /\ \A s \in Subs : pc[s] \in {"new", "done", "failed"}
    /\ \A w \in Watchers : pc[w] = "idle" \/ (pc[w] = "stream" /\ Notified(w) /\ job[w].pos = Len(log))
    /\ \A r \in Reloaders : pc[r] = "idle"
    /\ \E w \in Watchers : pc[w] = "stream"

\* Once nothing is left to do the registry's cache is what etcd holds, however
\* loads, events of several watch goroutines, repeated streams and reloads
\* interleaved.
CacheConverges == Quiet => values = Current

\* Once nothing is left to do every subscriber has the values etcd holds:
\* "Values returns all the subscription values", and Monitor says "the
\* existing values should be updated to the listener".  The code does not keep
\* this for a subscriber that joins during a change, that two goroutines tell of
\* two changes at once, or of a key that changes its value: see KeysComplete.
ValuesComplete ==
    Quiet => \A s \in Subs \ Exclusive :
        pc[s] = "done" => SubValues(s) = {Current[k] : k \in Present(Current)}

\* What servers have put so far (a delete is a put of NoVal).
EverPut == {<<log[i].key, log[i].val>> : i \in 1 .. Len(log)}

\* The key was put with no two values: so it is with a publisher's own key,
\* which ends in its lease; with the option WithId another publisher may put the
\* same key with its own address.
KeptValue(k) == \A v, w \in Vals : {<<k, v>>, <<k, w>>} \subseteq EverPut => v = w

\* Of a key that kept its value, a subscriber that no other goroutine disturbs
\* has in the end just the pair that etcd has: a change is lost only if it is
\* told to a copy of the listeners without the subscriber, after the
\* subscriber's Monitor call began, or while another change of the key is being
\* told.  (A key that changes its value leaves its old pair: see ValuesComplete.)
KeysComplete ==
    Quiet => \A s \in Subs \ Exclusive, k \in Keys, v \in Vals :
        pc[s] = "done" /\ k \notin disturbed[s] /\ KeptValue(k)
            => (<<v, k>> \in pairs[s] <=> Current[k] = v)

\* reload never waits, with c.lock in its hands, for a watch goroutine that
\* waits for c.lock.
ReloadNotBlocked ==
    \A r \in Reloaders : pc[r] = "wait" =>
        \A w \in group : pc[w] \notin {"received", "apply", "changes"}
=============================================================================
