-------------------------- MODULE DiscoveryProofs --------------------------
(***************************************************************************)
(* Theorems about Discovery, for any keys, servers, subscribers and        *)
(* goroutines: what the registry's cache holds once nothing is left to do, *)
(* and what a subscriber that nobody disturbed has been told.              *)
(***************************************************************************)
EXTENDS Discovery, SequenceTheorems, WellFoundedInduction, TLAPS

\* Where the goroutines can be, and what the lock, c.done, the wait group and
\* the list of listeners say about that.
SubPc    == {"new", "current", "load", "failed", "changes", "loaded", "done"}
WatchPc  == {"idle", "load", "changes", "stream", "received", "apply"}
ReloadPc == {"idle", "reload", "wait", "restart"}

Where ==
    /\ \A s \in Subs : pc[s] \in SubPc /\ (s \in listeners <=> pc[s] \notin {"new", "current"})
    /\ \A w \in Watchers : pc[w] \in WatchPc /\ (w \in group <=> pc[w] # "idle")
    /\ \A r \in Reloaders : pc[r] \in ReloadPc /\ (lock = r <=> pc[r] = "wait")
    /\ doneClosed <=> lock # Unlocked
    /\ disconnected => reconnects < MaxReconnects

\* etcd's contents after the first r events of a history l.
After(l, r) ==
    [k \in Keys |->
        LET on == {i \in 1 .. r : l[i].key = k}
        IN IF on = {} THEN NoVal ELSE l[Max(on)].val]

\* How far each goroutine has come in etcd's history.
Positions ==
    \A p \in Loaders :
        /\ job[p].rev <= job[p].pos /\ job[p].pos <= Len(log)
        /\ pc[p] \in {"received", "apply"} => job[p].pos < job[p].upto /\ job[p].upto <= Len(log)
        /\ pc[p] \in {"changes", "loaded"} => job[p].pos = job[p].rev
        /\ pc[p] = "changes" => job[p].snap = After(log, job[p].rev)

\* A goroutine that will load etcd's contents.
Loading ==
    \/ \E p \in Loaders : pc[p] \in {"load", "changes"}
    \/ \E r \in Reloaders : pc[r] \in {"wait", "restart"}

\* One that handles the events after the contents it has loaded, or will.
Live(p) == pc[p] \in {"loaded", "stream", "received", "apply"}

\* It has yet to handle an event of k.
Behind(p, k) == \E i \in (job[p].pos + 1) .. Len(log) : log[i].key = k

\* c.values is right about k, or somebody is on the way to correct it, or nobody
\* watches.
CacheInv ==
    \A k \in Keys : \/ values[k] = Current[k]
                    \/ Loading
                    \/ \A p \in Loaders : ~Live(p)
                    \/ \E p \in Loaders : Live(p) /\ Behind(p, k)

\* The inductive invariant.
IInv == TypeOK /\ Current \in Contents /\ Where /\ Positions /\ CacheInv

-----------------------------------------------------------------------------
\* c is made of what servers have put.
Published(c) == \A k \in Keys : c[k] # NoVal => <<k, c[k]>> \in EverPut

\* What has been put stays put.
PutsStay == EverPut \subseteq EverPut'

\* p has yet to tell s of a change of k.
Telling(p, k, s) ==
    \/ <<k, s>> \in job[p].removes
    \/ \E v \in Vals : <<k, v, s>> \in job[p].adds

\* What p works on is what servers put, it tells registered subscribers and the
\* one whose Monitor call it is, and it goes on to load or to receive only after
\* it has made its calls.
Talking == {"current", "loaded", "stream", "apply"}

Calls(p) ==
    /\ Published(job[p].snap)
    /\ \A k \in Keys, v \in Vals, s \in Subs : <<k, v, s>> \in job[p].adds => <<k, v>> \in EverPut
    /\ pc[p] \notin Talking => Notified(p)
    /\ job[p].told \subseteq listeners
    /\ \A s \in Subs, k \in Keys : pc[s] = "new" => ~Telling(p, k, s)

CallInv == Published(values) /\ \A p \in Loaders : Calls(p)

\* The pairs of k that the container of s holds.
PairsInv(s) ==
    /\ \A k \in Keys, v \in Vals : <<v, k>> \in pairs[s] =>
            <<k, v>> \in EverPut /\ (KeptValue(k) => mapping[s][k] = v)
    /\ pc[s] = "new" => pairs[s] = {}

Has(s, k, v) == <<v, k>> \in pairs[s]

\* s is owed the truth about k.
Owed(s, k) == pc[s] # "new" /\ k \notin disturbed[s] /\ KeptValue(k)

\* What s has then been told of k: everything, but for the one call that
\* somebody has yet to make.
ToldInv(s, k) ==
    /\ \A p, q \in Loaders : Telling(p, k, s) /\ Telling(q, k, s) => p = q
    /\ (\A p \in Loaders : ~Telling(p, k, s)) => \A v \in Vals : Has(s, k, v) <=> values[k] = v
    /\ \A p \in Loaders, v \in Vals : <<k, v, s>> \in job[p].adds =>
            values[k] = v /\ <<k, s>> \notin job[p].removes
    /\ \A p \in Loaders : <<k, s>> \in job[p].removes => values[k] = NoVal

SubscriberInv ==
    \A s \in Subs \ Exclusive :
        /\ PairsInv(s)
        /\ \A k \in Keys : Owed(s, k) => ToldInv(s, k)

\* The inductive invariant of the subscribers, on top of IInv.
SInv == CallInv /\ SubscriberInv

-----------------------------------------------------------------------------
(***************************************************************************)
(* etcd's history.                                                         *)
(***************************************************************************)
Event == [key : Keys, val : Vals \cup {NoVal}]

LEMMA MaxIs ==
    ASSUME NEW S \in SUBSET Nat, NEW n \in S, \A i \in S : i <= n
    PROVE  Max(S) = n
<1>1. n \in S /\ \A y \in S : n >= y
  OBVIOUS
<1>2. Max(S) \in S /\ \A y \in S : Max(S) >= y
  BY <1>1 DEF Max
<1> DEFINE m == Max(S)
<1>3. m \in Nat /\ n \in Nat /\ m >= n /\ n >= m
  BY <1>1, <1>2
<1> HIDE DEF m
<1>4. m = n
  BY <1>3
<1> QED
  BY <1>4 DEF m

\* The largest element of a set of bounded numbers is an element of it.
LEMMA MaxIn ==
    ASSUME NEW r \in Nat, NEW S \in SUBSET (1 .. r), S # {}
    PROVE  Max(S) \in S
<1> DEFINE T == {r - i : i \in S}
           R == OpToRel(<, Nat)
<1>1. PICK j \in S : TRUE
  OBVIOUS
<1>2. \A i \in S : i \in Nat /\ r - i \in Nat /\ r - i \in T
  OBVIOUS
<1>3. T \subseteq Nat /\ T # {}
  BY <1>1, <1>2
<1>4. IsWellFoundedOn(R, Nat)
  BY NatLessThanWellFounded, Zenon
<1>5. \A x, y \in Nat : y < x => <<y, x>> \in R
  BY DEF OpToRel
<1> HIDE DEF R
<1>6. PICK x \in T : \A y \in T : ~ (<<y, x>> \in R)
  <2> HIDE DEF T
  <2> QED
    BY <1>3, <1>4, WFMin
<1>7. \A y \in T : ~(y < x)
  BY <1>3, <1>5, <1>6
<1>8. PICK n \in S : x = r - n
  OBVIOUS
<1>9. ASSUME NEW i \in S PROVE n >= i
  <2>1. ~(r - i < r - n)
    BY <1>2, <1>7, <1>8
  <2>2. n \in Nat /\ i \in Nat
    BY <1>2
  <2> QED
    BY <2>1, <2>2
<1> QED
  BY <1>9 DEF Max

LEMMA StoreIsAfter ==
    /\ Current = After(log, Len(log))
    /\ Current' = After(log', Len(log'))
BY DEF Store, Current, After

\* The contents do not change for a key that has no event after r, and the last
\* event of a key decides.
LEMMA AfterSame ==
    ASSUME NEW l, NEW k \in Keys, NEW n \in Nat, NEW r \in 0 .. n,
           \A i \in (r + 1) .. n : l[i].key # k
    PROVE  After(l, r)[k] = After(l, n)[k]
<1>1. {i \in 1 .. r : l[i].key = k} = {i \in 1 .. n : l[i].key = k}
  OBVIOUS
<1> QED
  BY <1>1 DEF After

LEMMA AfterLast ==
    ASSUME NEW l, NEW k \in Keys, NEW n \in Nat, NEW r \in 1 .. n, l[r].key = k,
           \A i \in (r + 1) .. n : l[i].key # k
    PROVE  After(l, n)[k] = l[r].val
<1> DEFINE on == {i \in 1 .. n : l[i].key = k}
<1>1. on \in SUBSET Nat /\ r \in on /\ \A i \in on : i <= r
  OBVIOUS
<1>2. Max(on) = r
  <2> HIDE DEF on
  <2> QED
    BY <1>1, MaxIs
<1>3. After(l, n)[k] = IF on = {} THEN NoVal ELSE l[Max(on)].val
  BY DEF After
<1> QED
  BY <1>1, <1>2, <1>3

\* Two histories that agree on the first r events.
LEMMA AfterAgree ==
    ASSUME NEW l, NEW m, NEW r \in Nat, \A i \in 1 .. r : l[i] = m[i]
    PROVE  After(l, r) = After(m, r)
<1>1. ASSUME NEW k \in Keys PROVE After(l, r)[k] = After(m, r)[k]
  <2> DEFINE on == {i \in 1 .. r : l[i].key = k}
  <2>1. {i \in 1 .. r : m[i].key = k} = on
    OBVIOUS
  <2>2. on # {} => Max(on) \in on
    BY MaxIn
  <2>3. After(l, r)[k] = IF on = {} THEN NoVal ELSE l[Max(on)].val
    BY DEF After
  <2>4. After(m, r)[k] = IF on = {} THEN NoVal ELSE m[Max(on)].val
    BY <2>1 DEF After
  <2>5. on # {} => l[Max(on)] = m[Max(on)]
    BY <2>2
  <2> HIDE DEF on
  <2> QED
    BY <2>3, <2>4, <2>5
<1> QED
  BY <1>1 DEF After

\* Another event.
LEMMA StoreGrows ==
    ASSUME log \in Seq(Event), NEW e \in Event, log' = Append(log, e)
    PROVE  /\ log' \in Seq(Event) /\ Len(log') = Len(log) + 1 /\ Len(log) \in Nat
           /\ \A i \in 1 .. Len(log) : log'[i] = log[i]
           /\ log'[Len(log) + 1] = e
           /\ \A r \in 0 .. Len(log) : After(log', r) = After(log, r)
           /\ \A k \in Keys : Current'[k] = IF k = e.key THEN e.val ELSE Current[k]
<1>1. /\ log' \in Seq(Event) /\ Len(log') = Len(log) + 1 /\ Len(log) \in Nat
      /\ \A i \in 1 .. Len(log) : log'[i] = log[i]
      /\ log'[Len(log) + 1] = e
  BY LenProperties
<1> DEFINE n == Len(log)
<1>2. ASSUME NEW r \in 0 .. Len(log) PROVE After(log', r) = After(log, r)
  <2>1. r \in Nat /\ \A i \in 1 .. r : log'[i] = log[i]
    BY <1>1
  <2> QED
    BY <2>1, AfterAgree
<1>3. ASSUME NEW k \in Keys PROVE Current'[k] = IF k = e.key THEN e.val ELSE Current[k]
  <2>1. Current' = After(log', n + 1) /\ Current = After(log, n)
    BY <1>1, StoreIsAfter
  <2>2. CASE k = e.key
    <3>1. /\ n + 1 \in Nat /\ n + 1 \in 1 .. (n + 1) /\ log'[n + 1].key = k
          /\ \A i \in ((n + 1) + 1) .. (n + 1) : log'[i].key # k
      BY <1>1, <2>2
    <3>2. After(log', n + 1)[k] = log'[n + 1].val
      <4> HIDE DEF n
      <4> QED
        BY <3>1, AfterLast
    <3> QED
      BY <1>1, <2>1, <2>2, <3>2
  <2>3. CASE k # e.key
    <3>1. /\ n + 1 \in Nat /\ n \in 0 .. (n + 1) /\ n \in 0 .. Len(log)
          /\ \A i \in (n + 1) .. (n + 1) : log'[i].key # k
      BY <1>1, <2>3
    <3>2. After(log', n)[k] = After(log', n + 1)[k]
      <4> HIDE DEF n
      <4> QED
        BY <3>1, AfterSame
    <3>3. After(log', n) = After(log, n)
      BY <1>2, <3>1
    <3> QED
      BY <2>1, <2>3, <3>2, <3>3
  <2> QED
    BY <2>2, <2>3
<1> QED
  BY <1>1, <1>2, <1>3

-----------------------------------------------------------------------------
(***************************************************************************)
(* Types.                                                                  *)
(***************************************************************************)
\* TypeOK in parts.
TCore ==
    /\ log \in Seq(Event) /\ Len(log) \in Revs
    /\ reconnects \in 0 .. MaxReconnects
    /\ lock \in Reloaders \cup {Unlocked}
    /\ group \subseteq Watchers
    /\ values \in Contents
    /\ listeners \subseteq Subs

TPc   == pc \in [Loaders \cup Reloaders -> Places]
TJob  == job \in [Loaders -> Job]
TPairs == pairs \in [Subs -> SUBSET (Vals \X Keys)] /\ mapping \in [Subs -> Contents]
TTold == disturbed \in [Subs -> SUBSET Keys]

Typed == TCore /\ TPc /\ TJob /\ TPairs /\ TTold

Flags == disconnected \in BOOLEAN /\ doneClosed \in BOOLEAN

LEMMA TypeOKIs == TypeOK <=> Typed /\ Flags
BY Zenon DEF TypeOK, Typed, TCore, TPc, TJob, TPairs, TTold, Flags, Event

LEMMA SameTypes ==
    /\ TCore /\ UNCHANGED <<log, reconnects, lock, group, values, listeners>> => TCore'
    /\ TJob /\ UNCHANGED job => TJob'
    /\ TPc /\ UNCHANGED pc => TPc'
    /\ TPairs /\ UNCHANGED <<pairs, mapping>> => TPairs'
    /\ TTold /\ UNCHANGED disturbed => TTold'
BY Zenon DEF TCore, TPc, TJob, TPairs, TTold

LEMMA PcTyped ==
    ASSUME TPc, NEW p, NEW a \in Places, pc' = [pc EXCEPT ![p] = a]
    PROVE  TPc'
BY DEF TPc

LEMMA FlagsKept == Flags /\ [Next]_vars => Flags'
<1> SUFFICES ASSUME Flags, [Next]_vars PROVE Flags'
  OBVIOUS
<1> USE DEF Flags, conn, watching
<1>1. UNCHANGED disconnected \/ disconnected' \in BOOLEAN
  BY Zenon DEF Next, EtcdPut, EtcdDelete, Monitor, Register, StartWatch, RunWatch, Load,
     HandleChanges, Change, NotifyAdd, NotifyDelete, WatchResponse, WatchFailure, WatchDone,
     CopyListeners, ApplyEvent, Disconnect, Reconnect, Ready, Reload, Reloaded, Restart, vars
<1>2. UNCHANGED doneClosed \/ doneClosed' \in BOOLEAN
  BY Zenon DEF Next, EtcdPut, EtcdDelete, Monitor, Register, StartWatch, RunWatch, Load,
     HandleChanges, Change, NotifyAdd, NotifyDelete, WatchResponse, WatchFailure, WatchDone,
     CopyListeners, ApplyEvent, Disconnect, Reconnect, Ready, Reload, Reloaded, Restart, vars
<1> QED
  BY <1>1, <1>2

LEMMA NothingFacts == Nothing \in Contents /\ Present(Nothing) = {}
BY DEF Nothing, Contents, Present

LEMMA NoJobFacts ==
    /\ NoJob \in Job
    /\ NoJob.rev = 0 /\ NoJob.pos = 0 /\ NoJob.told = {} /\ NoJob.adds = {} /\ NoJob.removes = {}
    /\ NoJob.snap = Nothing
<1>1. 0 \in Revs
  BY BoundAssumption DEF Revs
<1> QED
  BY <1>1, NothingFacts DEF NoJob, Job

\* The calls of OnAdd that handleChanges and Monitor collect.
LEMMA AddCallsType ==
    ASSUME NEW c \in Contents, NEW ks \in SUBSET Present(c), NEW ls \in SUBSET Subs
    PROVE  AddCalls(c, ks, ls) \in SUBSET (Keys \X Vals \X Subs)
<1>1. \A k \in ks : k \in Keys /\ c[k] \in Vals
  BY DEF Present, Contents
<1> QED
  BY <1>1 DEF AddCalls

LEMMA DisturbType ==
    ASSUME disturbed \in [Subs -> SUBSET Keys], NEW ks \in SUBSET Keys, NEW ls, Disturb(ks, ls)
    PROVE  disturbed' \in [Subs -> SUBSET Keys]
BY DEF Disturb

LEMMA LogFacts ==
    ASSUME Typed
    PROVE  /\ log \in Seq(Event) /\ Len(log) \in Nat /\ Len(log) \in Revs
           /\ Len(log) <= MaxRev /\ MaxRev \in Nat
           /\ \A i \in 1 .. Len(log) : log[i].key \in Keys /\ log[i].val \in Vals \cup {NoVal}
<1>1. log \in Seq(Event) /\ Len(log) \in Revs
  BY DEF Typed, TCore
<1>2. Len(log) \in Nat /\ \A i \in 1 .. Len(log) : log[i] \in Event
  BY <1>1, LenProperties, ElementOfSeq
<1>3. \A i \in 1 .. Len(log) : log[i].key \in Keys /\ log[i].val \in Vals \cup {NoVal}
  BY <1>2 DEF Event
<1> QED
  BY <1>1, <1>2, <1>3, BoundAssumption DEF Revs

LEMMA EtcdTypes ==
    ASSUME Typed, Current \in Contents, NEW k \in Keys, NEW v \in Vals \cup {NoVal},
           Len(log) < MaxRev, log' = Append(log, [key |-> k, val |-> v]),
           UNCHANGED <<pc, job, disturbed, conn, watching, cache, containers>>
    PROVE  Typed' /\ Current' \in Contents
<1> DEFINE e == [key |-> k, val |-> v]
<1>1. e \in Event /\ e.key = k /\ e.val = v
  BY DEF Event
<1>2. log \in Seq(Event) /\ Len(log) \in Nat /\ MaxRev \in Nat
  BY LogFacts
<1> HIDE DEF e
<1>3. /\ log' \in Seq(Event) /\ Len(log') = Len(log) + 1
      /\ \A j \in Keys : Current'[j] = IF j = e.key THEN e.val ELSE Current[j]
  BY <1>1, <1>2, StoreGrows DEF e
<1>4. Current' \in Contents
  <2>1. \A j \in Keys : Current'[j] \in Vals \cup {NoVal}
    BY <1>1, <1>3 DEF Contents
  <2> QED
    BY <2>1 DEF Current, Store, Contents
<1>5. Len(log') \in Revs
  BY <1>2, <1>3 DEF Revs
<1> QED
  BY <1>3, <1>4, <1>5, SameTypes DEF Typed, TCore, conn, watching, cache, containers

LEMMA TypesKept ==
    ASSUME Typed, Current \in Contents, Where, Positions, [Next]_vars
    PROVE  Typed' /\ Current' \in Contents
<1> USE DEF conn, watching, cache, containers
<1>0. /\ Len(log) \in Nat /\ Len(log) \in Revs /\ 0 \in Revs /\ NoJob \in Job /\ Nothing \in Contents
      /\ \A i \in 1 .. Len(log) : log[i].key \in Keys /\ log[i].val \in Vals \cup {NoVal}
  BY LogFacts, NoJobFacts, NothingFacts, BoundAssumption DEF Revs
<1>a. TCore /\ TPc /\ TJob /\ TPairs /\ TTold
  BY DEF Typed
<1>b. Subs \subseteq Loaders /\ Watchers \subseteq Loaders
  BY DEF Loaders
<1>1. ASSUME NEW kv \in Puts, EtcdPut(kv[1], kv[2]) PROVE Typed' /\ Current' \in Contents
  <2>1. kv[1] \in Keys /\ kv[2] \in Vals
    BY PutsAssumption
  <2> QED
    BY <1>1, <2>1, EtcdTypes DEF EtcdPut
<1>2. ASSUME NEW k \in Keys, EtcdDelete(k) PROVE Typed' /\ Current' \in Contents
  BY <1>2, EtcdTypes DEF EtcdDelete
<1>3. UNCHANGED log => Current' \in Contents
  BY DEF Current, Store
<1>4. ASSUME NEW s \in Subs, Monitor(s) PROVE Typed'
  <2>1. AddCalls(values, Present(values), {s}) \in SUBSET (Keys \X Vals \X Subs)
    BY <1>a, AddCallsType DEF TCore
  <2>2. job' = [job EXCEPT ![s].adds = AddCalls(values, Present(values), {s})]
    BY <1>4 DEF Monitor
  <2>3. TJob'
    BY <1>a, <1>b, <2>1, <2>2 DEF TJob, Job
  <2> QED
    BY <1>4, <1>a, <1>b, <2>3, SameTypes, PcTyped DEF At, Places, Monitor, Typed
<1>5. ASSUME NEW s \in Subs, Register(s) PROVE Typed'
  <2>1. TCore'
    BY <1>5, <1>a DEF Register, TCore
  <2> QED
    BY <1>5, <1>a, <1>b, <2>1, SameTypes, PcTyped DEF At, Places, Register, Typed
<1>6. ASSUME NEW s \in Subs, StartWatch(s) PROVE Typed'
  <2>1. PICK w \in Watchers :
            /\ pc' = [pc EXCEPT ![s] = "done", ![w] = "stream"]
            /\ group' = group \cup {w}
            /\ job' = [job EXCEPT ![w] = [NoJob EXCEPT !.rev = job[s].rev, !.pos = job[s].rev],
                                  ![s] = NoJob]
    BY <1>6 DEF StartWatch, RunWatch
  <2>2. job[s].rev \in Revs
    BY <1>a, <1>b DEF TJob, Job
  <2>3. [NoJob EXCEPT !.rev = job[s].rev, !.pos = job[s].rev] \in Job
    BY <1>0, <2>2 DEF Job
  <2>4. TJob'
    BY <1>0, <1>a, <1>b, <2>1, <2>3 DEF TJob
  <2>5. TPc'
    BY <1>a, <2>1 DEF TPc, Places
  <2>6. TCore'
    BY <1>6, <1>a, <2>1 DEF StartWatch, RunWatch, TCore
  <2> QED
    BY <1>6, <1>a, <2>4, <2>5, <2>6, SameTypes DEF StartWatch, RunWatch, Typed
<1>7. ASSUME NEW p \in Loaders, Load(p) PROVE Typed'
  <2> DEFINE n == Len(log)
  <2>1. job' = [job EXCEPT ![p].rev = n, ![p].pos = n, ![p].snap = Current]
    BY <1>7 DEF Load
  <2>2. n \in Revs
    BY <1>0
  <2> HIDE DEF n
  <2>3. TJob'
    BY <1>a, <2>1, <2>2 DEF TJob, Job
  <2> QED
    BY <1>7, <1>a, <2>3, SameTypes, PcTyped DEF At, Places, Load, Typed
<1>8. ASSUME NEW p \in Loaders, HandleChanges(p) PROVE Typed'
  <2> DEFINE new == job[p].snap
             differ == {k \in Keys : new[k] # values[k]}
             adds == AddCalls(new, differ \cap Present(new), listeners)
             removes == (differ \cap Present(values)) \X listeners
  <2>1. new \in Contents /\ values \in Contents /\ listeners \in SUBSET Subs
    BY <1>a DEF TCore, TJob, Job
  <2>2. adds \in SUBSET (Keys \X Vals \X Subs)
    BY <2>1, AddCallsType
  <2>3. removes \in SUBSET (Keys \X Subs)
    BY <2>1
  <2>4. TTold'
    BY <1>8, <1>a, DisturbType DEF HandleChanges, Change, TTold
  <2>5. /\ values' = new
        /\ job' = [job EXCEPT ![p].snap = Nothing, ![p].adds = adds, ![p].removes = removes]
        /\ At(p, IF p \in Subs THEN "loaded" ELSE "stream")
        /\ UNCHANGED <<log, listeners, conn, watching, containers>>
    BY <1>8 DEF HandleChanges, Change
  <2> HIDE DEF new, differ, adds, removes
  <2>6. TJob'
    BY <1>0, <1>a, <2>2, <2>3, <2>5 DEF TJob, Job
  <2>7. TCore'
    BY <1>a, <2>1, <2>5 DEF TCore
  <2> QED
    BY <1>a, <2>4, <2>5, <2>6, <2>7, SameTypes, PcTyped DEF At, Places, Typed
<1>9. ASSUME NEW p \in Loaders, NotifyAdd(p) PROVE Typed'
  <2>1. PICK n \in job[p].adds : /\ job' = [job EXCEPT ![p].adds = @ \ {n}]
                                 /\ OnAdd(n[3], n[1], n[2])
    BY <1>9 DEF NotifyAdd
  <2>2. n[1] \in Keys /\ n[2] \in Vals /\ n[3] \in Subs
    BY <1>a DEF TJob, Job
  <2>3. TJob'
    BY <1>a, <2>1 DEF TJob, Job
  <2>4. pairs' \in [Subs -> SUBSET (Vals \X Keys)]
    BY <1>a, <2>1, <2>2 DEF OnAdd, RemovePairs, TPairs
  <2>5. mapping' \in [Subs -> Contents]
    BY <1>a, <2>1, <2>2 DEF OnAdd, RemoveKeys, TPairs, Contents
  <2>6. TPairs'
    BY <2>4, <2>5 DEF TPairs
  <2> QED
    BY <1>9, <1>a, <2>3, <2>6, SameTypes DEF NotifyAdd, Typed
<1>10. ASSUME NEW p \in Loaders, NotifyDelete(p) PROVE Typed'
  <2>1. PICK n \in job[p].removes : /\ job' = [job EXCEPT ![p].removes = @ \ {n}]
                                    /\ OnDelete(n[2], n[1])
    BY <1>10 DEF NotifyDelete
  <2>2. n[1] \in Keys /\ n[2] \in Subs
    BY <1>a DEF TJob, Job
  <2>3. TJob'
    BY <1>a, <2>1 DEF TJob, Job
  <2>4. pairs' \in [Subs -> SUBSET (Vals \X Keys)]
    BY <1>a, <2>1, <2>2 DEF OnDelete, RemovePairs, TPairs
  <2>5. mapping' \in [Subs -> Contents]
    BY <1>a, <2>1, <2>2 DEF OnDelete, RemoveKeys, TPairs, Contents
  <2>6. TPairs'
    BY <2>4, <2>5 DEF TPairs
  <2> QED
    BY <1>10, <1>a, <2>3, <2>6, SameTypes DEF NotifyDelete, Typed
<1>11. ASSUME NEW w \in Watchers, WatchResponse(w) PROVE Typed'
  <2>1. PICK n \in job[w].pos + 1 .. Len(log) : job' = [job EXCEPT ![w].upto = n]
    BY <1>11 DEF WatchResponse
  <2>2. job[w].pos \in Nat
    BY <1>a, <1>b DEF Revs, TJob, Job
  <2>3. n \in Revs
    BY <2>2, LogFacts DEF Revs
  <2>4. TJob'
    BY <1>a, <2>1, <2>3 DEF TJob, Job
  <2> QED
    BY <1>11, <1>a, <1>b, <2>4, SameTypes, PcTyped DEF At, Places, WatchResponse, Typed
<1>12. ASSUME NEW w \in Watchers, WatchFailure(w) PROVE Typed'
  <2>1. job' = [job EXCEPT ![w].pos = job[w].rev]
    BY <1>12 DEF WatchFailure
  <2>2. TJob'
    BY <1>a, <1>b, <2>1 DEF TJob, Job
  <2> QED
    BY <1>12, <1>a, <2>2, SameTypes DEF WatchFailure, Typed
<1>13. ASSUME NEW w \in Watchers, WatchDone(w) PROVE Typed'
  <2>1. TJob'
    BY <1>0, <1>13, <1>a, <1>b DEF WatchDone, TJob
  <2>2. TCore'
    BY <1>13, <1>a DEF WatchDone, TCore
  <2> QED
    BY <1>13, <1>a, <1>b, <2>1, <2>2, SameTypes, PcTyped DEF At, Places, WatchDone, Typed
<1>14. ASSUME NEW w \in Watchers, CopyListeners(w) PROVE Typed'
  <2>1. job' = [job EXCEPT ![w].told = listeners] /\ listeners \in SUBSET Subs
    BY <1>14, <1>a DEF CopyListeners, TCore
  <2>2. TJob'
    BY <1>a, <1>b, <2>1 DEF TJob, Job
  <2> QED
    BY <1>14, <1>a, <1>b, <2>2, SameTypes, PcTyped DEF At, Places, CopyListeners, Typed
<1>15. ASSUME NEW w \in Watchers, ApplyEvent(w) PROVE Typed'
  <2> DEFINE n == job[w].pos + 1
             ev == log[n]
             put == ev.val # NoVal
             last == n = job[w].upto
             told == job[w].told
             upto == IF last THEN 0 ELSE job[w].upto
             still == IF last THEN {} ELSE told
             adds == IF put THEN {<<ev.key, ev.val, s>> : s \in told} ELSE {}
             removes == IF put THEN {} ELSE {ev.key} \X told
  <2>0. w \in Loaders /\ pc[w] = "apply" /\ job[w] \in Job
    BY <1>15, <1>a, <1>b DEF ApplyEvent, TJob
  <2>1. /\ w \in Loaders /\ pc[w] = "apply" /\ job[w].pos \in Nat /\ told \in SUBSET Subs
        /\ job[w].upto \in Revs /\ job[w] \in Job
    BY <2>0 DEF Job, Revs
  <2>2. n \in 1 .. Len(log) /\ n \in Revs
    BY <1>0, <2>1, LogFacts DEF Positions, Revs
  <2>3. ev.key \in Keys /\ ev.val \in Vals \cup {NoVal}
    BY <1>0, <2>2
  <2>4. TTold'
    BY <1>15, <1>a, <2>3, DisturbType DEF ApplyEvent, TTold
  <2>5. /\ values' = [values EXCEPT ![ev.key] = ev.val]
        /\ job' = [job EXCEPT ![w].pos = n, ![w].upto = upto, ![w].told = still,
                              ![w].adds = adds, ![w].removes = removes]
        /\ At(w, IF last THEN "stream" ELSE "apply")
        /\ UNCHANGED <<log, listeners, conn, watching, containers>>
    BY <1>15 DEF ApplyEvent
  <2>6. upto \in Revs /\ still \in SUBSET Subs
    BY <1>0, <2>1
  <2>7. adds \in SUBSET (Keys \X Vals \X Subs) /\ removes \in SUBSET (Keys \X Subs)
    BY <2>1, <2>3
  <2> HIDE DEF n, ev, upto, still, adds, removes
  <2>8. TJob'
    BY <1>a, <2>1, <2>2, <2>5, <2>6, <2>7 DEF TJob, Job
  <2>9. TCore'
    BY <1>a, <2>3, <2>5 DEF TCore, Contents
  <2> QED
    BY <1>a, <2>1, <2>4, <2>5, <2>8, <2>9, SameTypes, PcTyped DEF At, Places, Typed
<1>16. ASSUME Disconnect PROVE Typed'
  BY <1>16, <1>a, SameTypes DEF Disconnect, Typed
<1>17. ASSUME NEW r \in Reloaders, Reconnect(r) PROVE Typed'
  <2>1. reconnects' \in 0 .. MaxReconnects
    BY <1>17, <1>a, BoundAssumption DEF Reconnect, Ready, TCore, Where
  <2>2. TCore'
    BY <1>17, <1>a, <2>1 DEF Reconnect, Ready, TCore
  <2> QED
    BY <1>17, <1>a, <2>2, SameTypes, PcTyped DEF At, Places, Reconnect, Ready, Typed
<1>18. ASSUME NEW r \in Reloaders, Reload(r) PROVE Typed'
  <2>1. TCore'
    BY <1>18, <1>a DEF Reload, TCore
  <2> QED
    BY <1>18, <1>a, <2>1, SameTypes, PcTyped DEF At, Places, Reload, Typed
<1>19. ASSUME NEW r \in Reloaders, Reloaded(r) PROVE Typed'
  <2>1. TCore'
    BY <1>19, <1>a DEF Reloaded, TCore
  <2> QED
    BY <1>19, <1>a, <2>1, SameTypes, PcTyped DEF At, Places, Reloaded, Typed
<1>20. ASSUME NEW r \in Reloaders, Restart(r) PROVE Typed'
  <2>1. TCore'
    BY <1>20, <1>a DEF Restart, TCore
  <2>2. TPc'
    BY <1>20, <1>a DEF Restart, TPc, Places
  <2> QED
    BY <1>20, <1>a, <2>1, <2>2, SameTypes DEF Restart, Typed
<1>21. ASSUME UNCHANGED vars PROVE Typed'
  BY <1>21, <1>a, SameTypes DEF vars, Typed
<1>22. (\E kv \in Puts : EtcdPut(kv[1], kv[2])) \/ (\E k \in Keys : EtcdDelete(k)) \/ UNCHANGED log
  BY DEF Next, Monitor, Register, StartWatch, RunWatch, Load, HandleChanges, Change, NotifyAdd,
     NotifyDelete, WatchResponse, WatchFailure, WatchDone, CopyListeners, ApplyEvent, Disconnect,
     Reconnect, Ready, Reload, Reloaded, Restart, vars
<1> QED
  BY <1>1, <1>2, <1>3, <1>4, <1>5, <1>6, <1>7, <1>8, <1>9, <1>10, <1>11, <1>12, <1>13, <1>14, <1>15,
     <1>16, <1>17, <1>18, <1>19, <1>20, <1>21, <1>22 DEF Next

-----------------------------------------------------------------------------
(***************************************************************************)
(* Where everybody is.                                                     *)
(***************************************************************************)
LEMMA WhereKept ==
    ASSUME Typed, Where, [Next]_vars
    PROVE  Where'
<1>0. /\ pc \in [Loaders \cup Reloaders -> Places]
      /\ Subs \cap Watchers = {} /\ Reloaders \cap Subs = {} /\ Reloaders \cap Watchers = {}
      /\ Unlocked \notin Reloaders
      /\ Subs \subseteq Loaders /\ Watchers \subseteq Loaders /\ Loaders = Subs \cup Watchers
  BY SubsAssumption, LockAssumption DEF Typed, TPc, Loaders
<1> USE <1>0 DEF Where, SubPc, WatchPc, ReloadPc, At, conn, watching, cache
<1>1. ASSUME UNCHANGED <<pc, listeners, group, lock, doneClosed, disconnected, reconnects>>
      PROVE Where'
  BY <1>1
<1>2. ASSUME NEW s \in Subs, Monitor(s) PROVE Where'
  BY <1>2 DEF Monitor
<1>3. ASSUME NEW s \in Subs, Register(s) PROVE Where'
  BY <1>3 DEF Register
<1>4. ASSUME NEW s \in Subs, StartWatch(s) PROVE Where'
  BY <1>4 DEF StartWatch, RunWatch
<1>5. ASSUME NEW p \in Loaders, Load(p) PROVE Where'
  BY <1>5 DEF Load
<1>6. ASSUME NEW p \in Loaders, HandleChanges(p) PROVE Where'
  BY <1>6 DEF HandleChanges, Change
<1>7. ASSUME NEW w \in Watchers, WatchResponse(w) \/ CopyListeners(w) PROVE Where'
  BY <1>7 DEF WatchResponse, CopyListeners
<1>8. ASSUME NEW w \in Watchers, ApplyEvent(w) PROVE Where'
  BY <1>8 DEF ApplyEvent
<1>9. ASSUME NEW w \in Watchers, WatchDone(w) PROVE Where'
  BY <1>9 DEF WatchDone
<1>10. ASSUME Disconnect PROVE Where'
  BY <1>10 DEF Disconnect
<1>11. ASSUME NEW r \in Reloaders, Reconnect(r) PROVE Where'
  BY <1>11 DEF Reconnect, Ready
<1>12. ASSUME NEW r \in Reloaders, Reload(r) PROVE Where'
  BY <1>12 DEF Reload
<1>13. ASSUME NEW r \in Reloaders, Reloaded(r) PROVE Where'
  BY <1>13 DEF Reloaded
<1>14. ASSUME NEW r \in Reloaders, Restart(r) PROVE Where'
  BY <1>14 DEF Restart
<1> HIDE DEF Where
<1>15. ASSUME NEW kv \in Puts, EtcdPut(kv[1], kv[2]) PROVE Where'
  BY <1>1, <1>15 DEF EtcdPut
<1>16. ASSUME NEW k \in Keys, EtcdDelete(k) PROVE Where'
  BY <1>1, <1>16 DEF EtcdDelete
<1>17. ASSUME NEW p \in Loaders, NotifyAdd(p) \/ NotifyDelete(p) PROVE Where'
  BY <1>1, <1>17 DEF NotifyAdd, NotifyDelete
<1>18. ASSUME NEW w \in Watchers, WatchFailure(w) PROVE Where'
  BY <1>1, <1>18 DEF WatchFailure
<1>19. CASE UNCHANGED vars
  BY <1>1, <1>19 DEF vars
<1> QED
  BY <1>2, <1>3, <1>4, <1>5, <1>6, <1>7, <1>8, <1>9, <1>10, <1>11, <1>12, <1>13, <1>14,
     <1>15, <1>16, <1>17, <1>18, <1>19 DEF Next

-----------------------------------------------------------------------------
(***************************************************************************)
(* How far everybody is.                                                   *)
(***************************************************************************)
\* What Positions says of one goroutine.
Position(p) ==
    /\ job[p].rev <= job[p].pos /\ job[p].pos <= Len(log)
    /\ pc[p] \in {"received", "apply"} => job[p].pos < job[p].upto /\ job[p].upto <= Len(log)
    /\ pc[p] \in {"changes", "loaded"} => job[p].pos = job[p].rev
    /\ pc[p] = "changes" => job[p].snap = After(log, job[p].rev)

LEMMA PositionsAre ==
    /\ Positions <=> \A p \in Loaders : Position(p)
    /\ Positions' <=> \A p \in Loaders : Position(p)'
BY DEF Positions, Position

\* The rest of the goroutines does not move.
LEMMA SamePosition ==
    ASSUME NEW q, Position(q), UNCHANGED log, job'[q] = job[q], pc'[q] = pc[q]
    PROVE  Position(q)'
BY DEF Position

LEMMA JobNumbers ==
    ASSUME TJob, NEW p \in Loaders
    PROVE  job[p].rev \in Nat /\ job[p].pos \in Nat /\ job[p].upto \in Nat
<1>1. job[p] \in Job
  BY DEF TJob
<1> QED
  BY <1>1 DEF Job, Revs

LEMMA OneMoves ==
    ASSUME Positions, UNCHANGED log, NEW p \in Loaders,
           \A q \in Loaders \ {p} : job'[q] = job[q] /\ pc'[q] = pc[q],
           Position(p)'
    PROVE  Positions'
BY SamePosition, PositionsAre

\* The fields that handleChanges and handleWatchEvents change.
LEMMA ChangeFields ==
    ASSUME Typed, NEW p \in Loaders, HandleChanges(p)
    PROVE  LET new == job[p].snap
               differ == {k \in Keys : new[k] # values[k]}
           IN /\ pc[p] = "changes" /\ values' = new /\ UNCHANGED <<log, listeners, pairs, mapping>>
              /\ Disturb(differ, listeners)
              /\ job'[p].rev = job[p].rev /\ job'[p].pos = job[p].pos /\ job'[p].told = job[p].told
              /\ job'[p].snap = Nothing
              /\ job'[p].adds = AddCalls(new, differ \cap Present(new), listeners)
              /\ job'[p].removes = (differ \cap Present(values)) \X listeners
              /\ pc'[p] \in {"loaded", "stream"}
              /\ \A q \in Loaders \ {p} : job'[q] = job[q] /\ pc'[q] = pc[q]
              /\ \A r \in Reloaders : pc'[r] = pc[r]
<1> DEFINE new == job[p].snap
           differ == {k \in Keys : new[k] # values[k]}
           adds == AddCalls(new, differ \cap Present(new), listeners)
           removes == (differ \cap Present(values)) \X listeners
<1>1. /\ pc[p] = "changes" /\ values' = new /\ UNCHANGED <<log, listeners, pairs, mapping>>
      /\ Disturb(differ, listeners)
      /\ job' = [job EXCEPT ![p].snap = Nothing, ![p].adds = adds, ![p].removes = removes]
      /\ pc' = [pc EXCEPT ![p] = IF p \in Subs THEN "loaded" ELSE "stream"]
  BY DEF HandleChanges, Change, At, containers
<1>2. job \in [Loaders -> Job] /\ pc \in [Loaders \cup Reloaders -> Places] /\ p \notin Reloaders
  BY LockAssumption DEF Typed, TJob, TPc, Loaders
<1> HIDE DEF new, differ, adds, removes
<1>3. /\ job'[p].rev = job[p].rev /\ job'[p].pos = job[p].pos /\ job'[p].told = job[p].told
      /\ job'[p].snap = Nothing /\ job'[p].adds = adds /\ job'[p].removes = removes
      /\ \A q \in Loaders \ {p} : job'[q] = job[q]
  BY <1>1, <1>2 DEF Job
<1>4. /\ pc'[p] \in {"loaded", "stream"}
      /\ \A q \in Loaders \ {p} : pc'[q] = pc[q]
      /\ \A r \in Reloaders : pc'[r] = pc[r]
  BY <1>1, <1>2
<1> QED
  BY <1>1, <1>3, <1>4 DEF new, differ, adds, removes

LEMMA ApplyFields ==
    ASSUME Typed, NEW w \in Watchers, ApplyEvent(w)
    PROVE  LET ev == log[job[w].pos + 1]
               put == ev.val # NoVal
               last == job[w].pos + 1 = job[w].upto
               told == job[w].told
           IN /\ pc[w] = "apply" /\ values' = [values EXCEPT ![ev.key] = ev.val]
              /\ UNCHANGED <<log, listeners, pairs, mapping>>
              /\ Notified(w) /\ Disturb({ev.key}, told)
              /\ job'[w].rev = job[w].rev /\ job'[w].pos = job[w].pos + 1
              /\ job'[w].upto = IF last THEN 0 ELSE job[w].upto
              /\ job'[w].snap = job[w].snap
              /\ job'[w].told = IF last THEN {} ELSE told
              /\ job'[w].adds = IF put THEN {<<ev.key, ev.val, s>> : s \in told} ELSE {}
              /\ job'[w].removes = IF put THEN {} ELSE {ev.key} \X told
              /\ pc'[w] = IF last THEN "stream" ELSE "apply"
              /\ \A q \in Loaders \ {w} : job'[q] = job[q] /\ pc'[q] = pc[q]
              /\ \A r \in Reloaders : pc'[r] = pc[r]
<1> DEFINE n == job[w].pos + 1
           ev == log[n]
           put == ev.val # NoVal
           last == n = job[w].upto
           told == job[w].told
           upto == IF last THEN 0 ELSE job[w].upto
           still == IF last THEN {} ELSE told
           adds == IF put THEN {<<ev.key, ev.val, s>> : s \in told} ELSE {}
           removes == IF put THEN {} ELSE {ev.key} \X told
           go == IF last THEN "stream" ELSE "apply"
<1>1. /\ pc[w] = "apply" /\ values' = [values EXCEPT ![ev.key] = ev.val]
      /\ UNCHANGED <<log, listeners, pairs, mapping>>
      /\ Notified(w) /\ Disturb({ev.key}, told)
      /\ job' = [job EXCEPT ![w].pos = n, ![w].upto = upto, ![w].told = still,
                            ![w].adds = adds, ![w].removes = removes]
      /\ pc' = [pc EXCEPT ![w] = go]
  BY DEF ApplyEvent, At, containers
<1>2. /\ job \in [Loaders -> Job] /\ pc \in [Loaders \cup Reloaders -> Places]
      /\ w \notin Reloaders /\ w \in Loaders
  BY LockAssumption DEF Typed, TJob, TPc, Loaders
<1> HIDE DEF n, ev, told, upto, still, adds, removes, go
<1>3. /\ job'[w].rev = job[w].rev /\ job'[w].pos = n /\ job'[w].upto = upto
      /\ job'[w].snap = job[w].snap
      /\ job'[w].told = still /\ job'[w].adds = adds /\ job'[w].removes = removes
      /\ \A q \in Loaders \ {w} : job'[q] = job[q]
  BY <1>1, <1>2 DEF Job
<1>4. /\ pc'[w] = go
      /\ \A q \in Loaders \ {w} : pc'[q] = pc[q]
      /\ \A r \in Reloaders : pc'[r] = pc[r]
  BY <1>1, <1>2
<1> QED
  BY <1>1, <1>3, <1>4 DEF n, ev, told, upto, still, adds, removes, go

LEMMA PositionsKept ==
    ASSUME Typed, Where, Positions, [Next]_vars
    PROVE  Positions'
<1>0. /\ pc \in [Loaders \cup Reloaders -> Places] /\ job \in [Loaders -> Job] /\ TJob
      /\ Subs \cap Watchers = {} /\ Reloaders \cap Loaders = {}
      /\ Subs \subseteq Loaders /\ Watchers \subseteq Loaders /\ Loaders = Subs \cup Watchers
  BY SubsAssumption, LockAssumption DEF Typed, TPc, TJob, Loaders
<1>a. Len(log) \in Nat /\ log \in Seq(Event)
  BY LogFacts
<1>b. /\ \A p \in Loaders : job[p].rev \in Nat /\ job[p].pos \in Nat /\ job[p].upto \in Nat
      /\ \A p \in Loaders : Position(p)
  BY <1>0, JobNumbers, PositionsAre
<1> USE <1>0 DEF conn, watching, cache, containers
<1>1. ASSUME NEW e \in Event, log' = Append(log, e), UNCHANGED <<pc, job>> PROVE Positions'
  <2>1. Len(log') = Len(log) + 1 /\ \A r \in 0 .. Len(log) : After(log', r) = After(log, r)
    BY <1>1, <1>a, StoreGrows
  <2>2. ASSUME NEW p \in Loaders PROVE Position(p)'
    <3>1. /\ job'[p] = job[p] /\ pc'[p] = pc[p] /\ job[p].rev \in 0 .. Len(log)
      BY <1>1, <1>a, <1>b DEF Position
    <3> QED
      BY <1>a, <1>b, <2>1, <3>1 DEF Position
  <2> QED
    BY <2>2, PositionsAre
<1>2. ASSUME NEW kv \in Puts, EtcdPut(kv[1], kv[2]) PROVE Positions'
  <2>1. [key |-> kv[1], val |-> kv[2]] \in Event
    BY PutsAssumption DEF Event
  <2> QED
    BY <1>1, <1>2, <2>1 DEF EtcdPut
<1>3. ASSUME NEW k \in Keys, EtcdDelete(k) PROVE Positions'
  <2>1. [key |-> k, val |-> NoVal] \in Event
    BY DEF Event
  <2> QED
    BY <1>1, <1>3, <2>1 DEF EtcdDelete
<1>4. ASSUME UNCHANGED log, \A q \in Loaders : job'[q] = job[q] /\ pc'[q] = pc[q]
      PROVE  Positions'
  BY <1>4, <1>b, SamePosition, PositionsAre
<1>5. ASSUME NEW s \in Subs, Monitor(s) PROVE Positions'
  <2>1. Position(s)'
    BY <1>5, <1>b DEF Monitor, At, Position
  <2> QED
    BY OneMoves, <1>5, <2>1 DEF Monitor, At
<1>6. ASSUME NEW s \in Subs, Register(s) PROVE Positions'
  <2>1. Position(s)'
    BY <1>6, <1>b DEF Register, At, Position
  <2> QED
    BY OneMoves, <1>6, <2>1 DEF Register, At
<1>7. ASSUME NEW s \in Subs, StartWatch(s) PROVE Positions'
  <2>1. PICK w \in Watchers :
            /\ pc' = [pc EXCEPT ![s] = "done", ![w] = "stream"]
            /\ job' = [job EXCEPT ![w] = [NoJob EXCEPT !.rev = job[s].rev, !.pos = job[s].rev],
                                  ![s] = NoJob]
            /\ UNCHANGED log /\ pc[s] = "loaded"
    BY <1>7 DEF StartWatch, RunWatch
  <2>2. Position(s)'
    BY <1>a, <2>1, NoJobFacts DEF Position
  <2>3. job'[w].rev = job[s].rev /\ job'[w].pos = job[s].rev /\ pc'[w] = "stream"
    BY <2>1, NoJobFacts DEF Job
  <2>4. Position(w)'
    BY <1>a, <1>b, <2>1, <2>3 DEF Position
  <2> QED
    BY <1>b, <2>1, <2>2, <2>4, SamePosition, PositionsAre
<1>8. ASSUME NEW p \in Loaders, Load(p) PROVE Positions'
  <2>1. /\ job'[p].rev = Len(log) /\ job'[p].pos = Len(log) /\ job'[p].snap = Current
        /\ pc'[p] = "changes" /\ UNCHANGED log
        /\ \A q \in Loaders \ {p} : job'[q] = job[q] /\ pc'[q] = pc[q]
    BY <1>8 DEF Load, At, Job
  <2>2. Position(p)'
    BY <1>a, <2>1 DEF Position, Store, Current, After
  <2> QED
    BY OneMoves, <2>1, <2>2
<1>9. ASSUME NEW p \in Loaders, HandleChanges(p) PROVE Positions'
  <2>1. /\ job'[p].rev = job[p].rev /\ job'[p].pos = job[p].pos /\ pc[p] = "changes"
        /\ pc'[p] \in {"loaded", "stream"} /\ UNCHANGED log
        /\ \A q \in Loaders \ {p} : job'[q] = job[q] /\ pc'[q] = pc[q]
    BY <1>9, ChangeFields
  <2>2. Position(p)'
    BY <1>b, <2>1 DEF Position
  <2> QED
    BY OneMoves, <2>1, <2>2
<1>10. ASSUME NEW p \in Loaders, NotifyAdd(p) \/ NotifyDelete(p) PROVE Positions'
  <2>1. /\ job'[p].rev = job[p].rev /\ job'[p].pos = job[p].pos /\ job'[p].upto = job[p].upto
        /\ job'[p].snap = job[p].snap /\ UNCHANGED <<pc, log>>
        /\ \A q \in Loaders \ {p} : job'[q] = job[q]
    BY <1>10 DEF NotifyAdd, NotifyDelete, Job
  <2>2. Position(p)'
    BY <1>b, <2>1 DEF Position
  <2> QED
    BY OneMoves, <2>1, <2>2
<1>11. ASSUME NEW w \in Watchers, WatchResponse(w) PROVE Positions'
  <2>1. PICK n \in job[w].pos + 1 .. Len(log) : job' = [job EXCEPT ![w].upto = n]
    BY <1>11 DEF WatchResponse
  <2>2. /\ job'[w].rev = job[w].rev /\ job'[w].pos = job[w].pos /\ job'[w].upto = n
        /\ \A q \in Loaders \ {w} : job'[q] = job[q]
    BY <2>1 DEF Job
  <2>3. pc'[w] = "received" /\ UNCHANGED log /\ \A q \in Loaders \ {w} : pc'[q] = pc[q]
    BY <1>11 DEF WatchResponse, At
  <2>4. Position(w)'
    BY <1>a, <1>b, <2>2, <2>3 DEF Position
  <2> QED
    BY OneMoves, <2>2, <2>3, <2>4
<1>12. ASSUME NEW w \in Watchers, WatchFailure(w) PROVE Positions'
  <2>1. /\ job'[w].rev = job[w].rev /\ job'[w].pos = job[w].rev /\ pc[w] = "stream"
        /\ UNCHANGED <<pc, log>>
        /\ \A q \in Loaders \ {w} : job'[q] = job[q]
    BY <1>12 DEF WatchFailure, Job
  <2>2. Position(w)'
    BY <1>a, <1>b, <2>1 DEF Position
  <2> QED
    BY OneMoves, <2>1, <2>2
<1>13. ASSUME NEW w \in Watchers, WatchDone(w) PROVE Positions'
  <2>1. /\ job'[w] = NoJob /\ pc'[w] = "idle" /\ UNCHANGED log
        /\ \A q \in Loaders \ {w} : job'[q] = job[q] /\ pc'[q] = pc[q]
    BY <1>13 DEF WatchDone, At
  <2>2. Position(w)'
    BY <1>a, <2>1, NoJobFacts DEF Position
  <2> QED
    BY OneMoves, <2>1, <2>2
<1>14. ASSUME NEW w \in Watchers, CopyListeners(w) PROVE Positions'
  <2>1. /\ job'[w].rev = job[w].rev /\ job'[w].pos = job[w].pos /\ job'[w].upto = job[w].upto
        /\ pc[w] = "received" /\ pc'[w] = "apply" /\ UNCHANGED log
        /\ \A q \in Loaders \ {w} : job'[q] = job[q] /\ pc'[q] = pc[q]
    BY <1>14 DEF CopyListeners, At, Job
  <2>2. Position(w)'
    BY <1>b, <2>1 DEF Position
  <2> QED
    BY OneMoves, <2>1, <2>2
<1>15. ASSUME NEW w \in Watchers, ApplyEvent(w) PROVE Positions'
  <2> DEFINE last == job[w].pos + 1 = job[w].upto
  <2>1. /\ job'[w].rev = job[w].rev /\ job'[w].pos = job[w].pos + 1
        /\ job'[w].upto = IF last THEN 0 ELSE job[w].upto
        /\ \A q \in Loaders \ {w} : job'[q] = job[q]
    BY <1>15, ApplyFields
  <2>2. /\ pc[w] = "apply" /\ UNCHANGED log /\ pc'[w] = IF last THEN "stream" ELSE "apply"
        /\ \A q \in Loaders \ {w} : pc'[q] = pc[q]
    BY <1>15, ApplyFields
  <2>3. Position(w)'
    <3>1. CASE last
      BY <1>a, <1>b, <2>1, <2>2, <3>1 DEF Position
    <3>2. CASE ~last
      BY <1>a, <1>b, <2>1, <2>2, <3>2 DEF Position
    <3> QED
      BY <3>1, <3>2
  <2> QED
    BY OneMoves, <2>1, <2>2, <2>3
<1>16. CASE Disconnect
  BY <1>16, <1>4 DEF Disconnect
<1>17. ASSUME NEW r \in Reloaders, Reconnect(r) \/ Reload(r) \/ Reloaded(r) PROVE Positions'
  BY <1>17, <1>4 DEF Reconnect, Ready, Reload, Reloaded, At
<1>18. ASSUME NEW r \in Reloaders, Restart(r) PROVE Positions'
  <2>1. PICK w \in Watchers : pc[w] = "idle" /\ pc' = [pc EXCEPT ![r] = "idle", ![w] = "load"]
    BY <1>18 DEF Restart
  <2>2. UNCHANGED <<log, job>>
    BY <1>18 DEF Restart
  <2>3. Position(w)'
    BY <1>b, <2>1, <2>2 DEF Position
  <2> QED
    BY OneMoves, <2>1, <2>2, <2>3
<1>19. CASE UNCHANGED vars
  BY <1>19, <1>4 DEF vars
<1> QED
  BY <1>2, <1>3, <1>5, <1>6, <1>7, <1>8, <1>9, <1>10, <1>11, <1>12, <1>13, <1>14, <1>15, <1>16,
     <1>17, <1>18, <1>19 DEF Next

-----------------------------------------------------------------------------
(***************************************************************************)
(* The registry's cache.                                                   *)
(***************************************************************************)
CacheOn(k) ==
    \/ values[k] = Current[k]
    \/ Loading
    \/ \A p \in Loaders : ~Live(p)
    \/ \E p \in Loaders : Live(p) /\ Behind(p, k)

LEMMA CacheInvIs ==
    /\ CacheInv <=> \A k \in Keys : CacheOn(k)
    /\ CacheInv' <=> \A k \in Keys : CacheOn(k)'
BY DEF CacheInv, CacheOn

LEMMA LoadsOn == Loading' => CacheInv'
BY DEF CacheInv

\* A step that touches neither etcd nor c.values, after which the same goroutines
\* load and watch, from no later a position.
LEMMA CacheSame ==
    ASSUME TJob, CacheInv, UNCHANGED <<log, values>>, Len(log) \in Nat,
           Loading => Loading',
           \A p \in Loaders : Live(p)' <=> Live(p),
           \A p \in Loaders : Live(p) => job'[p].pos \in Nat /\ job'[p].pos <= job[p].pos
    PROVE  CacheInv'
<1>1. ASSUME NEW k \in Keys PROVE CacheOn(k)'
  <2>1. values'[k] = values[k] /\ Current'[k] = Current[k]
    BY DEF Current, Store
  <2>2. ASSUME NEW p \in Loaders, Live(p), Behind(p, k) PROVE Behind(p, k)'
    BY <2>2, JobNumbers DEF Behind
  <2>3. CacheOn(k)
    BY CacheInvIs
  <2>4. CASE \E p \in Loaders : Live(p) /\ Behind(p, k)
    BY <2>2, <2>4 DEF CacheOn
  <2>5. CASE \A p \in Loaders : ~Live(p)
    BY <2>5 DEF CacheOn
  <2> QED
    BY <2>1, <2>3, <2>4, <2>5 DEF CacheOn
<1> QED
  BY <1>1, CacheInvIs

\* Another event: whoever watches has yet to handle it.
LEMMA CacheEtcd ==
    ASSUME Typed, Positions, CacheInv, NEW e \in Event, log' = Append(log, e),
           UNCHANGED <<pc, job, values>>
    PROVE  CacheInv'
<1>1. /\ Len(log) \in Nat /\ log \in Seq(Event) /\ TJob
  BY LogFacts DEF Typed
<1>2. /\ Len(log') = Len(log) + 1 /\ log'[Len(log) + 1] = e
      /\ \A i \in 1 .. Len(log) : log'[i] = log[i]
      /\ \A k \in Keys : Current'[k] = IF k = e.key THEN e.val ELSE Current[k]
  BY <1>1, StoreGrows
<1>3. \A p \in Loaders : job[p].pos \in Nat /\ job[p].pos <= Len(log)
  BY <1>1, JobNumbers DEF Positions
<1>4. Loading' <=> Loading
  BY DEF Loading
<1>5. \A p \in Loaders : Live(p)' <=> Live(p)
  BY DEF Live
<1>6. ASSUME NEW k \in Keys PROVE CacheOn(k)'
  <2>1. ASSUME NEW p \in Loaders, Behind(p, k) \/ k = e.key PROVE Behind(p, k)'
    BY <1>1, <1>2, <1>3, <2>1 DEF Behind
  <2>2. CacheOn(k)
    BY CacheInvIs
  <2>3. CASE k = e.key
    BY <1>5, <2>1, <2>3 DEF CacheOn
  <2>4. CASE k # e.key
    <3>1. Current'[k] = Current[k]
      BY <1>2, <2>4
    <3> QED
      BY <1>4, <1>5, <2>1, <2>2, <3>1 DEF CacheOn
  <2> QED
    BY <2>3, <2>4
<1> QED
  BY <1>6, CacheInvIs

LEMMA CacheHandled ==
    ASSUME Typed, Positions, CacheInv, NEW p \in Loaders, HandleChanges(p)
    PROVE  CacheInv'
<1>1. /\ pc[p] = "changes" /\ values' = job[p].snap /\ UNCHANGED log
      /\ job'[p].pos = job[p].pos /\ pc'[p] \in {"loaded", "stream"}
  BY ChangeFields
<1>2. /\ Len(log) \in Nat /\ job[p].pos \in Nat /\ job[p].pos <= Len(log)
      /\ values' = After(log, job[p].pos)
  BY <1>1, LogFacts, JobNumbers DEF Positions, Typed
<1>3. Live(p)'
  BY <1>1 DEF Live
<1>4. ASSUME NEW k \in Keys PROVE CacheOn(k)'
  <2>1. CASE Behind(p, k)
    <3>1. Behind(p, k)'
      BY <1>1, <2>1 DEF Behind
    <3> QED
      BY <1>3, <3>1 DEF CacheOn
  <2>2. CASE ~Behind(p, k)
    <3>1. \A i \in (job[p].pos + 1) .. Len(log) : log[i].key # k
      BY <2>2 DEF Behind
    <3>a. job[p].pos \in 0 .. Len(log)
      BY <1>2
    <3>2. After(log, job[p].pos)[k] = After(log, Len(log))[k]
      BY <1>2, <3>a, <3>1, AfterSame
    <3>3. Current' = After(log, Len(log))
      BY <1>1, StoreIsAfter
    <3> QED
      BY <1>2, <3>2, <3>3 DEF CacheOn
  <2> QED
    BY <2>1, <2>2
<1> QED
  BY <1>4, CacheInvIs

LEMMA CacheApplied ==
    ASSUME Typed, Positions, CacheInv, NEW w \in Watchers, ApplyEvent(w)
    PROVE  CacheInv'
<1> DEFINE n == job[w].pos + 1
<1>0. w \in Loaders
  BY DEF Loaders
<1>1. /\ pc[w] = "apply" /\ values' = [values EXCEPT ![log[n].key] = log[n].val]
      /\ UNCHANGED log
      /\ job'[w].pos = n /\ pc'[w] \in {"stream", "apply"}
      /\ \A q \in Loaders \ {w} : job'[q] = job[q] /\ pc'[q] = pc[q]
      /\ \A r \in Reloaders : pc'[r] = pc[r]
  BY ApplyFields
<1>2. /\ Len(log) \in Nat /\ n \in 1 .. Len(log) /\ values \in [Keys -> Vals \cup {NoVal}]
  <2>1. job[w].pos \in Nat /\ job[w].upto \in Nat
    BY <1>0, JobNumbers DEF Typed
  <2>2. job[w].pos < job[w].upto /\ job[w].upto <= Len(log)
    BY <1>0, <1>1 DEF Positions
  <2> QED
    BY <2>1, <2>2, LogFacts DEF Typed, TCore, Contents
<1>3. Live(w) /\ Live(w)' /\ \A q \in Loaders : Live(q)' <=> Live(q)
  BY <1>0, <1>1 DEF Live
<1>4. Loading => Loading'
  BY <1>0, <1>1 DEF Loading
<1> HIDE DEF n
<1>5. ASSUME NEW k \in Keys PROVE CacheOn(k)'
  <2>1. Current'[k] = Current[k] /\ Current' = After(log, Len(log))
    BY <1>1, StoreIsAfter
  <2>2. CASE Behind(w, k)'
    BY <1>0, <1>3, <2>2 DEF CacheOn
  <2>3. CASE ~Behind(w, k)' /\ log[n].key = k
    <3>1. \A i \in (n + 1) .. Len(log) : log[i].key # k
      BY <1>1, <2>3 DEF Behind
    <3>2. After(log, Len(log))[k] = log[n].val
      BY <1>2, <2>3, <3>1, AfterLast
    <3>3. values'[k] = log[n].val
      BY <1>1, <1>2, <2>3
    <3> QED
      BY <2>1, <3>2, <3>3 DEF CacheOn
  <2>4. CASE ~Behind(w, k)' /\ log[n].key # k
    <3>1. values'[k] = values[k]
      BY <1>1, <1>2, <2>4
    <3>2. ~Behind(w, k)
      <4>1. job[w].pos \in Nat /\ n = job[w].pos + 1
        BY <1>0, JobNumbers DEF n, Typed
      <4> QED
        BY <1>1, <1>2, <2>4, <4>1 DEF Behind
    <3>3. \A q \in Loaders \ {w} : Behind(q, k) => Behind(q, k)'
      BY <1>1 DEF Behind
    <3>4. CacheOn(k)
      BY CacheInvIs
    <3> QED
      BY <1>0, <1>3, <1>4, <2>1, <3>1, <3>2, <3>3, <3>4 DEF CacheOn
  <2> QED
    BY <2>2, <2>3, <2>4
<1> QED
  BY <1>5, CacheInvIs

\* The watch goroutine takes over from the Monitor call that started it.
LEMMA CacheWatched ==
    ASSUME Typed, Positions, CacheInv, NEW s \in Subs, StartWatch(s)
    PROVE  CacheInv'
<1>1. PICK w \in Watchers :
          /\ pc[w] = "idle" /\ pc' = [pc EXCEPT ![s] = "done", ![w] = "stream"]
          /\ job' = [job EXCEPT ![w] = [NoJob EXCEPT !.rev = job[s].rev, !.pos = job[s].rev],
                                ![s] = NoJob]
  BY DEF StartWatch, RunWatch
<1>2. pc[s] = "loaded" /\ UNCHANGED <<log, values>>
  BY DEF StartWatch, RunWatch, cache
<1>3. /\ s \in Loaders /\ w \in Loaders /\ s # w /\ job \in [Loaders -> Job] /\ TJob
      /\ pc \in [Loaders \cup Reloaders -> Places] /\ Reloaders \cap Loaders = {}
  BY SubsAssumption, LockAssumption DEF Loaders, Typed, TJob, TPc
<1>4. /\ pc'[s] = "done" /\ pc'[w] = "stream"
      /\ \A q \in Loaders \ {s, w} : pc'[q] = pc[q] /\ job'[q] = job[q]
      /\ \A r \in Reloaders : pc'[r] = pc[r]
  BY <1>1, <1>3
<1>5. job'[w].pos = job[s].rev
  BY <1>1, <1>3, NoJobFacts DEF Job
<1>6. job[s].pos = job[s].rev
  BY <1>2, <1>3 DEF Positions
<1>7. Loading => Loading'
  BY <1>1, <1>2, <1>3, <1>4 DEF Loading
<1>8. Live(w)' /\ ~Live(w) /\ Live(s)
  BY <1>1, <1>2, <1>4 DEF Live
<1>9. ASSUME NEW k \in Keys PROVE CacheOn(k)'
  <2>1. values'[k] = values[k] /\ Current'[k] = Current[k]
    BY <1>2 DEF Current, Store
  <2>2. CacheOn(k)
    BY CacheInvIs
  <2>3. ASSUME NEW p \in Loaders, Live(p), Behind(p, k) PROVE CacheOn(k)'
    <3>1. CASE p = s
      <4>1. Behind(w, k)'
        BY <1>2, <1>5, <1>6, <2>3, <3>1 DEF Behind
      <4> QED
        BY <1>3, <1>8, <4>1 DEF CacheOn
    <3>2. CASE p # s
      <4>1. p # w
        BY <1>8, <2>3
      <4>2. Live(p)' /\ Behind(p, k)'
        BY <1>2, <1>4, <2>3, <3>2, <4>1 DEF Live, Behind
      <4> QED
        BY <4>2 DEF CacheOn
    <3> QED
      BY <3>1, <3>2
  <2>4. ~(\A p \in Loaders : ~Live(p))
    BY <1>3, <1>8
  <2> QED
    BY <1>7, <2>1, <2>2, <2>3, <2>4 DEF CacheOn
<1> QED
  BY <1>9, CacheInvIs

LEMMA CacheKept ==
    ASSUME Typed, Where, Positions, CacheInv, [Next]_vars
    PROVE  CacheInv'
<1>0. /\ pc \in [Loaders \cup Reloaders -> Places] /\ job \in [Loaders -> Job] /\ TJob
      /\ Subs \cap Watchers = {} /\ Reloaders \cap Loaders = {}
      /\ Subs \subseteq Loaders /\ Watchers \subseteq Loaders /\ Loaders = Subs \cup Watchers
  BY SubsAssumption, LockAssumption DEF Typed, TPc, TJob, Loaders
<1>a. Len(log) \in Nat
  BY LogFacts
<1>b. \A p \in Loaders : job[p].rev \in Nat /\ job[p].pos \in Nat /\ job[p].rev <= job[p].pos
  BY <1>0, JobNumbers DEF Positions
<1>c. ASSUME UNCHANGED <<log, values, pc>>,
             \A q \in Loaders : job'[q].pos \in Nat /\ job'[q].pos <= job[q].pos
      PROVE  CacheInv'
  <2>1. (Loading => Loading') /\ \A p \in Loaders : Live(p)' <=> Live(p)
    BY <1>c DEF Loading, Live
  <2> QED
    BY <1>0, <1>a, <1>c, <2>1, CacheSame
<1> USE <1>0 DEF conn, watching, cache, containers
<1>1. ASSUME NEW kv \in Puts, EtcdPut(kv[1], kv[2]) PROVE CacheInv'
  <2>1. [key |-> kv[1], val |-> kv[2]] \in Event
    BY PutsAssumption DEF Event
  <2> QED
    BY <1>1, <2>1, CacheEtcd DEF EtcdPut
<1>2. ASSUME NEW k \in Keys, EtcdDelete(k) PROVE CacheInv'
  <2>1. [key |-> k, val |-> NoVal] \in Event
    BY DEF Event
  <2> QED
    BY <1>2, <2>1, CacheEtcd DEF EtcdDelete
<1>3. ASSUME NEW s \in Subs, Monitor(s) PROVE CacheInv'
  <2>1. /\ pc[s] = "new" /\ pc' = [pc EXCEPT ![s] = "current"] /\ UNCHANGED <<log, values>>
        /\ \A q \in Loaders : job'[q].pos = job[q].pos
    BY <1>3 DEF Monitor, At, Job
  <2>2. (Loading => Loading') /\ \A p \in Loaders : Live(p)' <=> Live(p)
    BY <2>1 DEF Loading, Live
  <2> QED
    BY <1>a, <1>b, <2>1, <2>2, CacheSame
<1>4. ASSUME NEW s \in Subs, Register(s) PROVE CacheInv'
  <2>1. /\ pc[s] = "current" /\ UNCHANGED <<log, values, job>>
        /\ \E a \in {"load", "failed"} : pc' = [pc EXCEPT ![s] = a]
    BY <1>4 DEF Register, At
  <2>2. (Loading => Loading') /\ \A p \in Loaders : Live(p)' <=> Live(p)
    BY <2>1 DEF Loading, Live
  <2> QED
    BY <1>a, <1>b, <2>1, <2>2, CacheSame
<1>5. ASSUME NEW s \in Subs, StartWatch(s) PROVE CacheInv'
  BY <1>5, CacheWatched
<1>6. ASSUME NEW p \in Loaders, Load(p) PROVE CacheInv'
  <2>1. Loading'
    BY <1>6 DEF Load, At, Loading
  <2> QED
    BY <2>1, LoadsOn
<1>7. ASSUME NEW p \in Loaders, HandleChanges(p) PROVE CacheInv'
  BY <1>7, CacheHandled
<1>8. ASSUME NEW p \in Loaders, NotifyAdd(p) \/ NotifyDelete(p) PROVE CacheInv'
  <2>1. UNCHANGED <<log, values, pc>> /\ \A q \in Loaders : job'[q].pos = job[q].pos
    BY <1>8 DEF NotifyAdd, NotifyDelete, Job
  <2> QED
    BY <1>b, <1>c, <2>1
<1>9. ASSUME NEW w \in Watchers, WatchResponse(w) PROVE CacheInv'
  <2>1. PICK n \in job[w].pos + 1 .. Len(log) : job' = [job EXCEPT ![w].upto = n]
    BY <1>9 DEF WatchResponse
  <2>2. \A q \in Loaders : job'[q].pos = job[q].pos
    BY <2>1 DEF Job
  <2>3. pc[w] = "stream" /\ pc' = [pc EXCEPT ![w] = "received"] /\ UNCHANGED <<log, values>>
    BY <1>9 DEF WatchResponse, At
  <2>4. (Loading => Loading') /\ \A p \in Loaders : Live(p)' <=> Live(p)
    BY <2>3 DEF Loading, Live
  <2> QED
    BY <1>a, <1>b, <2>2, <2>3, <2>4, CacheSame
<1>10. ASSUME NEW w \in Watchers, WatchFailure(w) PROVE CacheInv'
  <2>1. /\ job'[w].pos = job[w].rev /\ UNCHANGED <<log, values, pc>>
        /\ \A q \in Loaders \ {w} : job'[q] = job[q]
    BY <1>10 DEF WatchFailure, Job
  <2> QED
    BY <1>b, <1>c, <2>1
<1>11. ASSUME NEW w \in Watchers, WatchDone(w) PROVE CacheInv'
  <2>1. lock # Unlocked /\ lock \in Reloaders \cup {Unlocked}
    BY <1>11 DEF WatchDone, Where, Typed, TCore
  <2>2. lock \in Reloaders /\ pc[lock] = "wait"
    BY <2>1 DEF Where
  <2>3. pc'[lock] = "wait"
    BY <1>11, <2>2 DEF WatchDone, At
  <2> QED
    BY <2>2, <2>3, LoadsOn DEF Loading
<1>12. ASSUME NEW w \in Watchers, CopyListeners(w) PROVE CacheInv'
  <2>1. /\ pc[w] = "received" /\ pc' = [pc EXCEPT ![w] = "apply"] /\ UNCHANGED <<log, values>>
        /\ \A q \in Loaders : job'[q].pos = job[q].pos
    BY <1>12 DEF CopyListeners, At, Job
  <2>2. (Loading => Loading') /\ \A p \in Loaders : Live(p)' <=> Live(p)
    BY <2>1 DEF Loading, Live
  <2> QED
    BY <1>a, <1>b, <2>1, <2>2, CacheSame
<1>13. ASSUME NEW w \in Watchers, ApplyEvent(w) PROVE CacheInv'
  BY <1>13, CacheApplied
<1>14. CASE Disconnect
  BY <1>14, <1>b, <1>c DEF Disconnect
<1>15. ASSUME NEW r \in Reloaders, Reconnect(r) \/ Reload(r) PROVE CacheInv'
  <2>1. /\ pc[r] \in {"idle", "reload"} /\ UNCHANGED <<log, values, job>>
        /\ \A q \in Loaders \cup Reloaders : q # r => pc'[q] = pc[q]
    BY <1>15 DEF Reconnect, Ready, Reload, At
  <2>2. (Loading => Loading') /\ \A p \in Loaders : Live(p)' <=> Live(p)
    BY <2>1 DEF Loading, Live
  <2> QED
    BY <1>a, <1>b, <2>1, <2>2, CacheSame
<1>16. ASSUME NEW r \in Reloaders, Reloaded(r) PROVE CacheInv'
  <2>1. CASE listeners # {}
    <3>1. Loading'
      BY <1>16, <2>1 DEF Reloaded, At, Loading
    <3> QED
      BY <3>1, LoadsOn
  <2>2. CASE listeners = {}
    <3>1. /\ group = {} /\ \A q \in Loaders : pc'[q] = pc[q]
      BY <1>16 DEF Reloaded, At
    <3>2. \A p \in Loaders : ~Live(p)'
      BY <2>2, <3>1 DEF Where, Live, SubPc, WatchPc
    <3> QED
      BY <3>2 DEF CacheInv
  <2> QED
    BY <2>1, <2>2
<1>17. ASSUME NEW r \in Reloaders, Restart(r) PROVE CacheInv'
  <2>1. PICK w \in Watchers : pc' = [pc EXCEPT ![r] = "idle", ![w] = "load"]
    BY <1>17 DEF Restart
  <2>2. Loading'
    BY <2>1 DEF Loading
  <2> QED
    BY <2>2, LoadsOn
<1>18. CASE UNCHANGED vars
  BY <1>18, <1>b, <1>c DEF vars
<1> QED
  BY <1>1, <1>2, <1>3, <1>4, <1>5, <1>6, <1>7, <1>8, <1>9, <1>10, <1>11, <1>12, <1>13, <1>14,
     <1>15, <1>16, <1>17, <1>18 DEF Next

-----------------------------------------------------------------------------
(***************************************************************************)
(* The invariant, and what it says once nothing is left to do.             *)
(***************************************************************************)
LEMMA InitInv == Init => IInv
<1> SUFFICES ASSUME Init PROVE IInv
  OBVIOUS
<1>1. /\ log = <<>> /\ Len(log) = 0 /\ values = Nothing /\ job = [p \in Loaders |-> NoJob]
      /\ lock = Unlocked /\ group = {} /\ listeners = {} /\ reconnects = 0
      /\ pc = [p \in Loaders \cup Reloaders |-> IF p \in Subs THEN "new" ELSE "idle"]
      /\ pairs = [s \in Subs |-> {}] /\ mapping = [s \in Subs |-> Nothing]
      /\ disturbed = [s \in Subs |-> {}]
  BY DEF Init
<1>2. Flags
  BY Zenon DEF Init, Flags
<1>3. Typed
  <2>1. TCore
    BY <1>1, NothingFacts, BoundAssumption DEF TCore, Revs
  <2>2. TPc
    BY <1>1 DEF TPc, Places
  <2>3. TJob
    BY <1>1, NoJobFacts DEF TJob
  <2>4. TPairs /\ TTold
    BY <1>1, NothingFacts DEF TPairs, TTold
  <2> QED
    BY <2>1, <2>2, <2>3, <2>4 DEF Typed
<1>4. Current = Nothing
  BY <1>1 DEF Current, Store, Nothing
<1>5. Where
  <2>1. ~doneClosed /\ ~disconnected
    BY DEF Init
  <2> QED
    BY <1>1, <2>1, SubsAssumption, LockAssumption DEF Where, SubPc, WatchPc, ReloadPc, Loaders
<1>6. Positions
  <2>1. ASSUME NEW p \in Loaders
        PROVE  job[p] = NoJob /\ pc[p] \in {"new", "idle"}
    BY <1>1, <2>1
  <2> QED
    BY <1>1, <2>1, NoJobFacts DEF Positions
<1>7. CacheInv
  BY <1>1, <1>4 DEF CacheInv
<1> QED
  BY <1>2, <1>3, <1>4, <1>5, <1>6, <1>7, TypeOKIs, NothingFacts DEF IInv

LEMMA Inductive == IInv /\ [Next]_vars => IInv'
<1> SUFFICES ASSUME IInv, [Next]_vars PROVE IInv'
  OBVIOUS
<1>1. Typed /\ Flags /\ Current \in Contents /\ Where /\ Positions /\ CacheInv
  BY TypeOKIs DEF IInv
<1>2. Typed' /\ Current' \in Contents
  BY <1>1, TypesKept
<1>3. Flags'
  BY <1>1, FlagsKept
<1>4. TypeOK' <=> Typed' /\ Flags'
  BY TypeOKIs, PTL
<1>5. Where' /\ Positions' /\ CacheInv'
  BY <1>1, WhereKept, PositionsKept, CacheKept
<1> QED
  BY <1>2, <1>3, <1>4, <1>5 DEF IInv

LEMMA InvHolds == Spec => []IInv
BY InitInv, Inductive, PTL DEF Spec

\* Nobody who watches is behind, so that the cache is right about every key.
LEMMA QuietCache == IInv => CacheConverges
<1> SUFFICES ASSUME IInv, Quiet PROVE values = Current
  BY DEF CacheConverges
<1>1. Typed /\ Current \in Contents /\ Where /\ Positions /\ CacheInv
  BY TypeOKIs DEF IInv
<1>2. Len(log) \in Nat /\ values \in Contents /\ Loaders = Subs \cup Watchers
  BY <1>1, LogFacts DEF Typed, TCore, Loaders
<1>3. ~Loading
  BY <1>2 DEF Quiet, Loading
<1>4. \E p \in Loaders : Live(p)
  BY <1>2 DEF Quiet, Live
<1>5. ASSUME NEW p \in Loaders, NEW k \in Keys, Live(p) PROVE ~Behind(p, k)
  <2>1. job[p].pos = Len(log)
    BY <1>2, <1>5 DEF Quiet, Live
  <2> QED
    BY <1>2, <2>1 DEF Behind
<1>6. \A k \in Keys : values[k] = Current[k]
  BY <1>1, <1>3, <1>4, <1>5 DEF CacheInv
<1> QED
  BY <1>1, <1>2, <1>6 DEF Contents

\* The state of the registry, its goroutines and its subscribers stays within its
\* types: in particular no goroutine's position leaves etcd's history, and what
\* loads and events put into c.values are contents of the prefix.
THEOREM DiscoveryTypes == Spec => []TypeOK
<1>1. IInv => TypeOK
  BY DEF IInv
<1> QED
  BY <1>1, InvHolds, PTL

\* Once nothing is left to do c.values is what etcd holds, however loads, the
\* events of several watch goroutines, repeated streams and reloads interleaved:
\* for any number of keys, subscribers, watch goroutines and reloads.
THEOREM CacheCatchesUp == Spec => []CacheConverges
BY QuietCache, InvHolds, PTL

-----------------------------------------------------------------------------
(***************************************************************************)
(* What goroutines have yet to tell.                                       *)
(***************************************************************************)
\* etcd's history only grows.
LEMMA PutsStayPut ==
    ASSUME Typed, [Next]_vars
    PROVE  PutsStay
<1>1. ASSUME UNCHANGED log PROVE PutsStay
  BY <1>1 DEF PutsStay, EverPut
<1>2. ASSUME NEW e \in Event, log' = Append(log, e) PROVE PutsStay
  <2>1. /\ Len(log) \in Nat /\ Len(log') = Len(log) + 1
        /\ \A i \in 1 .. Len(log) : log'[i] = log[i]
    BY <1>2, LogFacts, StoreGrows
  <2>2. ASSUME NEW i \in 1 .. Len(log) PROVE i \in 1 .. Len(log') /\ log'[i] = log[i]
    BY <2>1
  <2> QED
    BY <2>2 DEF PutsStay, EverPut
<1>3. ASSUME NEW kv \in Puts, EtcdPut(kv[1], kv[2]) PROVE PutsStay
  <2>1. [key |-> kv[1], val |-> kv[2]] \in Event
    BY PutsAssumption DEF Event
  <2> QED
    BY <1>2, <1>3, <2>1 DEF EtcdPut
<1>4. ASSUME NEW k \in Keys, EtcdDelete(k) PROVE PutsStay
  <2>1. [key |-> k, val |-> NoVal] \in Event
    BY DEF Event
  <2> QED
    BY <1>2, <1>4, <2>1 DEF EtcdDelete
<1>5. (\E kv \in Puts : EtcdPut(kv[1], kv[2])) \/ (\E k \in Keys : EtcdDelete(k)) \/ UNCHANGED log
  BY DEF Next, Monitor, Register, StartWatch, RunWatch, Load, HandleChanges, Change, NotifyAdd,
     NotifyDelete, WatchResponse, WatchFailure, WatchDone, CopyListeners, ApplyEvent, Disconnect,
     Reconnect, Ready, Reload, Reloaded, Restart, vars, cache, conn, watching, containers
<1> QED
  BY <1>1, <1>3, <1>4, <1>5

\* So a key that keeps its value has kept it.
LEMMA KeptBefore ==
    ASSUME PutsStay, NEW k, KeptValue(k)'
    PROVE  KeptValue(k)
BY DEF PutsStay, KeptValue

LEMMA CallsSame ==
    ASSUME PutsStay, NEW q \in Loaders, Calls(q), Published(job'[q].snap),
           \A n \in job'[q].adds : n \in job[q].adds,
           \A n \in job'[q].removes : n \in job[q].removes,
           job'[q].told \subseteq listeners', pc'[q] \notin Talking => Notified(q)',
           \A s \in Subs : pc'[s] = "new" => pc[s] = "new"
    PROVE  Calls(q)'
BY DEF PutsStay, Calls, Published, Telling

\* Everything in etcd's history, and so its contents, was put.
LEMMA StorePublished ==
    ASSUME Len(log) \in Nat
    PROVE  Published(Current)
<1>1. ASSUME NEW k \in Keys, Current[k] # NoVal PROVE <<k, Current[k]>> \in EverPut
  <2> DEFINE on == {i \in 1 .. Len(log) : log[i].key = k}
  <2>1. Current[k] = IF on = {} THEN NoVal ELSE log[Max(on)].val
    BY DEF Current, Store
  <2>2. on # {}
    BY <1>1, <2>1
  <2>3. Max(on) \in on
    BY <2>2, MaxIn
  <2>4. Current[k] = log[Max(on)].val /\ log[Max(on)].key = k /\ Max(on) \in 1 .. Len(log)
    BY <2>1, <2>2, <2>3
  <2> QED
    BY <1>1, <2>4 DEF EverPut
<1> QED
  BY <1>1 DEF Published

LEMMA NothingPublished == Published(Nothing)
BY DEF Published, Nothing

\* A step that makes no call and keeps no change.
Calm ==
    /\ UNCHANGED <<values, pairs, mapping, disturbed>>
    /\ \A q \in Loaders : job'[q].adds = job[q].adds /\ job'[q].removes = job[q].removes
    /\ \A s \in Subs : pc'[s] = "new" <=> pc[s] = "new"

CalmCalls ==
    /\ Calm /\ UNCHANGED log
    /\ \A q \in Loaders :
        /\ Published(job'[q].snap)
        /\ job'[q].told \subseteq listeners'
        /\ pc'[q] \notin Talking => Notified(q)'

\* Among those are the steps that load, register, receive and reload.
LEMMA CalmSteps ==
    ASSUME Typed, CallInv, Where,
           \/ \E s \in Subs : Register(s) \/ StartWatch(s)
           \/ \E p \in Loaders : Load(p)
           \/ \E w \in Watchers : \/ WatchResponse(w) \/ WatchFailure(w) \/ WatchDone(w)
                                  \/ CopyListeners(w)
           \/ Disconnect
           \/ \E r \in Reloaders : Reconnect(r) \/ Reload(r) \/ Reloaded(r) \/ Restart(r)
           \/ UNCHANGED vars
    PROVE  CalmCalls
<1>0. /\ pc \in [Loaders \cup Reloaders -> Places] /\ job \in [Loaders -> Job]
      /\ Subs \cap Watchers = {} /\ Reloaders \cap Loaders = {}
      /\ Subs \subseteq Loaders /\ Watchers \subseteq Loaders /\ Loaders = Subs \cup Watchers
  BY SubsAssumption, LockAssumption DEF Typed, TPc, TJob, Loaders
<1>a. \A q \in Loaders : /\ Published(job[q].snap) /\ job[q].told \subseteq listeners
                         /\ pc[q] \notin Talking => Notified(q)
  BY DEF CallInv, Calls
<1>b. Published(Current) /\ Published(Nothing)
  BY LogFacts, StorePublished, NothingPublished DEF CallInv
<1>c. ASSUME Calm, UNCHANGED <<log, listeners>>, \A q \in Loaders : job'[q] = job[q],
             \A q \in Loaders : pc'[q] \notin Talking => pc[q] \notin Talking \/ Notified(q)
      PROVE  CalmCalls
  BY <1>a, <1>c DEF Notified, CalmCalls
<1> USE <1>0 DEF conn, watching, cache, containers
<1>1. ASSUME NEW s \in Subs, Register(s) PROVE CalmCalls
  <2>1. /\ pc[s] = "current" /\ Notified(s) /\ listeners' = listeners \cup {s}
        /\ UNCHANGED <<log, job, values, pairs, mapping, disturbed>>
        /\ \E a \in {"load", "failed"} : pc' = [pc EXCEPT ![s] = a]
    BY <1>1 DEF Register, At
  <2>2. Calm
    BY <2>1 DEF Calm
  <2>3. \A q \in Loaders : Notified(q)' <=> Notified(q)
    BY <2>1 DEF Notified
  <2> QED
    BY <1>a, <2>1, <2>2, <2>3 DEF CalmCalls
<1>2. ASSUME NEW s \in Subs, StartWatch(s) PROVE CalmCalls
  <2>1. PICK w \in Watchers :
            /\ pc[w] = "idle" /\ pc' = [pc EXCEPT ![s] = "done", ![w] = "stream"]
            /\ job' = [job EXCEPT ![w] = [NoJob EXCEPT !.rev = job[s].rev, !.pos = job[s].rev],
                                  ![s] = NoJob]
    BY <1>2 DEF StartWatch, RunWatch
  <2>2. /\ UNCHANGED <<log, listeners, values, pairs, mapping, disturbed>>
        /\ pc[s] = "loaded" /\ Notified(s)
    BY <1>2 DEF StartWatch, RunWatch
  <2>3. Notified(w)
    BY <1>a, <2>1 DEF Talking
  <2>4. job'[s] = NoJob /\ \A q \in Loaders \ {s, w} : job'[q] = job[q]
    BY <2>1
  <2>5. job'[w].adds = {} /\ job'[w].removes = {} /\ job'[w].told = {} /\ job'[w].snap = Nothing
    BY <2>1, NoJobFacts DEF Job
  <2>6. Calm
    BY <2>1, <2>2, <2>3, <2>4, <2>5, NoJobFacts DEF Calm, Notified
  <2>7. \A q \in Loaders : q # s /\ q # w => pc'[q] = pc[q]
    BY <2>1
  <2> QED
    BY <1>a, <1>b, <2>2, <2>3, <2>4, <2>5, <2>6, <2>7, NoJobFacts DEF Notified, CalmCalls
<1>3. ASSUME NEW p \in Loaders, Load(p) PROVE CalmCalls
  <2>1. /\ job'[p].adds = job[p].adds /\ job'[p].removes = job[p].removes
        /\ job'[p].told = job[p].told /\ job'[p].snap = Current
        /\ \A q \in Loaders \ {p} : job'[q] = job[q]
    <3> DEFINE n == Len(log)
               c == Current
    <3>1. job' = [job EXCEPT ![p].rev = n, ![p].pos = n, ![p].snap = c]
      BY <1>3 DEF Load
    <3> HIDE DEF n, c
    <3>2. /\ job'[p].adds = job[p].adds /\ job'[p].removes = job[p].removes
          /\ job'[p].told = job[p].told /\ job'[p].snap = c
          /\ \A q \in Loaders \ {p} : job'[q] = job[q]
      BY <3>1 DEF Job
    <3> QED
      BY <3>2 DEF c
  <2>2. /\ pc[p] = "load" /\ pc' = [pc EXCEPT ![p] = "changes"]
        /\ UNCHANGED <<log, listeners, values, pairs, mapping, disturbed>>
    BY <1>3 DEF Load, At
  <2>3. Calm
    BY <2>1, <2>2 DEF Calm
  <2>4. pc[p] \notin Talking
    BY <2>2 DEF Talking
  <2> QED
    BY <1>a, <1>b, <2>1, <2>2, <2>3, <2>4 DEF Notified, CalmCalls
<1>4. ASSUME NEW w \in Watchers, WatchResponse(w) PROVE CalmCalls
  <2>1. PICK n \in job[w].pos + 1 .. Len(log) : job' = [job EXCEPT ![w].upto = n]
    BY <1>4 DEF WatchResponse
  <2>2. \A q \in Loaders : /\ job'[q].adds = job[q].adds /\ job'[q].removes = job[q].removes
                           /\ job'[q].told = job[q].told /\ job'[q].snap = job[q].snap
    BY <2>1 DEF Job
  <2>3. /\ pc[w] = "stream" /\ pc' = [pc EXCEPT ![w] = "received"] /\ Notified(w)
        /\ UNCHANGED <<log, listeners, values, pairs, mapping, disturbed>>
    BY <1>4 DEF WatchResponse, At
  <2>4. Calm
    BY <2>2, <2>3 DEF Calm
  <2> QED
    BY <1>a, <2>2, <2>3, <2>4 DEF Notified, CalmCalls
<1>5. ASSUME NEW w \in Watchers, WatchFailure(w) PROVE CalmCalls
  <2>1. \A q \in Loaders : /\ job'[q].adds = job[q].adds /\ job'[q].removes = job[q].removes
                           /\ job'[q].told = job[q].told /\ job'[q].snap = job[q].snap
    BY <1>5 DEF WatchFailure, Job
  <2>2. UNCHANGED <<log, pc, listeners, values, pairs, mapping, disturbed>>
    BY <1>5 DEF WatchFailure
  <2>3. Calm
    BY <2>1, <2>2 DEF Calm
  <2> QED
    BY <1>a, <2>1, <2>2, <2>3 DEF Notified, CalmCalls
<1>6. ASSUME NEW w \in Watchers, WatchDone(w) PROVE CalmCalls
  <2>1. /\ job' = [job EXCEPT ![w] = NoJob] /\ pc' = [pc EXCEPT ![w] = "idle"] /\ Notified(w)
        /\ pc[w] = "stream" /\ UNCHANGED <<log, listeners, values, pairs, mapping, disturbed>>
    BY <1>6 DEF WatchDone, At
  <2>2. job'[w] = NoJob /\ \A q \in Loaders \ {w} : job'[q] = job[q] /\ pc'[q] = pc[q]
    BY <2>1
  <2>3. Calm
    BY <2>1, <2>2, NoJobFacts DEF Calm, Notified
  <2> QED
    BY <1>a, <1>b, <2>1, <2>2, <2>3, NoJobFacts DEF Notified, CalmCalls
<1>7. ASSUME NEW w \in Watchers, CopyListeners(w) PROVE CalmCalls
  <2>1. /\ job'[w].adds = job[w].adds /\ job'[w].removes = job[w].removes
        /\ job'[w].told = listeners /\ job'[w].snap = job[w].snap
        /\ \A q \in Loaders \ {w} : job'[q] = job[q]
    BY <1>7 DEF CopyListeners, Job
  <2>2. /\ pc[w] = "received" /\ pc' = [pc EXCEPT ![w] = "apply"]
        /\ UNCHANGED <<log, listeners, values, pairs, mapping, disturbed>>
    BY <1>7 DEF CopyListeners, At
  <2>3. Calm
    BY <2>1, <2>2 DEF Calm
  <2>4. pc'[w] \in Talking
    BY <2>2 DEF Talking
  <2> QED
    BY <1>a, <2>1, <2>2, <2>3, <2>4 DEF Notified, CalmCalls
<1>8. CASE Disconnect \/ UNCHANGED vars
  <2>1. UNCHANGED <<log, job, pc, listeners, values, pairs, mapping, disturbed>>
    BY <1>8 DEF Disconnect, vars
  <2>2. Calm
    BY <2>1 DEF Calm
  <2> QED
    BY <1>c, <2>1, <2>2
<1>9. ASSUME NEW r \in Reloaders, Reconnect(r) \/ Reload(r) \/ Reloaded(r) PROVE CalmCalls
  <2>1. /\ UNCHANGED <<log, job, listeners, values, pairs, mapping, disturbed>>
        /\ \A q \in Loaders : pc'[q] = pc[q]
    BY <1>9 DEF Reconnect, Ready, Reload, Reloaded, At
  <2>2. Calm
    BY <2>1 DEF Calm
  <2> QED
    BY <1>c, <2>1, <2>2
<1>10. ASSUME NEW r \in Reloaders, Restart(r) PROVE CalmCalls
  <2>1. PICK w \in Watchers : pc[w] = "idle" /\ pc' = [pc EXCEPT ![r] = "idle", ![w] = "load"]
    BY <1>10 DEF Restart
  <2>2. UNCHANGED <<log, job, listeners, values, pairs, mapping, disturbed>>
    BY <1>10 DEF Restart
  <2>3. Calm
    BY <2>1, <2>2 DEF Calm
  <2>4. pc[w] \notin Talking /\ \A q \in Loaders \ {w} : pc'[q] = pc[q]
    BY <2>1 DEF Talking
  <2> QED
    BY <1>c, <2>2, <2>3, <2>4
<1> HIDE <1>0
<1> QED
  BY <1>1, <1>2, <1>3, <1>4, <1>5, <1>6, <1>7, <1>8, <1>9, <1>10

LEMMA AddCallsAre ==
    ASSUME NEW c, NEW ks, NEW ls, NEW k, NEW v, NEW s
    PROVE  <<k, v, s>> \in AddCalls(c, ks, ls) <=> k \in ks /\ v = c[k] /\ s \in ls
BY DEF AddCalls

\* What Monitor collects for the new listener.
LEMMA MonitorFields ==
    ASSUME Typed, NEW s \in Subs, Monitor(s)
    PROVE  /\ pc[s] = "new" /\ pc'[s] = "current"
           /\ job'[s].adds = AddCalls(values, Present(values), {s})
           /\ job'[s].removes = job[s].removes /\ job'[s].snap = job[s].snap
           /\ job'[s].told = job[s].told
           /\ \A q \in Loaders \ {s} : job'[q] = job[q] /\ pc'[q] = pc[q]
           /\ UNCHANGED <<log, listeners, values, pairs, mapping, disturbed>>
<1> DEFINE adds == AddCalls(values, Present(values), {s})
<1>1. /\ pc[s] = "new" /\ pc' = [pc EXCEPT ![s] = "current"]
      /\ job' = [job EXCEPT ![s].adds = adds]
      /\ UNCHANGED <<log, listeners, values, pairs, mapping, disturbed>>
  BY DEF Monitor, At, cache, containers
<1>2. s \in Loaders /\ job \in [Loaders -> Job] /\ pc \in [Loaders \cup Reloaders -> Places]
  BY DEF Loaders, Typed, TJob, TPc
<1> HIDE DEF adds
<1>3. /\ job'[s].adds = adds /\ job'[s].removes = job[s].removes /\ job'[s].snap = job[s].snap
      /\ job'[s].told = job[s].told
      /\ \A q \in Loaders \ {s} : job'[q] = job[q]
  BY <1>1, <1>2 DEF Job
<1>4. pc'[s] = "current" /\ \A q \in Loaders \ {s} : pc'[q] = pc[q]
  BY <1>1, <1>2
<1> QED
  BY <1>1, <1>3, <1>4 DEF adds

\* One call of OnAdd or OnDelete.
LEMMA NotifyFields ==
    ASSUME Typed, NEW p \in Loaders, NEW n,
           \/ job' = [job EXCEPT ![p].adds = @ \ {n}]
           \/ job' = [job EXCEPT ![p].removes = @ \ {n}]
    PROVE  /\ job'[p].snap = job[p].snap /\ job'[p].told = job[p].told
           /\ job'[p].adds \subseteq job[p].adds /\ job'[p].removes \subseteq job[p].removes
           /\ \A q \in Loaders \ {p} : job'[q] = job[q]
<1>1. job \in [Loaders -> Job]
  BY DEF Typed, TJob
<1> QED
  BY <1>1 DEF Job

LEMMA CallsKept ==
    ASSUME Typed, Where, Positions, CallInv, [Next]_vars
    PROVE  CallInv'
<1>0. /\ Subs \subseteq Loaders /\ Watchers \subseteq Loaders
      /\ Len(log) \in Nat /\ log \in Seq(Event)
      /\ NoVal \notin Vals
  BY LogFacts, PutsAssumption DEF Loaders
<1>1. Published(values) /\ Published(Nothing) /\ \A q \in Loaders : Calls(q)
  BY NothingPublished DEF CallInv
<1>2. \A s \in Subs : s \in listeners => pc[s] # "new"
  BY DEF Where
<1> USE <1>0
<1>3. PutsStay /\ EverPut \subseteq EverPut'
  BY PutsStayPut DEF PutsStay
<1>a. ASSUME NEW q \in Loaders, job'[q] = job[q], pc'[q] = pc[q], UNCHANGED listeners,
             \A s \in Subs : pc'[s] = "new" => pc[s] = "new"
      PROVE  Calls(q)'
  <2>1. Calls(q) /\ Published(job'[q].snap)
    BY <1>1, <1>a DEF Calls
  <2>2. pc'[q] \notin Talking => Notified(q)'
    BY <1>a, <2>1 DEF Calls, Notified
  <2>3. job'[q].told \subseteq listeners'
    BY <1>a, <2>1 DEF Calls
  <2> QED
    BY <1>3, <1>a, <2>1, <2>2, <2>3, CallsSame
<1>4. ASSUME UNCHANGED <<log, listeners, values>>, NEW p \in Loaders, Calls(p)',
             \A q \in Loaders \ {p} : job'[q] = job[q] /\ pc'[q] = pc[q],
             \A s \in Subs : pc'[s] = "new" => pc[s] = "new"
      PROVE  CallInv'
  <2>1. ASSUME NEW q \in Loaders \ {p} PROVE Calls(q)'
    BY <1>4, <1>a
  <2> QED
    BY <1>1, <1>3, <1>4, <2>1 DEF CallInv, Published
<1>5. ASSUME UNCHANGED <<pc, job, values, listeners>> PROVE CallInv'
  <2>1. ASSUME NEW q \in Loaders PROVE Calls(q)'
    BY <1>5, <1>a
  <2> QED
    BY <1>1, <1>3, <1>5, <2>1 DEF CallInv, Published
<1>6. ASSUME NEW kv \in Puts, EtcdPut(kv[1], kv[2]) PROVE CallInv'
  BY <1>5, <1>6 DEF EtcdPut, cache
<1>7. ASSUME NEW k \in Keys, EtcdDelete(k) PROVE CallInv'
  BY <1>5, <1>7 DEF EtcdDelete, cache
<1>8. ASSUME NEW s \in Subs, Monitor(s) PROVE CallInv'
  <2>1. /\ pc[s] = "new" /\ pc'[s] = "current"
        /\ job'[s].adds = AddCalls(values, Present(values), {s})
        /\ job'[s].removes = job[s].removes /\ job'[s].snap = job[s].snap
        /\ job'[s].told = job[s].told
        /\ \A q \in Loaders \ {s} : job'[q] = job[q] /\ pc'[q] = pc[q]
        /\ UNCHANGED <<log, listeners, values>>
    BY <1>8, MonitorFields
  <2>2. \A k \in Keys, v \in Vals, u \in Subs :
            <<k, v, u>> \in job'[s].adds => v = values[k] /\ u = s /\ values[k] # NoVal
    BY <2>1, AddCallsAre DEF Present
  <2>3. job[s].removes = {}
    BY <1>1, <2>1 DEF Calls, Talking, Notified
  <2>4. Calls(s)'
    <3>1. Published(job'[s].snap) /\ job'[s].told \subseteq listeners'
      BY <1>1, <2>1 DEF Calls, Published
    <3>2. \A k \in Keys, v \in Vals, u \in Subs : <<k, v, u>> \in job'[s].adds => <<k, v>> \in EverPut
      BY <1>1, <2>2 DEF Published
    <3>3. \A u \in Subs, k \in Keys : pc'[u] = "new" => ~Telling(s, k, u)'
      BY <2>1, <2>2, <2>3 DEF Telling
    <3>4. pc'[s] \in Talking
      BY <2>1 DEF Talking
    <3> QED
      BY <1>3, <3>1, <3>2, <3>3, <3>4 DEF Calls, Published
  <2> QED
    BY <1>4, <2>1, <2>4
<1>9. ASSUME NEW p \in Loaders, HandleChanges(p) PROVE CallInv'
  <2> DEFINE new == job[p].snap
             differ == {k \in Keys : new[k] # values[k]}
  <2>1. /\ pc[p] = "changes" /\ values' = new /\ UNCHANGED <<log, listeners>>
        /\ job'[p].told = job[p].told /\ job'[p].snap = Nothing
        /\ job'[p].adds = AddCalls(new, differ \cap Present(new), listeners)
        /\ job'[p].removes = (differ \cap Present(values)) \X listeners
        /\ pc'[p] \in {"loaded", "stream"}
        /\ \A q \in Loaders \ {p} : job'[q] = job[q] /\ pc'[q] = pc[q]
    BY <1>9, ChangeFields
  <2>2. Published(values')
    BY <1>1, <2>1 DEF Calls
  <2>3. \A k \in Keys, v \in Vals, u \in Subs :
            <<k, v, u>> \in job'[p].adds => v = new[k] /\ u \in listeners /\ new[k] # NoVal
    BY <2>1, AddCallsAre DEF Present
  <2>4. \A k \in Keys, u \in Subs : <<k, u>> \in job'[p].removes => u \in listeners
    BY <2>1
  <2>5. \A u \in Subs : pc'[u] = "new" => pc[u] = "new"
    BY <2>1
  <2>6. Calls(p)'
    <3>1. Published(job'[p].snap) /\ job'[p].told \subseteq listeners'
      BY <1>1, <2>1 DEF Calls
    <3>2. \A k \in Keys, v \in Vals, u \in Subs : <<k, v, u>> \in job'[p].adds => <<k, v>> \in EverPut
      BY <2>1, <2>2, <2>3 DEF Published
    <3>3. \A u \in Subs, k \in Keys : pc'[u] = "new" => ~Telling(p, k, u)'
      BY <1>2, <2>3, <2>4, <2>5 DEF Telling
    <3>4. pc'[p] \in Talking
      BY <2>1 DEF Talking
    <3> QED
      BY <1>3, <3>1, <3>2, <3>3, <3>4 DEF Calls, Published
  <2>7. ASSUME NEW q \in Loaders \ {p} PROVE Calls(q)'
    BY <1>a, <2>1, <2>5
  <2> QED
    BY <1>3, <2>1, <2>2, <2>6, <2>7 DEF CallInv, Published
<1>10. ASSUME NEW p \in Loaders, NotifyAdd(p) \/ NotifyDelete(p) PROVE CallInv'
  <2>1. PICK n : \/ n \in job[p].adds /\ job' = [job EXCEPT ![p].adds = @ \ {n}]
                 \/ n \in job[p].removes /\ job' = [job EXCEPT ![p].removes = @ \ {n}]
    BY <1>10 DEF NotifyAdd, NotifyDelete
  <2>2. UNCHANGED <<log, pc, listeners, values>>
    BY <1>10 DEF NotifyAdd, NotifyDelete, cache
  <2>3. /\ job'[p].snap = job[p].snap /\ job'[p].told = job[p].told
        /\ job'[p].adds \subseteq job[p].adds /\ job'[p].removes \subseteq job[p].removes
        /\ \A q \in Loaders \ {p} : job'[q] = job[q]
    BY <2>1, NotifyFields
  <2>4. Calls(p)'
    BY <1>1, <1>3, <2>2, <2>3, CallsSame DEF Calls, Notified
  <2> QED
    BY <1>4, <2>2, <2>3, <2>4
<1>11. ASSUME NEW w \in Watchers, ApplyEvent(w) PROVE CallInv'
  <2> DEFINE ev == log[job[w].pos + 1]
             put == ev.val # NoVal
             told == job[w].told
  <2>1. /\ pc[w] = "apply" /\ values' = [values EXCEPT ![ev.key] = ev.val]
        /\ UNCHANGED <<log, listeners>>
        /\ job'[w].snap = job[w].snap
        /\ job'[w].adds = IF put THEN {<<ev.key, ev.val, s>> : s \in told} ELSE {}
        /\ job'[w].removes = IF put THEN {} ELSE {ev.key} \X told
        /\ pc'[w] \in {"stream", "apply"}
        /\ \A q \in Loaders \ {w} : job'[q] = job[q] /\ pc'[q] = pc[q]
    BY <1>11, ApplyFields
  <2>2. job'[w].told \subseteq told
    BY <1>11, ApplyFields
  <2>3. job[w].pos + 1 \in 1 .. Len(log)
    <3>1. job[w].pos \in Nat /\ job[w].upto \in Nat
      BY JobNumbers DEF Typed
    <3>2. job[w].pos < job[w].upto /\ job[w].upto <= Len(log)
      BY <2>1 DEF Positions
    <3> QED
      BY <3>1, <3>2
  <2>4. /\ <<ev.key, ev.val>> \in EverPut
        /\ told \subseteq listeners
    BY <1>1, <2>3 DEF EverPut, Calls
  <2> HIDE DEF ev, told
  <2>5. \A k \in Keys, v \in Vals, u \in Subs :
            <<k, v, u>> \in job'[w].adds => put /\ k = ev.key /\ v = ev.val /\ u \in told
    BY <2>1
  <2>6. \A k \in Keys, u \in Subs : <<k, u>> \in job'[w].removes => u \in told
    BY <2>1
  <2>7. \A u \in Subs : pc'[u] = "new" => pc[u] = "new"
    BY <2>1
  <2>8. Calls(w)'
    <3>1. Published(job'[w].snap) /\ job'[w].told \subseteq listeners'
      BY <1>1, <2>1, <2>2, <2>4 DEF Calls
    <3>2. \A k \in Keys, v \in Vals, u \in Subs : <<k, v, u>> \in job'[w].adds => <<k, v>> \in EverPut
      BY <2>4, <2>5
    <3>3. \A u \in Subs, k \in Keys : pc'[u] = "new" => ~Telling(w, k, u)'
      BY <1>2, <2>4, <2>5, <2>6, <2>7 DEF Telling
    <3>4. pc'[w] \in Talking
      BY <2>1 DEF Talking
    <3> QED
      BY <1>3, <3>1, <3>2, <3>3, <3>4 DEF Calls, Published
  <2>9. Published(values')
    <3>1. values \in [Keys -> Vals \cup {NoVal}]
      BY DEF Typed, TCore, Contents
    <3> QED
      BY <1>1, <2>1, <2>4, <3>1 DEF Published
  <2>10. ASSUME NEW q \in Loaders \ {w} PROVE Calls(q)'
    BY <1>a, <2>1, <2>7
  <2> QED
    BY <1>3, <2>1, <2>8, <2>9, <2>10 DEF CallInv, Published
<1>12. ASSUME CalmCalls PROVE CallInv'
  <2>1. ASSUME NEW q \in Loaders PROVE Calls(q)'
    BY <1>1, <1>3, <1>12, CallsSame DEF CalmCalls, Calm
  <2> QED
    BY <1>1, <1>3, <1>12, <2>1 DEF CalmCalls, Calm, CallInv, Published
<1>13. CASE \/ \E s \in Subs : Register(s) \/ StartWatch(s)
            \/ \E p \in Loaders : Load(p)
            \/ \E w \in Watchers : \/ WatchResponse(w) \/ WatchFailure(w) \/ WatchDone(w)
                                   \/ CopyListeners(w)
            \/ Disconnect
            \/ \E r \in Reloaders : Reconnect(r) \/ Reload(r) \/ Reloaded(r) \/ Restart(r)
            \/ UNCHANGED vars
  BY <1>12, <1>13, CalmSteps
<1> QED
  BY <1>6, <1>7, <1>8, <1>9, <1>10, <1>11, <1>13 DEF Next

-----------------------------------------------------------------------------
(***************************************************************************)
(* What subscribers have been told.                                        *)
(***************************************************************************)
\* SubscriberInv of one subscriber.
Told(s) ==
    /\ PairsInv(s)
    /\ \A k \in Keys : Owed(s, k) => ToldInv(s, k)

LEMMA SubscriberInvIs ==
    /\ SubscriberInv <=> \A s \in Subs \ Exclusive : Told(s)
    /\ SubscriberInv' <=> \A s \in Subs \ Exclusive : Told(s)'
BY DEF SubscriberInv, Told

\* The container of s has not changed.
LEMMA PairsSame ==
    ASSUME PutsStay, NEW s, PairsInv(s), pairs'[s] = pairs[s], mapping'[s] = mapping[s],
           pc'[s] = "new" => pc[s] = "new"
    PROVE  PairsInv(s)'
<1>1. \A k : KeptValue(k)' => KeptValue(k)
  BY KeptBefore
<1> QED
  BY <1>1 DEF PairsInv, PutsStay

\* What s is owed after a step it was owed before, but for its Monitor call.
LEMMA OwedBefore ==
    ASSUME PutsStay, NEW s, NEW k, Owed(s, k)', pc[s] # "new", k \notin disturbed[s]
    PROVE  Owed(s, k)
BY KeptBefore DEF Owed

\* Nothing that concerns k and s has changed.
LEMMA ToldSame ==
    ASSUME NEW s, NEW k \in Keys, ToldInv(s, k), values'[k] = values[k],
           \A v \in Vals : Has(s, k, v)' <=> Has(s, k, v),
           \A p \in Loaders : <<k, s>> \in job'[p].removes <=> <<k, s>> \in job[p].removes,
           \A p \in Loaders, v \in Vals : <<k, v, s>> \in job'[p].adds <=> <<k, v, s>> \in job[p].adds
    PROVE  ToldInv(s, k)'
<1>1. \A p \in Loaders : Telling(p, k, s)' <=> Telling(p, k, s)
  BY DEF Telling
<1> QED
  BY <1>1 DEF ToldInv

LEMMA CalmTold ==
    ASSUME PutsStay, SubscriberInv, Calm
    PROVE  SubscriberInv'
<1>1. ASSUME NEW s \in Subs \ Exclusive PROVE Told(s)'
  <2>1. PairsInv(s) /\ \A k \in Keys : Owed(s, k) => ToldInv(s, k)
    BY SubscriberInvIs DEF Told
  <2>2. PairsInv(s)'
    BY <2>1, PairsSame DEF Calm
  <2>3. ASSUME NEW k \in Keys, Owed(s, k)' PROVE ToldInv(s, k)'
    <3>1. ToldInv(s, k)
      BY <2>1, <2>3, OwedBefore DEF Calm, Owed
    <3>2. \A v \in Vals : Has(s, k, v)' <=> Has(s, k, v)
      BY DEF Calm, Has
    <3> QED
      BY <3>1, <3>2, ToldSame DEF Calm
  <2> QED
    BY <2>2, <2>3 DEF Told
<1> QED
  BY <1>1, SubscriberInvIs

\* Monitor gives the new listener what is known, and nobody else tells it.
LEMMA MonitorTold ==
    ASSUME Typed, PutsStay, CallInv, SubscriberInv, NEW u \in Subs, Monitor(u)
    PROVE  SubscriberInv'
<1>0. u \in Loaders /\ Subs \subseteq Loaders /\ NoVal \notin Vals /\ values \in [Keys -> Vals \cup {NoVal}]
  BY PutsAssumption DEF Loaders, Typed, TCore, Contents
<1>1. /\ pc[u] = "new" /\ pc'[u] = "current"
      /\ job'[u].adds = AddCalls(values, Present(values), {u})
      /\ job'[u].removes = job[u].removes
      /\ \A q \in Loaders \ {u} : job'[q] = job[q] /\ pc'[q] = pc[q]
      /\ UNCHANGED <<values, pairs, mapping, disturbed>>
  BY MonitorFields
<1>2. job[u].removes = {} /\ job[u].adds = {}
  BY <1>0, <1>1 DEF CallInv, Calls, Talking, Notified
<1>3. \A k \in Keys, v \in Vals, s \in Subs :
          <<k, v, s>> \in job'[u].adds <=> s = u /\ v = values[k] /\ values[k] # NoVal
  <2> SUFFICES ASSUME NEW k \in Keys, NEW v \in Vals, NEW s \in Subs
               PROVE  <<k, v, s>> \in job'[u].adds <=> s = u /\ v = values[k] /\ values[k] # NoVal
    OBVIOUS
  <2>1. <<k, v, s>> \in AddCalls(values, Present(values), {u})
            <=> k \in Present(values) /\ v = values[k] /\ s \in {u}
    BY ONLY AddCallsAre, Zenon
  <2>2. <<k, v, s>> \in job'[u].adds
            <=> k \in Present(values) /\ v = values[k] /\ s \in {u}
    BY <1>1, <2>1, Zenon
  <2> QED
    BY <2>2 DEF Present
<1>4. ASSUME NEW s \in Subs \ Exclusive PROVE Told(s)'
  <2>1. PairsInv(s) /\ \A k \in Keys : Owed(s, k) => ToldInv(s, k)
    BY SubscriberInvIs DEF Told
  <2>2. PairsInv(s)'
    BY <1>0, <1>1, <2>1, PairsSame
  <2>3. CASE s # u
    <3>1. ASSUME NEW k \in Keys, Owed(s, k)' PROVE ToldInv(s, k)'
      <4>1. ToldInv(s, k)
        BY <1>0, <1>1, <2>1, <2>3, <3>1, OwedBefore DEF Owed
      <4>2. \A v \in Vals : Has(s, k, v)' <=> Has(s, k, v)
        BY <1>1 DEF Has
      <4>3. /\ \A p \in Loaders : <<k, s>> \in job'[p].removes <=> <<k, s>> \in job[p].removes
            /\ \A p \in Loaders, v \in Vals :
                    <<k, v, s>> \in job'[p].adds <=> <<k, v, s>> \in job[p].adds
        BY <1>1, <1>2, <1>3, <2>3
      <4> QED
        BY <1>1, <4>1, <4>2, <4>3, ToldSame
    <3> QED
      BY <2>2, <3>1 DEF Told
  <2>4. CASE s = u
    <3>1. ASSUME NEW k \in Keys PROVE ToldInv(s, k)'
      <4>1. \A p \in Loaders \ {u} : ~Telling(p, k, s)'
        <5>1. \A p \in Loaders : ~Telling(p, k, s)
          BY <1>1, <2>4 DEF CallInv, Calls
        <5> QED
          BY <1>1, <5>1 DEF Telling
      <4>2. \A v \in Vals : ~Has(s, k, v)'
        BY <1>1, <2>1, <2>4 DEF PairsInv, Has
      <4>3. Telling(u, k, s)' <=> values[k] # NoVal
        BY <1>0, <1>1, <1>2, <1>3, <2>4 DEF Telling
      <4>4. \A p, q \in Loaders : Telling(p, k, s)' /\ Telling(q, k, s)' => p = q
        BY <4>1
      <4>5. (\A p \in Loaders : ~Telling(p, k, s)') => \A v \in Vals : Has(s, k, v)' <=> values'[k] = v
        BY <1>0, <1>1, <4>2, <4>3
      <4>6. \A p \in Loaders, v \in Vals : <<k, v, s>> \in job'[p].adds =>
                values'[k] = v /\ <<k, s>> \notin job'[p].removes
        <5>1. ASSUME NEW p \in Loaders, NEW v \in Vals, <<k, v, s>> \in job'[p].adds PROVE p = u
          BY <4>1, <5>1 DEF Telling
        <5> QED
          BY <1>1, <1>2, <1>3, <5>1
      <4>7. \A p \in Loaders : <<k, s>> \notin job'[p].removes
        <5>1. ASSUME NEW p \in Loaders, <<k, s>> \in job'[p].removes PROVE p = u
          BY <4>1, <5>1 DEF Telling
        <5> QED
          BY <1>1, <1>2, <5>1
      <4> QED
        BY <4>4, <4>5, <4>6, <4>7 DEF ToldInv
    <3> QED
      BY <2>2, <3>1 DEF Told
  <2> QED
    BY <2>3, <2>4
<1> QED
  BY <1>4, SubscriberInvIs

\* Somebody has begun to tell s of the present state of k.
LEMMA ToldNow ==
    ASSUME NEW s, NEW k \in Keys, NEW p \in Loaders,
           \A q \in Loaders \ {p} : ~Telling(q, k, s)',
           Telling(p, k, s)',
           \A v \in Vals : <<k, v, s>> \in job'[p].adds =>
                values'[k] = v /\ <<k, s>> \notin job'[p].removes,
           <<k, s>> \in job'[p].removes => values'[k] = NoVal
    PROVE  ToldInv(s, k)'
<1>1. \A q \in Loaders : Telling(q, k, s)' => q = p
  OBVIOUS
<1>2. \A q \in Loaders, v \in Vals : <<k, v, s>> \in job'[q].adds => q = p
  BY <1>1 DEF Telling
<1>3. \A q \in Loaders : <<k, s>> \in job'[q].removes => q = p
  BY <1>1 DEF Telling
<1> QED
  BY <1>1, <1>2, <1>3 DEF ToldInv

\* What it means that a change does not disturb a subscriber.
LEMMA NotDisturbed ==
    ASSUME NEW ks, NEW ls, Disturb(ks, ls), NEW s \in Subs, NEW k, k \notin disturbed'[s]
    PROVE  /\ k \notin disturbed[s]
           /\ k \in ks /\ pc[s] # "new" => s \in ls
           /\ k \in ks /\ s \in ls => \A q \in Loaders : ~Telling(q, k, s)
BY DEF Disturb, Telling

LEMMA ChangesTold ==
    ASSUME Typed, Where, PutsStay, CallInv, SubscriberInv, NEW p \in Loaders, HandleChanges(p)
    PROVE  SubscriberInv'
<1> DEFINE new == job[p].snap
           differ == {k \in Keys : new[k] # values[k]}
<1>1. /\ pc[p] = "changes" /\ values' = new /\ UNCHANGED <<pairs, mapping>>
      /\ Disturb(differ, listeners)
      /\ job'[p].adds = AddCalls(new, differ \cap Present(new), listeners)
      /\ job'[p].removes = (differ \cap Present(values)) \X listeners
      /\ pc'[p] \in {"loaded", "stream"}
      /\ \A q \in Loaders \ {p} : job'[q] = job[q] /\ pc'[q] = pc[q]
  BY ChangeFields
<1>2. job[p].adds = {} /\ job[p].removes = {}
  BY <1>1 DEF CallInv, Calls, Talking, Notified
<1>3. /\ Published(new) /\ Published(values) /\ listeners \subseteq Subs /\ Subs \subseteq Loaders
      /\ new \in [Keys -> Vals \cup {NoVal}] /\ values \in [Keys -> Vals \cup {NoVal}]
  BY DEF CallInv, Calls, Typed, TCore, TJob, Job, Contents, Loaders
<1> HIDE DEF new
<1>4. ASSUME NEW k \in Keys, NEW v \in Vals, NEW s \in Subs
      PROVE  <<k, v, s>> \in job'[p].adds
                 <=> k \in differ /\ v = new[k] /\ new[k] # NoVal /\ s \in listeners
  <2>1. <<k, v, s>> \in AddCalls(new, differ \cap Present(new), listeners)
            <=> k \in differ \cap Present(new) /\ v = new[k] /\ s \in listeners
    BY ONLY AddCallsAre, Zenon
  <2>2. <<k, v, s>> \in job'[p].adds
            <=> k \in differ \cap Present(new) /\ v = new[k] /\ s \in listeners
    BY <1>1, <2>1, Zenon
  <2> QED
    BY <2>2 DEF Present
<1>5. ASSUME NEW k \in Keys, NEW s \in Subs
      PROVE  <<k, s>> \in job'[p].removes <=> k \in differ /\ values[k] # NoVal /\ s \in listeners
  BY <1>1 DEF Present
<1>6. ASSUME NEW s \in Subs \ Exclusive PROVE Told(s)'
  <2>1. PairsInv(s) /\ \A k \in Keys : Owed(s, k) => ToldInv(s, k)
    BY SubscriberInvIs DEF Told
  <2>2. pc'[s] = "new" <=> pc[s] = "new"
    BY <1>1, <1>3
  <2>3. PairsInv(s)'
    BY <1>1, <2>1, <2>2, PairsSame
  <2>4. ASSUME NEW k \in Keys, Owed(s, k)' PROVE ToldInv(s, k)'
    <3>1. /\ k \notin disturbed[s] /\ ToldInv(s, k)
          /\ k \in differ => s \in listeners /\ \A q \in Loaders : ~Telling(q, k, s)
      <4> HIDE DEF differ
      <4>1. /\ k \notin disturbed[s]
            /\ k \in differ /\ pc[s] # "new" => s \in listeners
            /\ k \in differ /\ s \in listeners => \A q \in Loaders : ~Telling(q, k, s)
        BY <1>1, <2>4, NotDisturbed DEF Owed
      <4> QED
        BY <2>1, <2>2, <2>4, <4>1, OwedBefore DEF Owed
    <3>2. CASE k \notin differ
      <4>1. values'[k] = values[k]
        BY <1>1, <3>2
      <4>2. \A v \in Vals : Has(s, k, v)' <=> Has(s, k, v)
        BY <1>1 DEF Has
      <4>3. /\ \A q \in Loaders : <<k, s>> \in job'[q].removes <=> <<k, s>> \in job[q].removes
            /\ \A q \in Loaders, v \in Vals :
                    <<k, v, s>> \in job'[q].adds <=> <<k, v, s>> \in job[q].adds
        BY <1>1, <1>2, <1>4, <1>5, <3>2
      <4> QED
        BY <3>1, <4>1, <4>2, <4>3, ToldSame
    <3>3. CASE k \in differ
      <4>1. new[k] = NoVal \/ values[k] = NoVal
        <5>1. ASSUME new[k] # NoVal, values[k] # NoVal PROVE new[k] = values[k]
          <6>1. <<k, new[k]>> \in EverPut /\ <<k, values[k]>> \in EverPut
            BY <1>3, <5>1 DEF Published
          <6>2. KeptValue(k)
            BY <2>4, KeptBefore DEF Owed
          <6> QED
            BY <1>3, <5>1, <6>1, <6>2 DEF KeptValue
        <5> QED
          BY <3>3, <5>1
      <4>2. new[k] # values[k] /\ s \in listeners /\ values'[k] = new[k]
        BY <1>1, <3>1, <3>3
      <4>3. \A q \in Loaders \ {p} : ~Telling(q, k, s)'
        BY <1>1, <3>1, <3>3 DEF Telling
      <4>4. Telling(p, k, s)'
        <5>1. CASE new[k] # NoVal
          <6>1. new[k] \in Vals
            BY <1>3, <5>1
          <6>2. <<k, new[k], s>> \in job'[p].adds
            BY <1>4, <3>3, <4>2, <5>1, <6>1
          <6> QED
            BY <6>1, <6>2 DEF Telling
        <5>2. CASE new[k] = NoVal
          BY <1>5, <3>3, <4>2, <5>2 DEF Telling
        <5> QED
          BY <5>1, <5>2
      <4>5. \A v \in Vals : <<k, v, s>> \in job'[p].adds =>
                values'[k] = v /\ <<k, s>> \notin job'[p].removes
        BY <1>4, <1>5, <4>1, <4>2
      <4>6. <<k, s>> \in job'[p].removes => values'[k] = NoVal
        BY <1>5, <4>1, <4>2
      <4> QED
        BY <4>3, <4>4, <4>5, <4>6, ToldNow
    <3> QED
      BY <3>2, <3>3
  <2> QED
    BY <2>3, <2>4 DEF Told
<1> QED
  BY <1>6, SubscriberInvIs

LEMMA EventTold ==
    ASSUME Typed, Where, Positions, PutsStay, CallInv, SubscriberInv, NEW w \in Watchers,
           ApplyEvent(w)
    PROVE  SubscriberInv'
<1> DEFINE ev == log[job[w].pos + 1]
           put == ev.val # NoVal
           told == job[w].told
<1>0. w \in Loaders /\ Subs \subseteq Loaders
  BY DEF Loaders
<1>1. /\ pc[w] = "apply" /\ values' = [values EXCEPT ![ev.key] = ev.val]
      /\ UNCHANGED <<pairs, mapping>>
      /\ Notified(w) /\ Disturb({ev.key}, told)
      /\ job'[w].adds = IF put THEN {<<ev.key, ev.val, s>> : s \in told} ELSE {}
      /\ job'[w].removes = IF put THEN {} ELSE {ev.key} \X told
      /\ pc'[w] \in {"stream", "apply"}
      /\ \A q \in Loaders \ {w} : job'[q] = job[q] /\ pc'[q] = pc[q]
  BY ApplyFields
<1>2. ev.key \in Keys /\ ev.val \in Vals \cup {NoVal} /\ values \in [Keys -> Vals \cup {NoVal}]
  <2>1. job[w].pos \in Nat /\ job[w].upto \in Nat
    BY <1>0, JobNumbers DEF Typed
  <2>2. job[w].pos < job[w].upto /\ job[w].upto <= Len(log)
    BY <1>0, <1>1 DEF Positions
  <2>3. Len(log) \in Nat /\ job[w].pos + 1 \in 1 .. Len(log)
    BY <2>1, <2>2, LogFacts
  <2> QED
    BY <2>3, LogFacts DEF Typed, TCore, Contents
<1> HIDE DEF ev, told
<1>3. ASSUME NEW k \in Keys, NEW v \in Vals, NEW s \in Subs
      PROVE  <<k, v, s>> \in job'[w].adds <=> put /\ k = ev.key /\ v = ev.val /\ s \in told
  BY <1>1
<1>4. ASSUME NEW k \in Keys, NEW s \in Subs
      PROVE  <<k, s>> \in job'[w].removes <=> ~put /\ k = ev.key /\ s \in told
  BY <1>1
<1>5. job[w].adds = {} /\ job[w].removes = {}
  BY <1>1 DEF Notified
<1>6. ASSUME NEW s \in Subs \ Exclusive PROVE Told(s)'
  <2>1. PairsInv(s) /\ \A k \in Keys : Owed(s, k) => ToldInv(s, k)
    BY SubscriberInvIs DEF Told
  <2>2. pc'[s] = "new" <=> pc[s] = "new"
    BY <1>0, <1>1
  <2>3. PairsInv(s)'
    BY <1>1, <2>1, <2>2, PairsSame
  <2>4. ASSUME NEW k \in Keys, Owed(s, k)' PROVE ToldInv(s, k)'
    <3>1. /\ k \notin disturbed[s]
          /\ k \in {ev.key} /\ pc[s] # "new" => s \in told
          /\ k \in {ev.key} /\ s \in told => \A q \in Loaders : ~Telling(q, k, s)
      BY <1>1, <2>4, NotDisturbed DEF Owed
    <3>2. CASE k # ev.key
      <4>1. values'[k] = values[k] /\ ToldInv(s, k)
        BY <1>1, <1>2, <2>1, <2>2, <2>4, <3>1, <3>2, OwedBefore DEF Owed
      <4>2. \A v \in Vals : Has(s, k, v)' <=> Has(s, k, v)
        BY <1>1 DEF Has
      <4>3. /\ \A q \in Loaders : <<k, s>> \in job'[q].removes <=> <<k, s>> \in job[q].removes
            /\ \A q \in Loaders, v \in Vals :
                    <<k, v, s>> \in job'[q].adds <=> <<k, v, s>> \in job[q].adds
        BY <1>1, <1>3, <1>4, <1>5, <3>2
      <4> QED
        BY <4>1, <4>2, <4>3, ToldSame
    <3>3. CASE k = ev.key
      <4>1. s \in told /\ \A q \in Loaders : ~Telling(q, k, s)
        BY <2>2, <2>4, <3>1, <3>3 DEF Owed
      <4>2. values'[k] = ev.val
        BY <1>1, <1>2, <3>3
      <4>3. \A q \in Loaders \ {w} : ~Telling(q, k, s)'
        BY <1>1, <4>1 DEF Telling
      <4>4. Telling(w, k, s)'
        BY <1>2, <1>3, <1>4, <3>3, <4>1 DEF Telling
      <4>5. /\ \A v \in Vals : <<k, v, s>> \in job'[w].adds =>
                  values'[k] = v /\ <<k, s>> \notin job'[w].removes
            /\ <<k, s>> \in job'[w].removes => values'[k] = NoVal
        BY <1>3, <1>4, <4>2
      <4> QED
        BY <1>0, <4>3, <4>4, <4>5, ToldNow
    <3> QED
      BY <3>2, <3>3
  <2> QED
    BY <2>3, <2>4 DEF Told
<1> QED
  BY <1>6, SubscriberInvIs

\* What addKv and removeKey do to the container of a subscriber.
LEMMA AddKv ==
    ASSUME TPairs, NEW u \in Subs, NEW j \in Keys, NEW x \in Vals, OnAdd(u, j, x)
    PROVE  /\ \A s \in Subs \ {u} : pairs'[s] = pairs[s] /\ mapping'[s] = mapping[s]
           /\ u \notin Exclusive =>
                /\ pairs'[u] = pairs[u] \cup {<<x, j>>}
                /\ \A k \in Keys : mapping'[u][k] = IF k = j THEN x ELSE mapping[u][k]
<1>1. pairs \in [Subs -> SUBSET (Vals \X Keys)] /\ mapping \in [Subs -> Contents]
  BY DEF TPairs
<1>2. /\ pairs' = [pairs EXCEPT ![u] = RemovePairs(pairs[u], mapping[u], EarlyKeys(u, x)) \cup {<<x, j>>}]
      /\ mapping' = [mapping EXCEPT ![u] = [RemoveKeys(mapping[u], EarlyKeys(u, x)) EXCEPT ![j] = x]]
  BY <1>1 DEF OnAdd
<1>3. u \notin Exclusive => EarlyKeys(u, x) = {}
  BY DEF EarlyKeys
<1>4. RemovePairs(pairs[u], mapping[u], {}) = pairs[u]
  BY DEF RemovePairs
<1>5. \A k \in Keys : [RemoveKeys(mapping[u], {}) EXCEPT ![j] = x][k] = IF k = j THEN x ELSE mapping[u][k]
  BY DEF RemoveKeys
<1> QED
  BY <1>1, <1>2, <1>3, <1>4, <1>5

LEMMA RemoveKey ==
    ASSUME TPairs, NEW u \in Subs, NEW j \in Keys, OnDelete(u, j)
    PROVE  /\ \A s \in Subs \ {u} : pairs'[s] = pairs[s] /\ mapping'[s] = mapping[s]
           /\ pairs'[u] = pairs[u] \ {<<mapping[u][j], j>>}
           /\ \A k \in Keys : mapping'[u][k] = IF k = j THEN NoVal ELSE mapping[u][k]
<1>1. pairs \in [Subs -> SUBSET (Vals \X Keys)] /\ mapping \in [Subs -> Contents]
  BY DEF TPairs
<1>2. /\ pairs' = [pairs EXCEPT ![u] = RemovePairs(pairs[u], mapping[u], {j})]
      /\ mapping' = [mapping EXCEPT ![u] = RemoveKeys(mapping[u], {j})]
  BY <1>1 DEF OnDelete
<1>3. RemovePairs(pairs[u], mapping[u], {j}) = pairs[u] \ {<<mapping[u][j], j>>}
  BY DEF RemovePairs
<1>4. \A k \in Keys : RemoveKeys(mapping[u], {j})[k] = IF k = j THEN NoVal ELSE mapping[u][k]
  BY DEF RemoveKeys
<1> QED
  BY <1>1, <1>2, <1>3, <1>4

\* A subscriber that is not the one called.
LEMMA OthersTold ==
    ASSUME PutsStay, SubscriberInv, NEW s \in Subs \ Exclusive,
           pairs'[s] = pairs[s], mapping'[s] = mapping[s], UNCHANGED <<values, pc, disturbed>>,
           \A k \in Keys, q \in Loaders : <<k, s>> \in job'[q].removes <=> <<k, s>> \in job[q].removes,
           \A k \in Keys, q \in Loaders, v \in Vals :
                <<k, v, s>> \in job'[q].adds <=> <<k, v, s>> \in job[q].adds
    PROVE  Told(s)'
<1>1. PairsInv(s) /\ \A k \in Keys : Owed(s, k) => ToldInv(s, k)
  BY SubscriberInvIs DEF Told
<1>2. PairsInv(s)'
  BY <1>1, PairsSame
<1>3. ASSUME NEW k \in Keys, Owed(s, k)' PROVE ToldInv(s, k)'
  <2>1. ToldInv(s, k)
    BY <1>1, <1>3, OwedBefore DEF Owed
  <2>2. \A v \in Vals : Has(s, k, v)' <=> Has(s, k, v)
    BY DEF Has
  <2> QED
    BY <2>1, <2>2, ToldSame
<1> QED
  BY <1>2, <1>3 DEF Told

\* Nobody tells s of k any more, and its container agrees with c.values.
LEMMA ToldAll ==
    ASSUME NEW s, NEW k \in Keys,
           \A q \in Loaders : ~Telling(q, k, s)',
           \A v \in Vals : Has(s, k, v)' <=> values'[k] = v
    PROVE  ToldInv(s, k)'
<1>1. \A q \in Loaders : /\ <<k, s>> \notin job'[q].removes
                         /\ \A v \in Vals : <<k, v, s>> \notin job'[q].adds
  BY DEF Telling
<1> QED
  BY <1>1 DEF ToldInv

LEMMA AddTold ==
    ASSUME Typed, PutsStay, CallInv, SubscriberInv, NEW p \in Loaders, NotifyAdd(p)
    PROVE  SubscriberInv'
<1>1. PICK n \in job[p].adds : /\ job' = [job EXCEPT ![p].adds = @ \ {n}]
                               /\ OnAdd(n[3], n[1], n[2])
  BY DEF NotifyAdd
<1>2. UNCHANGED <<values, pc, disturbed>>
  BY DEF NotifyAdd, cache
<1>3. job \in [Loaders -> Job] /\ TPairs
  BY DEF Typed, TJob
<1>4. job[p].adds \subseteq Keys \X Vals \X Subs
  BY <1>3 DEF Job
<1>5. PICK j \in Keys, x \in Vals, u \in Subs : n = <<j, x, u>>
  BY <1>1, <1>4
<1>6. OnAdd(u, j, x)
  BY <1>1, <1>5
<1>7. /\ job'[p].adds = job[p].adds \ {<<j, x, u>>} /\ job'[p].removes = job[p].removes
      /\ \A q \in Loaders \ {p} : job'[q] = job[q]
  BY <1>1, <1>3, <1>5 DEF Job
<1>8. <<j, x>> \in EverPut /\ pc[u] # "new"
  <2>1. Telling(p, j, u) /\ <<j, x, u>> \in job[p].adds
    BY <1>1, <1>5 DEF Telling
  <2> QED
    BY <2>1 DEF CallInv, Calls
<1>9. /\ \A s \in Subs \ {u} : pairs'[s] = pairs[s] /\ mapping'[s] = mapping[s]
      /\ u \notin Exclusive =>
           /\ pairs'[u] = pairs[u] \cup {<<x, j>>}
           /\ \A k \in Keys : mapping'[u][k] = IF k = j THEN x ELSE mapping[u][k]
  BY <1>3, <1>6, AddKv
<1>10. \A s \in Subs, k \in Keys, q \in Loaders :
          <<k, s>> \in job'[q].removes <=> <<k, s>> \in job[q].removes
  BY <1>7
<1>11. \A s \in Subs, k \in Keys, q \in Loaders, v \in Vals : s # u \/ k # j =>
          (<<k, v, s>> \in job'[q].adds <=> <<k, v, s>> \in job[q].adds)
  BY <1>7
<1>12. ASSUME NEW s \in Subs \ Exclusive, s # u PROVE Told(s)'
  BY <1>2, <1>9, <1>10, <1>11, <1>12, OthersTold
<1>13. ASSUME u \notin Exclusive PROVE Told(u)'
  <2>1. PairsInv(u) /\ \A k \in Keys : Owed(u, k) => ToldInv(u, k)
    BY <1>13, SubscriberInvIs DEF Told
  <2>2. KeptValue(j)' => \A v \in Vals : <<j, v>> \in EverPut => v = x
    BY <1>8, KeptBefore DEF KeptValue
  <2>3. PairsInv(u)'
    <3>1. ASSUME NEW k \in Keys, NEW v \in Vals, <<v, k>> \in pairs'[u]
          PROVE  <<k, v>> \in EverPut' /\ (KeptValue(k)' => mapping'[u][k] = v)
      <4>1. CASE <<v, k>> \in pairs[u]
        <5>1. <<k, v>> \in EverPut /\ (KeptValue(k)' => mapping[u][k] = v)
          BY <2>1, <4>1, KeptBefore DEF PairsInv
        <5> QED
          BY <1>9, <1>13, <2>2, <5>1 DEF PutsStay
      <4>2. CASE <<v, k>> = <<x, j>>
        BY <1>8, <1>9, <1>13, <4>2 DEF PutsStay
      <4> QED
        BY <1>9, <1>13, <3>1, <4>1, <4>2
    <3> QED
      BY <1>2, <1>8, <3>1 DEF PairsInv
  <2>4. ASSUME NEW k \in Keys, Owed(u, k)' PROVE ToldInv(u, k)'
    <3>1. ToldInv(u, k) /\ values' = values
      BY <1>2, <2>1, <2>4, OwedBefore DEF Owed
    <3>2. CASE k # j
      <4>1. \A v \in Vals : Has(u, k, v)' <=> Has(u, k, v)
        BY <1>9, <1>13, <3>2 DEF Has
      <4>2. /\ \A q \in Loaders : <<k, u>> \in job'[q].removes <=> <<k, u>> \in job[q].removes
            /\ \A q \in Loaders, v \in Vals :
                    <<k, v, u>> \in job'[q].adds <=> <<k, v, u>> \in job[q].adds
        BY <1>10, <1>11, <3>2
      <4> QED
        BY <3>1, <4>1, <4>2, ToldSame
    <3>3. CASE k = j
      <4>1. <<k, x, u>> \in job[p].adds /\ Telling(p, k, u)
        BY <1>1, <1>5, <3>3 DEF Telling
      <4>2. values[k] = x /\ <<k, u>> \notin job[p].removes
        BY <3>1, <4>1 DEF ToldInv
      <4>3. \A v \in Vals : <<k, v, u>> \in job[p].adds => v = x
        BY <3>1, <4>2 DEF ToldInv
      <4>4. ~Telling(p, k, u)'
        BY <1>7, <3>3, <4>2, <4>3 DEF Telling
      <4>5. \A q \in Loaders \ {p} : ~Telling(q, k, u)
        BY <3>1, <4>1 DEF ToldInv
      <4>6. \A q \in Loaders \ {p} : ~Telling(q, k, u)'
        BY <1>7, <4>5 DEF Telling
      <4>7. \A v \in Vals : Has(u, k, v)' <=> values'[k] = v
        <5>1. Has(u, k, x)'
          BY <1>9, <1>13, <3>3 DEF Has
        <5>2. ASSUME NEW v \in Vals, Has(u, k, v)' PROVE v = x
          <6>1. <<v, k>> \in pairs[u] \/ v = x
            BY <1>9, <1>13, <5>2 DEF Has
          <6> QED
            BY <2>1, <2>2, <2>4, <3>3, <6>1 DEF Owed, PairsInv
        <5> QED
          BY <3>1, <4>2, <5>1, <5>2
      <4> QED
        BY <4>4, <4>6, <4>7, ToldAll
    <3> QED
      BY <3>2, <3>3
  <2> QED
    BY <2>3, <2>4 DEF Told
<1> QED
  BY <1>12, <1>13, SubscriberInvIs

LEMMA DeleteTold ==
    ASSUME Typed, PutsStay, CallInv, SubscriberInv, NEW p \in Loaders, NotifyDelete(p)
    PROVE  SubscriberInv'
<1>1. PICK n \in job[p].removes : /\ job' = [job EXCEPT ![p].removes = @ \ {n}]
                                  /\ OnDelete(n[2], n[1])
  BY DEF NotifyDelete
<1>2. UNCHANGED <<values, pc, disturbed>> /\ job[p].adds = {}
  BY DEF NotifyDelete, cache
<1>3. job \in [Loaders -> Job] /\ TPairs /\ NoVal \notin Vals
  BY PutsAssumption DEF Typed, TJob
<1>4. job[p].removes \subseteq Keys \X Subs
  BY <1>3 DEF Job
<1>5. PICK j \in Keys, u \in Subs : n = <<j, u>>
  BY <1>1, <1>4
<1>6. OnDelete(u, j)
  BY <1>1, <1>5
<1>7. /\ job'[p].removes = job[p].removes \ {<<j, u>>} /\ job'[p].adds = job[p].adds
      /\ \A q \in Loaders \ {p} : job'[q] = job[q]
  BY <1>1, <1>3, <1>5 DEF Job
<1>8. /\ \A s \in Subs \ {u} : pairs'[s] = pairs[s] /\ mapping'[s] = mapping[s]
      /\ pairs'[u] = pairs[u] \ {<<mapping[u][j], j>>}
      /\ \A k \in Keys : mapping'[u][k] = IF k = j THEN NoVal ELSE mapping[u][k]
  BY <1>3, <1>6, RemoveKey
<1>9. \A s \in Subs, k \in Keys, q \in Loaders, v \in Vals :
          <<k, v, s>> \in job'[q].adds <=> <<k, v, s>> \in job[q].adds
  BY <1>7
<1>10. \A s \in Subs, k \in Keys, q \in Loaders : s # u \/ k # j =>
          (<<k, s>> \in job'[q].removes <=> <<k, s>> \in job[q].removes)
  BY <1>7
<1>11. ASSUME NEW s \in Subs \ Exclusive, s # u PROVE Told(s)'
  BY <1>2, <1>8, <1>9, <1>10, <1>11, OthersTold
<1>12. ASSUME u \notin Exclusive PROVE Told(u)'
  <2>1. PairsInv(u) /\ \A k \in Keys : Owed(u, k) => ToldInv(u, k)
    BY <1>12, SubscriberInvIs DEF Told
  <2>2. KeptValue(j)' => \A v \in Vals : <<v, j>> \notin pairs'[u]
    BY <1>8, <2>1, KeptBefore DEF PairsInv
  <2>3. PairsInv(u)'
    <3>1. ASSUME NEW k \in Keys, NEW v \in Vals, <<v, k>> \in pairs'[u]
          PROVE  <<k, v>> \in EverPut' /\ (KeptValue(k)' => mapping'[u][k] = v)
      <4>1. <<k, v>> \in EverPut /\ (KeptValue(k)' => mapping[u][k] = v)
        BY <1>8, <2>1, <3>1, KeptBefore DEF PairsInv
      <4>2. k = j => ~KeptValue(k)'
        BY <2>2, <3>1
      <4> QED
        BY <1>8, <4>1, <4>2 DEF PutsStay
    <3>2. pc'[u] = "new" => pairs'[u] = {}
      BY <1>2, <1>8, <2>1 DEF PairsInv
    <3> QED
      BY <3>1, <3>2 DEF PairsInv
  <2>4. ASSUME NEW k \in Keys, Owed(u, k)' PROVE ToldInv(u, k)'
    <3>1. ToldInv(u, k) /\ values' = values
      BY <1>2, <2>1, <2>4, OwedBefore DEF Owed
    <3>2. CASE k # j
      <4>1. \A v \in Vals : Has(u, k, v)' <=> Has(u, k, v)
        BY <1>8, <3>2 DEF Has
      <4>2. /\ \A q \in Loaders : <<k, u>> \in job'[q].removes <=> <<k, u>> \in job[q].removes
            /\ \A q \in Loaders, v \in Vals :
                    <<k, v, u>> \in job'[q].adds <=> <<k, v, u>> \in job[q].adds
        BY <1>9, <1>10, <3>2
      <4> QED
        BY <3>1, <4>1, <4>2, ToldSame
    <3>3. CASE k = j
      <4>1. <<k, u>> \in job[p].removes /\ Telling(p, k, u)
        BY <1>1, <1>5, <3>3 DEF Telling
      <4>2. values[k] = NoVal
        BY <3>1, <4>1 DEF ToldInv
      <4>3. ~Telling(p, k, u)'
        BY <1>2, <1>7, <3>3 DEF Telling
      <4>4. \A q \in Loaders \ {p} : ~Telling(q, k, u)
        BY <3>1, <4>1 DEF ToldInv
      <4>5. \A q \in Loaders \ {p} : ~Telling(q, k, u)'
        BY <1>7, <4>4 DEF Telling
      <4>6. \A v \in Vals : Has(u, k, v)' <=> values'[k] = v
        BY <1>3, <2>2, <2>4, <3>1, <3>3, <4>2 DEF Has, Owed
      <4> QED
        BY <4>3, <4>5, <4>6, ToldAll
    <3> QED
      BY <3>2, <3>3
  <2> QED
    BY <2>3, <2>4 DEF Told
<1> QED
  BY <1>11, <1>12, SubscriberInvIs

LEMMA SubscribersKept ==
    ASSUME Typed, Where, Positions, CallInv, SubscriberInv, [Next]_vars
    PROVE  SubscriberInv'
<1>0. PutsStay
  BY PutsStayPut
<1>1. ASSUME UNCHANGED <<pc, job, disturbed, conn, watching, cache, containers>> PROVE SubscriberInv'
  <2>1. Calm
    BY <1>1 DEF Calm, cache, containers
  <2> QED
    BY <1>0, <2>1, CalmTold
<1>2. CASE \/ \E kv \in Puts : EtcdPut(kv[1], kv[2])
           \/ \E k \in Keys : EtcdDelete(k)
  BY <1>1, <1>2 DEF EtcdPut, EtcdDelete
<1>3. ASSUME NEW s \in Subs, Monitor(s) PROVE SubscriberInv'
  BY <1>0, <1>3, MonitorTold
<1>4. ASSUME NEW p \in Loaders, HandleChanges(p) PROVE SubscriberInv'
  BY <1>0, <1>4, ChangesTold
<1>5. ASSUME NEW p \in Loaders, NotifyAdd(p) PROVE SubscriberInv'
  BY <1>0, <1>5, AddTold
<1>6. ASSUME NEW p \in Loaders, NotifyDelete(p) PROVE SubscriberInv'
  BY <1>0, <1>6, DeleteTold
<1>7. ASSUME NEW w \in Watchers, ApplyEvent(w) PROVE SubscriberInv'
  BY <1>0, <1>7, EventTold
<1>8. CASE \/ \E s \in Subs : Register(s) \/ StartWatch(s)
           \/ \E p \in Loaders : Load(p)
           \/ \E w \in Watchers : \/ WatchResponse(w) \/ WatchFailure(w) \/ WatchDone(w)
                                  \/ CopyListeners(w)
           \/ Disconnect
           \/ \E r \in Reloaders : Reconnect(r) \/ Reload(r) \/ Reloaded(r) \/ Restart(r)
           \/ UNCHANGED vars
  <2>1. Calm
    BY <1>8, CalmSteps DEF CalmCalls
  <2> QED
    BY <1>0, <2>1, CalmTold
<1> QED
  BY <1>2, <1>3, <1>4, <1>5, <1>6, <1>7, <1>8 DEF Next

LEMMA InitSubscribers == Init => SInv
<1> SUFFICES ASSUME Init PROVE CallInv /\ SubscriberInv
  BY DEF SInv
<1>1. /\ log = <<>> /\ Len(log) = 0 /\ values = Nothing /\ job = [p \in Loaders |-> NoJob]
      /\ pc = [p \in Loaders \cup Reloaders |-> IF p \in Subs THEN "new" ELSE "idle"]
      /\ pairs = [s \in Subs |-> {}] /\ Subs \subseteq Loaders
  BY DEF Init, Loaders
<1>2. \A p \in Loaders : Notified(p) /\ job[p].told = {} /\ job[p].snap = Nothing
  BY <1>1, NoJobFacts DEF Notified
<1>3. \A p \in Loaders : Calls(p)
  BY <1>2, NothingPublished DEF Calls, Notified, Telling
<1>4. CallInv
  BY <1>1, <1>3, NothingPublished DEF CallInv
<1>5. \A s \in Subs : pc[s] = "new" /\ pairs[s] = {}
  BY <1>1
<1>6. SubscriberInv
  BY <1>5 DEF SubscriberInv, PairsInv, Owed
<1> QED
  BY <1>4, <1>6

LEMMA NextSubscribers == IInv /\ SInv /\ [Next]_vars => SInv'
<1> SUFFICES ASSUME IInv, SInv, [Next]_vars PROVE SInv'
  OBVIOUS
<1>1. Typed /\ Where /\ Positions /\ CallInv /\ SubscriberInv
  BY TypeOKIs DEF IInv, SInv
<1>2. CallInv' /\ SubscriberInv'
  BY <1>1, CallsKept, SubscribersKept
<1> QED
  BY <1>2 DEF SInv

\* Once nothing is left to do no call is left to make either.
LEMMA QuietSubscribers == IInv /\ SInv => KeysComplete
<1> SUFFICES ASSUME IInv, SInv, Quiet, NEW s \in Subs \ Exclusive, NEW k \in Keys, NEW v \in Vals,
                    pc[s] = "done", k \notin disturbed[s], KeptValue(k)
             PROVE  <<v, k>> \in pairs[s] <=> Current[k] = v
  BY DEF KeysComplete
<1>1. values = Current
  BY QuietCache DEF CacheConverges
<1>2. ASSUME NEW p \in Loaders PROVE Notified(p)
  <2>1. pc[p] \notin Talking => Notified(p)
    BY DEF SInv, CallInv, Calls
  <2>2. p \in Subs => Notified(p)
    BY <2>1 DEF Quiet, Talking
  <2>3. p \in Watchers => Notified(p)
    BY <2>1 DEF Quiet, Talking
  <2> QED
    BY <2>2, <2>3 DEF Loaders
<1>3. \A p \in Loaders : ~Telling(p, k, s)
  BY <1>2 DEF Notified, Telling
<1>4. ToldInv(s, k)
  BY DEF SInv, SubscriberInv, Owed
<1> QED
  BY <1>1, <1>3, <1>4 DEF ToldInv, Has

\* Of a key that kept its value, a subscriber that no other goroutine disturbs has
\* in the end just the pair that etcd has: joining late, repeated events, reloads
\* and calls made outside the lock lose nothing else, whatever other keys do, for
\* any number of keys, values, subscribers and goroutines.
THEOREM SubscribersComplete == Spec => []KeysComplete
<1>1. Spec => []SInv
  BY InvHolds, InitSubscribers, NextSubscribers, PTL DEF Spec
<1> QED
  BY <1>1, InvHolds, QuietSubscribers, PTL

=============================================================================
