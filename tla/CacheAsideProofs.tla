-------------------------- MODULE CacheAsideProofs --------------------------
(***************************************************************************)
(* Theorems about CacheAside, for any number of processes, readers and     *)
(* writers, placed in any way, and any number of updates.                  *)
(***************************************************************************)
EXTENDS CacheAside, TLAPS

USE DEF flight

Kinds   == {"none", "bad", "hole", "value"}
Results == [kind : {"none", "hit", "row", "notFound", "error", "panic"}, ver : 0..MaxUpdates]

\* Types, without the relation of lead and home.
StoreTypes ==
    /\ home \in Homes
    /\ db \in [ver : 0..MaxUpdates, there : BOOLEAN]
    /\ cache \in [kind : Kinds, ver : 0..MaxUpdates, late : BOOLEAN]
    /\ lost \in BOOLEAN

FlightTypes ==
    /\ calls \in [Procs -> Readers \cup {Nobody}]
    /\ pc \in [Readers \cup Writers -> ReaderPc \cup WriterPc]
    /\ \A r \in Readers : pc[r] \in ReaderPc
    /\ \A w \in Writers : pc[w] \in WriterPc
    /\ lead \in [Readers -> Readers \cup {Nobody}]

ValueTypes ==
    /\ read \in [Readers -> 0..MaxUpdates]
    /\ result \in [Readers -> Results]
    /\ since \in [Readers -> 0..MaxUpdates]

TaskTypes == tasks \in [Procs -> [Delays -> Nat]]

Types == StoreTypes /\ FlightTypes /\ ValueTypes /\ TaskTypes

-----------------------------------------------------------------------------
\* The single flight of each process: the call in the map is made by a reader of
\* this process, every reader that makes a call is in the map, and those that
\* wait do so for the call in the map.
FlightExact ==
    /\ \A p \in Procs : calls[p] # Nobody => home[calls[p]] = p /\ Leading(calls[p])
    /\ \A r \in Readers :
          /\ Leading(r) => calls[home[r]] = r
          /\ pc[r] = "join" => lead[r] # Nobody /\ lead[r] = calls[home[r]]
                                /\ since[r] = since[lead[r]]
          /\ pc[r] # "join" => lead[r] = Nobody

\* How old what a reader has read, or is about to return, can be.
Reads(r) ==
    /\ since[r] <= db.ver
    /\ read[r] <= db.ver
    /\ pc[r] \in {"fill", "hole"} => read[r] >= since[r]
    /\ pc[r] \in {"end", "done"} /\ result[r].kind \in {"row", "notFound"} =>
          result[r].ver >= since[r]

\* A reader that has read the current version knows whether the row is there.
Knows(r) ==
    /\ pc[r] = "fill" /\ read[r] = db.ver => db.there
    /\ pc[r] = "hole" /\ read[r] = db.ver => ~db.there

\* The inductive invariant.
IInv ==
    /\ Types
    /\ FlightExact
    /\ \A r \in Readers : Reads(r) /\ Knows(r)
    /\ StaleHasReason

-----------------------------------------------------------------------------
LEMMA HomeFacts ==
    ASSUME Types, NEW g \in Readers \cup Writers
    PROVE  home[g] \in Procs
BY ProcAssumption DEF Types, StoreTypes

LEMMA Constants ==
    /\ Empty \in [kind : Kinds, ver : 0..MaxUpdates, late : BOOLEAN]
    /\ Nothing \in Results
    /\ \A k \in {"hit", "row", "notFound", "error", "panic"}, v \in 0..MaxUpdates :
          /\ Outcome(k, v) \in Results
          /\ Outcome(k, v).kind = k
          /\ Outcome(k, v).ver = v
    /\ 0 \in 0..MaxUpdates
BY BoundAssumption DEF Empty, Nothing, Outcome, Kinds, Results

LEMMA InitTypes == Init => Types
<1> SUFFICES ASSUME Init PROVE Types
  OBVIOUS
<1>1. StoreTypes
  BY BoundAssumption, Constants DEF Init, StoreTypes
<1>2. FlightTypes
  BY DEF Init, FlightTypes, ReaderPc, WriterPc
<1>3. ValueTypes
  BY Constants DEF Init, ValueTypes
<1>4. TaskTypes
  BY DEF Init, TaskTypes
<1> QED
  BY <1>1, <1>2, <1>3, <1>4 DEF Types

\* What redis holds after a step is of the right kind.
LEMMA StoreStep ==
    ASSUME Types, [Next]_vars
    PROVE  StoreTypes'
<1> USE DEF Types, StoreTypes, RedisEffect
<1>1. ASSUME NEW r \in Readers, Take(r) PROVE StoreTypes'
  BY <1>1 DEF Take
<1>2. ASSUME NEW k \in {"hole", "value"}, NEW v \in 0..MaxUpdates
      PROVE  Stored(k, v) \in [kind : Kinds, ver : 0..MaxUpdates, late : BOOLEAN]
  BY BoundAssumption DEF Stored, Kinds
<1>3. ASSUME NEW r \in Readers, ReaderStep(r) PROVE StoreTypes'
  <2>1. read[r] \in 0..MaxUpdates
    BY DEF ValueTypes
  <2>2. CASE GetCache(r) \/ Query(r) \/ EndCall(r) \/ Return(r)
    BY <2>2 DEF GetCache, Query, EndCall, Return
  <2>3. CASE Purge(r)
    BY <2>3, Constants DEF Purge
  <2>4. CASE Fill(r)
    BY <1>2, <2>1, <2>4 DEF Fill
  <2>5. CASE FillHole(r)
    <3>1. Stored("hole", read[r]) \in [kind : Kinds, ver : 0..MaxUpdates, late : BOOLEAN]
      BY <1>2, <2>1
    <3>2. cache' \in {cache, Stored("hole", read[r])} /\ UNCHANGED <<home, db, lost>>
      BY <2>5 DEF FillHole
    <3> QED
      BY <3>1, <3>2
  <2> QED
    BY <1>3, <2>2, <2>3, <2>4, <2>5 DEF ReaderStep
<1>4. ASSUME NEW w \in Writers, NEW there \in BOOLEAN, Exec(w, there) PROVE StoreTypes'
  <2>1. UNCHANGED <<home, cache>> /\ db' \in [ver : 0..MaxUpdates, there : BOOLEAN]
    BY <1>4, BoundAssumption DEF Exec
  <2>2. lost' \in BOOLEAN
    BY <1>4, Zenon DEF Exec
  <2> QED
    BY <2>1, <2>2
<1>5. ASSUME NEW w \in Writers, DelCache(w) PROVE StoreTypes'
  BY <1>5, Constants DEF DelCache
<1>6. ASSUME NEW p \in Procs, NEW d \in Delays, Clean(p, d) PROVE StoreTypes'
  BY <1>6, Constants DEF Clean
<1>7. CASE Expire
  BY <1>7, Constants DEF Expire
<1>8. CASE Spoil
  BY <1>8, BoundAssumption DEF Spoil, Kinds
<1>9. ASSUME NEW p \in Procs, Crash(p) PROVE StoreTypes'
  BY <1>9 DEF Crash
<1>10. CASE UNCHANGED vars
  BY <1>10 DEF vars
<1> QED
  BY <1>1, <1>3, <1>4, <1>5, <1>6, <1>7, <1>8, <1>9, <1>10 DEF Next

LEMMA FlightStep ==
    ASSUME Types, [Next]_vars
    PROVE  FlightTypes'
<1> USE DEF Types, FlightTypes
<1>0. \A g \in Readers \cup Writers : home[g] \in Procs
  BY HomeFacts
<1>1. ASSUME NEW r \in Readers, Take(r) PROVE FlightTypes'
  BY <1>0, <1>1, ProcAssumption DEF Take, ReaderPc
<1>3. ASSUME NEW r \in Readers, ReaderStep(r) PROVE FlightTypes'
  <2>1. CASE GetCache(r) \/ Query(r) \/ Return(r) \/ Purge(r) \/ Fill(r) \/ FillHole(r)
    <3>1. /\ \E s \in ReaderPc : pc' = [pc EXCEPT ![r] = s]
          /\ UNCHANGED <<calls, lead>>
      BY <2>1 DEF GetCache, Query, Return, Purge, Fill, FillHole, Concludes, ReaderPc
    <3> QED
      BY <3>1, ProcAssumption
  <2>2. CASE EndCall(r)
    <3>1. /\ calls' = [calls EXCEPT ![home[r]] = Nobody]
          /\ pc' = [g \in DOMAIN pc |-> IF g \in Joined(r) \cup {r} THEN "done" ELSE pc[g]]
          /\ lead' = [j \in Readers |-> IF j \in Joined(r) \cup {r} THEN Nobody ELSE lead[j]]
      BY <2>2 DEF EndCall
    <3>2. Joined(r) \cup {r} \subseteq Readers
      BY DEF Joined
    <3>3. "done" \in ReaderPc
      BY DEF ReaderPc
    <3> QED
      BY <1>0, <3>1, <3>2, <3>3, ProcAssumption
  <2> QED
    BY <1>3, <2>1, <2>2 DEF ReaderStep
<1>4. ASSUME NEW w \in Writers, NEW there \in BOOLEAN, Exec(w, there) PROVE FlightTypes'
  BY <1>4, ProcAssumption DEF Exec, WriterPc
<1>5. ASSUME NEW w \in Writers, DelCache(w) PROVE FlightTypes'
  BY <1>5, ProcAssumption DEF DelCache, WriterPc
<1>6. ASSUME NEW p \in Procs, NEW d \in Delays, Clean(p, d) PROVE FlightTypes'
  BY <1>6 DEF Clean
<1>7. CASE Expire \/ Spoil
  BY <1>7 DEF Expire, Spoil
<1>9. ASSUME NEW p \in Procs, Crash(p) PROVE FlightTypes'
  BY <1>9 DEF Crash, ReaderPc, WriterPc
<1>10. CASE UNCHANGED vars
  BY <1>10 DEF vars
<1> QED
  BY <1>1, <1>3, <1>4, <1>5, <1>6, <1>7, <1>9, <1>10 DEF Next

LEMMA ValueStep ==
    ASSUME Types, [Next]_vars
    PROVE  ValueTypes'
<1> USE DEF Types, ValueTypes
<1>0. db.ver \in 0..MaxUpdates
  BY DEF StoreTypes
<1>1. ASSUME NEW r \in Readers, Take(r) PROVE ValueTypes'
  <2>1. \E v \in 0..MaxUpdates : since' = [since EXCEPT ![r] = v]
    <3>1. calls[home[r]] \in Readers \cup {Nobody}
      BY HomeFacts DEF FlightTypes
    <3> QED
      BY <1>0, <1>1, <3>1 DEF Take
  <2> QED
    BY <1>1, <2>1 DEF Take
<1>3. ASSUME NEW r \in Readers, ReaderStep(r) PROVE ValueTypes'
  <2>1. /\ UNCHANGED since \/ since' = [since EXCEPT ![r] = 0]
        /\ UNCHANGED read \/ \E v \in 0..MaxUpdates : read' = [read EXCEPT ![r] = v]
    <3>1. CASE GetCache(r) \/ Purge(r) \/ EndCall(r) \/ Return(r)
      BY <3>1 DEF GetCache, Purge, EndCall, Return
    <3>2. CASE Query(r)
      BY <1>0, <3>2 DEF Query
    <3>3. CASE Fill(r) \/ FillHole(r)
      BY <3>3, Constants DEF Fill, FillHole
    <3> QED
      BY <1>3, <3>1, <3>2, <3>3 DEF ReaderStep
  <2>2. result' \in [Readers -> Results]
    <3>1. CASE GetCache(r) \/ Query(r) \/ Return(r) \/ Purge(r) \/ Fill(r) \/ FillHole(r)
      <4>1. read[r] \in 0..MaxUpdates
        OBVIOUS
      <4>2. UNCHANGED result \/ \E o \in Results : result' = [result EXCEPT ![r] = o]
        BY <3>1, <4>1, Constants DEF GetCache, Query, Return, Purge, Fill, FillHole, Concludes
      <4> QED
        BY <4>2
    <3>2. CASE EndCall(r)
      BY <3>2 DEF EndCall
    <3> QED
      BY <1>3, <3>1, <3>2 DEF ReaderStep
  <2>3. since' \in [Readers -> 0..MaxUpdates] /\ read' \in [Readers -> 0..MaxUpdates]
    BY <2>1, BoundAssumption
  <2> QED
    BY <2>2, <2>3
<1>4. ASSUME NEW w \in Writers, NEW there \in BOOLEAN, Exec(w, there) PROVE ValueTypes'
  BY <1>4 DEF Exec
<1>5. ASSUME NEW w \in Writers, DelCache(w) PROVE ValueTypes'
  BY <1>5 DEF DelCache
<1>6. ASSUME NEW p \in Procs, NEW d \in Delays, Clean(p, d) PROVE ValueTypes'
  BY <1>6 DEF Clean
<1>7. CASE Expire \/ Spoil
  BY <1>7 DEF Expire, Spoil
<1>9. ASSUME NEW p \in Procs, Crash(p) PROVE ValueTypes'
  BY <1>9, Constants DEF Crash
<1>10. CASE UNCHANGED vars
  BY <1>10 DEF vars
<1> QED
  BY <1>1, <1>3, <1>4, <1>5, <1>6, <1>7, <1>9, <1>10 DEF Next

LEMMA TaskStep ==
    ASSUME Types, [Next]_vars
    PROVE  TaskTypes'
<1> USE DEF Types, TaskTypes
<1>1. ASSUME NEW r \in Readers, Take(r) \/ ReaderStep(r) PROVE TaskTypes'
  BY <1>1 DEF Take, ReaderStep, GetCache, Query, Return, Purge, Fill, FillHole, EndCall
<1>2. ASSUME NEW w \in Writers, NEW there \in BOOLEAN, Exec(w, there) PROVE TaskTypes'
  BY <1>2 DEF Exec
<1>3. ASSUME NEW w \in Writers, DelCache(w) PROVE TaskTypes'
  <2>1. home[w] \in Procs /\ 1 \in Delays
    BY HomeFacts DEF Delays
  <2>2. UNCHANGED tasks \/ tasks' = [tasks EXCEPT ![home[w]] = [tasks[home[w]] EXCEPT
                                         ![1] = tasks[home[w]][1] + 1]]
    BY <1>3, <2>1 DEF DelCache
  <2>3. [tasks[home[w]] EXCEPT ![1] = tasks[home[w]][1] + 1] \in [Delays -> Nat]
    BY <2>1
  <2> QED
    BY <2>1, <2>2, <2>3
<1>4. ASSUME NEW p \in Procs, NEW d \in Delays, Clean(p, d) PROVE TaskTypes'
  <2> DEFINE rest == [tasks[p] EXCEPT ![d] = @ - 1]
             next == NextDelay(d)
  <2>1. rest \in [Delays -> Nat]
    BY <1>4 DEF Clean
  <2>2. next # 0 => next \in Delays
    BY DEF NextDelay, Delays
  <2>3. next # 0 => [rest EXCEPT ![next] = @ + 1] \in [Delays -> Nat]
    <3> HIDE DEF rest, next
    <3> QED
      BY <2>1, <2>2
  <2>4. \/ tasks' = [tasks EXCEPT ![p] = rest]
        \/ next # 0 /\ tasks' = [tasks EXCEPT ![p] = [rest EXCEPT ![next] = @ + 1]]
    BY <1>4 DEF Clean
  <2> HIDE DEF rest, next
  <2> QED
    BY <2>1, <2>3, <2>4
<1>5. CASE Expire \/ Spoil
  BY <1>5 DEF Expire, Spoil
<1>6. ASSUME NEW p \in Procs, Crash(p) PROVE TaskTypes'
  BY <1>6 DEF Crash
<1>7. CASE UNCHANGED vars
  BY <1>7 DEF vars
<1> QED
  BY <1>1, <1>2, <1>3, <1>4, <1>5, <1>6, <1>7 DEF Next

LEMMA NextTypes == Types /\ [Next]_vars => Types'
BY StoreStep, FlightStep, ValueStep, TaskStep DEF Types

-----------------------------------------------------------------------------
\* The steps inside a call, and the steps of everybody else.
LEMMA SameFlight ==
    ASSUME Types, FlightExact, UNCHANGED <<home, calls, lead, since>>,
           \A g \in Readers : (Leading(g)' <=> Leading(g)) /\ (pc'[g] = "join" <=> pc[g] = "join")
    PROVE  FlightExact'
<1>1. \A p \in Procs : calls[p] # Nobody => calls[p] \in Readers
  BY DEF Types, FlightTypes
<1> QED
  BY <1>1 DEF FlightExact

LEMMA InsideCall ==
    ASSUME Types, NEW r \in Readers,
           GetCache(r) \/ Purge(r) \/ Query(r) \/ Fill(r) \/ FillHole(r)
    PROVE  /\ UNCHANGED <<home, db, calls, lead, since, tasks, lost>>
           /\ pc[r] \in {"get", "purge", "query", "fill", "hole"}
           /\ \E s \in {"purge", "query", "fill", "hole", "end"} : pc' = [pc EXCEPT ![r] = s]
BY DEF GetCache, Purge, Query, Fill, FillHole, Concludes

LEMMA FlightKept ==
    ASSUME Types, FlightExact, [Next]_vars
    PROVE  FlightExact'
<1>0. /\ \A g \in Readers \cup Writers : home[g] \in Procs
      /\ \A p \in Procs : calls[p] # Nobody => calls[p] \in Readers
      /\ Nobody \notin Readers
      /\ pc \in [Readers \cup Writers -> ReaderPc \cup WriterPc]
      /\ lead \in [Readers -> Readers \cup {Nobody}]
      /\ since \in [Readers -> 0..MaxUpdates]
      /\ calls \in [Procs -> Readers \cup {Nobody}]
  BY HomeFacts, ProcAssumption DEF Types, FlightTypes, ValueTypes
<1>1. ASSUME NEW r \in Readers, Take(r) PROVE FlightExact'
  <2>1. ~Leading(r) /\ pc[r] # "join"
    BY <1>1 DEF Take, Leading
  <2>2. CASE calls[home[r]] = Nobody
    <3>1. /\ pc' = [pc EXCEPT ![r] = "get"]
          /\ calls' = [calls EXCEPT ![home[r]] = r]
          /\ since' = [since EXCEPT ![r] = db.ver]
          /\ UNCHANGED <<home, lead>>
      BY <1>1, <2>2 DEF Take
    <3> QED
      BY <1>0, <2>1, <2>2, <3>1 DEF FlightExact, Leading
  <2>3. CASE calls[home[r]] # Nobody
    <3>1. /\ pc' = [pc EXCEPT ![r] = "join"]
          /\ lead' = [lead EXCEPT ![r] = calls[home[r]]]
          /\ since' = [since EXCEPT ![r] = since[calls[home[r]]]]
          /\ UNCHANGED <<home, calls>>
      BY <1>1, <2>3 DEF Take
    <3> QED
      BY <1>0, <2>1, <2>3, <3>1 DEF FlightExact, Leading
  <2> QED
    BY <2>2, <2>3
<1>2. ASSUME NEW r \in Readers,
             GetCache(r) \/ Purge(r) \/ Query(r) \/ Fill(r) \/ FillHole(r)
      PROVE FlightExact'
  <2>1. \A g \in Readers : (Leading(g)' <=> Leading(g)) /\ (pc'[g] = "join" <=> pc[g] = "join")
    BY <1>0, <1>2, InsideCall DEF Leading
  <2> QED
    BY <1>2, <2>1, InsideCall, SameFlight
<1>3. ASSUME NEW r \in Readers, EndCall(r) PROVE FlightExact'
  <2>1. /\ pc[r] = "end"
        /\ calls' = [calls EXCEPT ![home[r]] = Nobody]
        /\ pc' = [g \in Readers \cup Writers |-> IF g \in Joined(r) \cup {r} THEN "done" ELSE pc[g]]
        /\ lead' = [j \in Readers |-> IF j \in Joined(r) \cup {r} THEN Nobody ELSE lead[j]]
        /\ UNCHANGED <<home, since>>
    BY <1>0, <1>3 DEF EndCall
  <2>2. Leading(r) /\ calls[home[r]] = r
    BY <2>1 DEF FlightExact, Leading
  <2>3. Joined(r) = {j \in Readers : pc[j] = "join" /\ home[j] = home[r]}
    BY <1>0, <2>2 DEF Joined, FlightExact
  <2>4. \A j \in Readers : Leading(j)' <=> Leading(j) /\ j # r
    BY <1>0, <2>1, <2>3 DEF Leading
  <2> QED
    BY <1>0, <2>1, <2>2, <2>3, <2>4 DEF FlightExact
<1>4. ASSUME NEW r \in Readers, Return(r) PROVE FlightExact'
  <2>1. /\ pc[r] = "done"
        /\ pc' = [pc EXCEPT ![r] = "idle"]
        /\ since' = [since EXCEPT ![r] = 0]
        /\ UNCHANGED <<home, calls, lead>>
    BY <1>4 DEF Return
  <2> QED
    BY <1>0, <2>1 DEF FlightExact, Leading
<1>5. ASSUME NEW w \in Writers, DelCache(w) \/ \E there \in BOOLEAN : Exec(w, there)
      PROVE FlightExact'
  <2>1. /\ UNCHANGED <<home, calls, lead, since>>
        /\ UNCHANGED pc \/ \E s \in WriterPc : pc' = [pc EXCEPT ![w] = s]
    BY <1>5 DEF DelCache, Exec, WriterPc
  <2>2. \A g \in Readers : pc'[g] = pc[g]
    BY <1>0, <2>1, ProcAssumption
  <2> QED
    BY <2>1, <2>2, SameFlight DEF Leading
<1>6. ASSUME NEW p \in Procs, NEW d \in Delays, Clean(p, d) PROVE FlightExact'
  BY <1>6, SameFlight DEF Clean, Leading
<1>7. CASE Expire \/ Spoil
  BY <1>7, SameFlight DEF Expire, Spoil, Leading
<1>8. ASSUME NEW p \in Procs, Crash(p) PROVE FlightExact'
  <2>1. /\ calls' = [calls EXCEPT ![p] = Nobody]
        /\ pc' = [g \in Readers \cup Writers |-> IF home[g] = p THEN "idle" ELSE pc[g]]
        /\ lead' = [r \in Readers |-> IF home[r] = p THEN Nobody ELSE lead[r]]
        /\ since' = [r \in Readers |-> IF home[r] = p THEN 0 ELSE since[r]]
        /\ UNCHANGED home
    BY <1>0, <1>8 DEF Crash
  <2> QED
    BY <1>0, <2>1 DEF FlightExact, Leading
<1>9. CASE UNCHANGED vars
  BY <1>9, SameFlight DEF vars, Leading
<1> QED
  BY <1>1, <1>2, <1>3, <1>4, <1>5, <1>6, <1>7, <1>8, <1>9 DEF Next, ReaderStep

-----------------------------------------------------------------------------
\* The versions are numbers.
LEMMA Versions ==
    ASSUME Types, NEW r \in Readers
    PROVE  /\ db.ver \in Nat /\ cache.ver \in Nat
           /\ since[r] \in Nat /\ read[r] \in Nat /\ result[r].ver \in Nat
           /\ cache.late \in BOOLEAN /\ db.there \in BOOLEAN
           /\ pc \in [Readers \cup Writers -> ReaderPc \cup WriterPc]
           /\ read \in [Readers -> 0..MaxUpdates]
           /\ result \in [Readers -> Results]
           /\ since \in [Readers -> 0..MaxUpdates]
<1>1. since[r] \in 0..MaxUpdates /\ read[r] \in 0..MaxUpdates /\ result[r] \in Results
  BY DEF Types, ValueTypes
<1>2. result[r].ver \in 0..MaxUpdates
  BY <1>1 DEF Results
<1> QED
  BY <1>1, <1>2, BoundAssumption DEF Types, StoreTypes, FlightTypes, ValueTypes

LEMMA ReadsKept ==
    ASSUME Types, FlightExact, \A r \in Readers : Reads(r) /\ Knows(r), [Next]_vars,
           NEW q \in Readers
    PROVE  Reads(q)' /\ Knows(q)'
<1> USE DEF Reads, Knows
<1>0. /\ db.ver \in Nat /\ since[q] \in Nat /\ read[q] \in Nat /\ result[q].ver \in Nat
      /\ db.there \in BOOLEAN
      /\ pc \in [Readers \cup Writers -> ReaderPc \cup WriterPc]
      /\ read \in [Readers -> 0..MaxUpdates]
      /\ result \in [Readers -> Results]
      /\ since \in [Readers -> 0..MaxUpdates]
  BY Versions
<1>1. ASSUME NEW r \in Readers, Take(r) PROVE Reads(q)' /\ Knows(q)'
  <2>1. \E g \in Readers : since'[r] = db.ver \/ since'[r] = since[g]
    <3>1. calls[home[r]] \in Readers \cup {Nobody}
      BY HomeFacts DEF Types, FlightTypes
    <3> QED
      BY <1>0, <1>1, <3>1 DEF Take
  <2>2. pc'[r] \in {"get", "join"} /\ UNCHANGED <<db, read, result>>
    BY <1>0, <1>1 DEF Take
  <2>3. q # r => since'[q] = since[q] /\ pc'[q] = pc[q]
    BY <1>0, <1>1 DEF Take
  <2> QED
    BY <1>0, <2>1, <2>2, <2>3
<1>2. ASSUME NEW r \in Readers, GetCache(r) \/ Purge(r)
      PROVE Reads(q)' /\ Knows(q)'
  <2>1. /\ pc'[r] \in {"query", "purge", "end"}
        /\ pc'[r] = "end" => result'[r].kind \in {"hit", "error"}
        /\ UNCHANGED <<db, read, since>>
        /\ q # r => pc'[q] = pc[q] /\ result'[q] = result[q]
    BY <1>0, <1>2 DEF GetCache, Purge, Concludes, Outcome
  <2> QED
    BY <1>0, <2>1
<1>3. ASSUME NEW r \in Readers, Query(r) PROVE Reads(q)' /\ Knows(q)'
  <2>1. /\ \/ /\ pc'[r] = IF db.there THEN "fill" ELSE "hole"
              /\ read'[r] = db.ver
           \/ /\ pc'[r] = "end" /\ result'[r].kind \in {"error", "panic"}
              /\ UNCHANGED read
        /\ UNCHANGED <<db, since>>
        /\ q # r => pc'[q] = pc[q] /\ result'[q] = result[q] /\ read'[q] = read[q]
    BY <1>0, <1>3 DEF Query, Concludes, Outcome
  <2>2. CASE q = r
    BY <1>0, <2>1, <2>2
  <2>3. CASE q # r
    BY <2>1, <2>3
  <2> QED
    BY <2>2, <2>3
<1>4. ASSUME NEW r \in Readers, Fill(r) \/ FillHole(r) PROVE Reads(q)' /\ Knows(q)'
  <2>1. /\ pc[r] \in {"fill", "hole"} /\ pc'[r] = "end"
        /\ result'[r].ver = read[r] /\ read'[r] = 0
        /\ UNCHANGED <<db, since>>
        /\ q # r => pc'[q] = pc[q] /\ result'[q] = result[q] /\ read'[q] = read[q]
    BY <1>0, <1>4 DEF Fill, FillHole, Concludes, Outcome
  <2> QED
    BY <1>0, <2>1
<1>5. ASSUME NEW r \in Readers, EndCall(r) PROVE Reads(q)' /\ Knows(q)'
  <2>1. /\ pc[r] = "end"
        /\ UNCHANGED <<db, read, since>>
        /\ IF q \in Joined(r) \cup {r}
           THEN pc'[q] = "done" /\ result'[q] = result[r]
           ELSE pc'[q] = pc[q] /\ result'[q] = result[q]
    BY <1>0, <1>5 DEF EndCall
  <2>2. q \in Joined(r) \cup {r} => since[q] = since[r]
    BY DEF Joined, FlightExact
  <2> QED
    BY <2>1, <2>2
<1>6. ASSUME NEW r \in Readers, Return(r) PROVE Reads(q)' /\ Knows(q)'
  <2>1. /\ pc'[r] = "idle" /\ since'[r] = 0
        /\ UNCHANGED <<db, read>>
        /\ q # r => pc'[q] = pc[q] /\ result'[q] = result[q] /\ since'[q] = since[q]
    BY <1>0, <1>6 DEF Return
  <2> QED
    BY <1>0, <2>1
<1>7. ASSUME NEW w \in Writers, NEW there \in BOOLEAN, Exec(w, there) PROVE Reads(q)' /\ Knows(q)'
  <2>1. db'.ver = db.ver + 1 /\ pc'[q] = pc[q] /\ UNCHANGED <<read, result, since>>
    BY <1>0, <1>7, ProcAssumption DEF Exec
  <2> QED
    BY <1>0, <2>1
<1>8. ASSUME NEW w \in Writers, DelCache(w) PROVE Reads(q)' /\ Knows(q)'
  <2>1. UNCHANGED <<db, read, result, since>> /\ pc'[q] = pc[q]
    BY <1>0, <1>8, ProcAssumption DEF DelCache
  <2> QED
    BY <2>1
<1>9. ASSUME NEW p \in Procs, NEW d \in Delays, Clean(p, d) PROVE Reads(q)' /\ Knows(q)'
  BY <1>9 DEF Clean
<1>10. CASE Expire \/ Spoil
  BY <1>10 DEF Expire, Spoil
<1>11. ASSUME NEW p \in Procs, Crash(p) PROVE Reads(q)' /\ Knows(q)'
  <2>1. /\ UNCHANGED db
        /\ \/ pc'[q] = "idle" /\ read'[q] = 0 /\ since'[q] = 0
           \/ /\ pc'[q] = pc[q] /\ read'[q] = read[q] /\ since'[q] = since[q]
              /\ result'[q] = result[q]
    BY <1>0, <1>11 DEF Crash
  <2> QED
    BY <1>0, <2>1
<1>12. CASE UNCHANGED vars
  BY <1>12 DEF vars
<1> QED
  BY <1>1, <1>2, <1>3, <1>4, <1>5, <1>6, <1>7, <1>8, <1>9, <1>10, <1>11, <1>12
     DEF Next, ReaderStep

-----------------------------------------------------------------------------
\* Somebody will delete the key, or nobody will any more.
Excused ==
    \/ \E w \in Writers : pc[w] = "del"
    \/ \E p \in Procs : Pending(p)
    \/ lost

LEMMA StaleKept ==
    ASSUME Types, \A r \in Readers : Reads(r) /\ Knows(r), StaleHasReason, [Next]_vars
    PROVE  StaleHasReason'
<1> USE DEF StaleHasReason
<1>0. ~Stale \/ cache.late \/ Excused
  BY DEF Excused
<1>1. SUFFICES ~Stale' \/ cache'.late \/ Excused'
  BY DEF Excused
<1>2. ASSUME cache' = Empty PROVE ~Stale'
  BY <1>2 DEF Stale, Empty
<1>3. ASSUME UNCHANGED <<cache, db>>, Excused => Excused' PROVE ~Stale' \/ cache'.late \/ Excused'
  BY <1>0, <1>3 DEF Stale
<1>4. ASSUME NEW g \in Readers, NEW s, pc' = [pc EXCEPT ![g] = s], UNCHANGED <<tasks, lost>>
      PROVE  Excused => Excused'
  <2>1. \A w \in Writers : pc'[w] = pc[w]
    BY <1>4, ProcAssumption DEF Types, FlightTypes
  <2> QED
    BY <1>4, <2>1 DEF Excused, Pending
<1>5. ASSUME NEW r \in Readers, Take(r) PROVE ~Stale' \/ cache'.late \/ Excused'
  BY <1>3, <1>4, <1>5 DEF Take
<1>6. ASSUME NEW r \in Readers, ReaderStep(r) PROVE ~Stale' \/ cache'.late \/ Excused'
  <2>1. CASE GetCache(r) \/ Purge(r) \/ Query(r) \/ Fill(r) \/ FillHole(r)
    <3>1. UNCHANGED db /\ (Excused => Excused')
      BY <1>4, <2>1, InsideCall
    <3>2. db.ver \in Nat /\ read[r] \in Nat /\ read[r] <= db.ver
      BY Versions DEF Reads
    <3>3. CASE UNCHANGED cache \/ cache' = Empty
      BY <1>2, <1>3, <3>1, <3>3
    <3>4. CASE Fill(r) /\ cache' = Stored("value", read[r])
      <4>1. /\ cache'.kind = "value" /\ cache'.ver = read[r]
            /\ cache'.late <=> read[r] < db.ver
        BY <3>4 DEF Stored
      <4>2. read[r] = db.ver \/ read[r] < db.ver
        BY <3>2
      <4>3. read[r] = db.ver => db.there
        BY <3>4 DEF Fill, Knows
      <4> QED
        BY <3>1, <4>1, <4>2, <4>3 DEF Stale
    <3>5. CASE FillHole(r) /\ cache' = Stored("hole", read[r])
      <4>1. /\ cache'.kind = "hole" /\ cache'.ver = read[r]
            /\ cache'.late <=> read[r] < db.ver
        BY <3>5 DEF Stored
      <4>2. read[r] = db.ver \/ read[r] < db.ver
        BY <3>2
      <4>3. read[r] = db.ver => ~db.there
        BY <3>5 DEF FillHole, Knows
      <4> QED
        BY <3>1, <4>1, <4>2, <4>3 DEF Stale
    <3> QED
      BY <2>1, <3>3, <3>4, <3>5 DEF GetCache, Purge, Query, Fill, FillHole, RedisEffect
  <2>2. CASE EndCall(r)
    <3>1. \A w \in Writers : pc'[w] = pc[w]
      BY <2>2, ProcAssumption DEF EndCall, Joined, Types, FlightTypes
    <3>2. Excused => Excused'
      BY <2>2, <3>1 DEF EndCall, Excused, Pending
    <3> QED
      BY <1>3, <2>2, <3>2 DEF EndCall
  <2>3. CASE Return(r)
    BY <1>3, <1>4, <2>3 DEF Return
  <2> QED
    BY <1>6, <2>1, <2>2, <2>3 DEF ReaderStep
<1>7. ASSUME NEW w \in Writers, NEW there \in BOOLEAN, Exec(w, there) PROVE Excused'
  BY <1>7 DEF Exec, Excused, Types, FlightTypes
<1>8. ASSUME NEW w \in Writers, DelCache(w) PROVE ~Stale' \/ Excused'
  <2>1. CASE cache' = Empty
    BY <1>2, <2>1
  <2>2. CASE tasks' = [tasks EXCEPT ![home[w]][1] = @ + 1]
    <3>1. home[w] \in Procs /\ 1 \in Delays
      BY HomeFacts DEF Delays
    <3>2. tasks[home[w]][1] \in Nat
      BY <3>1 DEF Types, TaskTypes
    <3>3. tasks'[home[w]][1] = tasks[home[w]][1] + 1
      BY <2>2, <3>1 DEF Types, TaskTypes
    <3> QED
      BY <3>1, <3>2, <3>3 DEF Excused, Pending
  <2> QED
    BY <1>8, <2>1, <2>2 DEF DelCache
<1>9. ASSUME NEW p \in Procs, NEW d \in Delays, Clean(p, d) PROVE ~Stale' \/ Excused'
  <2> DEFINE rest == [tasks[p] EXCEPT ![d] = @ - 1]
             next == NextDelay(d)
  <2>1. CASE cache' = Empty \/ lost'
    BY <1>2, <2>1 DEF Excused
  <2>2. CASE next # 0 /\ tasks' = [tasks EXCEPT ![p] = [rest EXCEPT ![next] = @ + 1]]
    <3>1. next \in Delays /\ next # d
      BY <2>2 DEF NextDelay, Delays
    <3>2. tasks'[p][next] = tasks[p][next] + 1 /\ tasks[p][next] \in Nat
      <4> HIDE DEF next
      <4> QED
        BY <2>2, <3>1 DEF Types, TaskTypes
    <3> QED
      BY <3>1, <3>2 DEF Excused, Pending
  <2> QED
    BY <1>9, <2>1, <2>2 DEF Clean
<1>10. CASE Expire
  BY <1>2, <1>10 DEF Expire
<1>11. CASE Spoil
  BY <1>11 DEF Spoil, Stale
<1>12. ASSUME NEW p \in Procs, Crash(p) PROVE ~Stale' \/ cache'.late \/ Excused'
  <2>1. ASSUME Excused PROVE Excused'
    <3>1. CASE lost \/ Pending(p) \/ \E w \in Writers : home[w] = p /\ pc[w] = "del"
      BY <1>12, <3>1 DEF Crash, Excused
    <3>2. ASSUME NEW w \in Writers, pc[w] = "del", home[w] # p PROVE Excused'
      BY <1>12, <3>2 DEF Crash, Excused, Types, FlightTypes
    <3>3. ASSUME NEW q \in Procs, Pending(q), q # p PROVE Excused'
      BY <1>12, <3>3 DEF Crash, Excused, Pending, Types, TaskTypes
    <3> QED
      BY <2>1, <3>1, <3>2, <3>3 DEF Excused
  <2> QED
    BY <1>3, <1>12, <2>1 DEF Crash
<1>13. CASE UNCHANGED vars
  BY <1>3, <1>13 DEF vars, Excused, Pending
<1> QED
  BY <1>5, <1>6, <1>7, <1>8, <1>9, <1>10, <1>11, <1>12, <1>13 DEF Next

-----------------------------------------------------------------------------
LEMMA InitInv == Init => IInv
<1> SUFFICES ASSUME Init PROVE IInv
  OBVIOUS
<1>1. FlightExact
  BY DEF Init, FlightExact, Leading
<1>2. \A r \in Readers : Reads(r) /\ Knows(r)
  BY DEF Init, Reads, Knows
<1>3. StaleHasReason
  BY DEF Init, StaleHasReason, Stale, Empty
<1> QED
  BY <1>1, <1>2, <1>3, InitTypes DEF IInv

LEMMA NextInv == IInv /\ [Next]_vars => IInv'
BY NextTypes, FlightKept, ReadsKept, StaleKept DEF IInv

LEMMA InvTypes == IInv => TypeOK
<1> SUFFICES ASSUME IInv PROVE TypeOK
  OBVIOUS
<1>1. \A r \in Readers : lead[r] # Nobody =>
         pc[r] = "join" /\ Leading(lead[r]) /\ home[lead[r]] = home[r]
  BY HomeFacts DEF IInv, FlightExact
<1> QED
  BY <1>1 DEF IInv, Types, StoreTypes, FlightTypes, ValueTypes, TaskTypes, Kinds, Results, TypeOK

\* Every variable has its type, and a reader that waits in createCall waits for
\* a call that a reader of its own process is making.
THEOREM CacheTypes == Spec => []TypeOK
<1>1. Spec => []IInv
  BY InitInv, NextInv, PTL DEF Spec
<1> QED
  BY <1>1, InvTypes, PTL

\* Whenever redis disagrees with the database there is a reason: a delete still
\* to come, one that waits in a cleaner, one given up, lost in a crash or skipped
\* after an error of exec, or an entry stored by a reader that had read the row
\* before the update.
THEOREM StaleEntriesExplained == Spec => []StaleHasReason
<1>1. Spec => []IInv
  BY InitInv, NextInv, PTL DEF Spec
<1>2. IInv => StaleHasReason
  BY DEF IInv
<1> QED
  BY <1>1, <1>2, PTL

\* SingleFlight makes one call per process at a time, and whoever shares it
\* gets a row no older than the beginning of the call.
THEOREM FlightsShared == Spec => []FlightShared
<1>1. Spec => []IInv
  BY InitInv, NextInv, PTL DEF Spec
<1>2. IInv => FlightShared
  BY HomeFacts DEF IInv, FlightExact, Reads, FlightShared
<1> QED
  BY <1>1, <1>2, PTL
=============================================================================
