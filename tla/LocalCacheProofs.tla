-------------------------- MODULE LocalCacheProofs --------------------------
(***************************************************************************)
(* Theorems about LocalCache, for any keys, callers, limits and delays.    *)
(***************************************************************************)
EXTENDS LocalCache, SequenceTheorems, FiniteSetTheorems, TLAPS

Places == {"idle", "untimer", "set", "move", "barrier", "join", "check",
           "fetch", "takeSet", "takeMove", "end"}

\* The callers and the calls they share.
CallInv ==
    /\ pc \in [Callers -> Places]
    /\ key \in [Callers -> Keys \cup {Nobody}]
    /\ \A g \in Callers : pc[g] = "idle" <=> key[g] = Nobody
    /\ calls \in [Keys -> Callers \cup {Nobody}]
    /\ \A g \in Callers, k \in Keys : calls[k] = g <=> Leading(g) /\ key[g] = k

\* The timers that wait, and those that have run.
TimerInv ==
    /\ due \in [Keys -> Nat]
    /\ expired \in [Keys -> Nat]
    /\ leaving \in [Keys -> Nat]
    /\ \A k \in Keys : expired[k] + leaving[k] <= MaxRuns

\* The map and the LRU list.
Distinct(s) == \A i, j \in DOMAIN s : s[i] = s[j] => i = j

MapInv ==
    /\ limit \in Limits
    /\ data \subseteq Keys
    /\ unarmed \subseteq data
    /\ lru \in Seq(Keys)
    /\ Distinct(lru)
    /\ limit = 0 => lru = <<>>
    /\ limit > 0 => Elements = data /\ Len(lru) <= limit

\* Whoever put k into the map has yet to set its timer.
Arming(k) == \E g \in Callers : key[g] = k /\ pc[g] \in {"set", "takeSet"}

\* A key of the map without timer will get one, or is about to leave the map, or
\* was raced.
ArmInv ==
    \A k \in data : due[k] = 0 /\ k \notin unarmed => expired[k] > 0 \/ Arming(k)

\* The inductive invariant.
IInv == CallInv /\ TimerInv /\ MapInv /\ ArmInv

-----------------------------------------------------------------------------
\* Lists without repetition: an element is removed, one is put in front, the
\* last one is cut off.
ElementsOf(s) == {s[i] : i \in DOMAIN s}

LEMMA Removed ==
    ASSUME NEW s \in Seq(Keys), Distinct(s), NEW at \in DOMAIN s, NEW t,
           t = [i \in 1..(Len(s) - 1) |-> IF i < at THEN s[i] ELSE s[i + 1]]
    PROVE  /\ t \in Seq(Keys) /\ Len(t) = Len(s) - 1
           /\ Distinct(t)
           /\ ElementsOf(t) = ElementsOf(s) \ {s[at]}
<1>1. Len(s) \in Nat /\ DOMAIN s = 1..Len(s) /\ \A i \in 1..Len(s) : s[i] \in Keys
  BY LenProperties, ElementOfSeq
<1>2. Len(s) - 1 \in Nat
  BY <1>1
<1>3. \A i \in 1..(Len(s) - 1) : t[i] \in Keys
  BY <1>1
<1>4. t \in Seq(Keys) /\ Len(t) = Len(s) - 1 /\ DOMAIN t = 1..(Len(s) - 1)
  BY <1>2, <1>3, IsASeq
<1>5. Distinct(t)
  BY <1>1, <1>4 DEF Distinct
<1>6. ElementsOf(t) \subseteq ElementsOf(s) \ {s[at]}
  BY <1>1, <1>4 DEF ElementsOf, Distinct
<1>7. ASSUME NEW i \in DOMAIN s, i # at PROVE s[i] \in ElementsOf(t)
  <2>1. CASE i < at
    BY <1>1, <1>4, <2>1 DEF ElementsOf
  <2>2. CASE i > at
    <3>1. i - 1 \in DOMAIN t /\ t[i - 1] = s[i]
      BY <1>1, <1>4, <2>2
    <3> QED
      BY <3>1 DEF ElementsOf
  <2> QED
    BY <1>1, <1>7, <2>1, <2>2
<1> QED
  BY <1>4, <1>5, <1>6, <1>7 DEF ElementsOf

LEMMA Pushed ==
    ASSUME NEW s \in Seq(Keys), Distinct(s), NEW k \in Keys, k \notin ElementsOf(s)
    PROVE  /\ <<k>> \o s \in Seq(Keys) /\ Len(<<k>> \o s) = Len(s) + 1
           /\ Distinct(<<k>> \o s)
           /\ ElementsOf(<<k>> \o s) = ElementsOf(s) \cup {k}
<1> DEFINE t == <<k>> \o s
<1>1. Len(s) \in Nat /\ DOMAIN s = 1..Len(s)
  BY LenProperties
<1>2. /\ t \in Seq(Keys) /\ Len(t) = Len(s) + 1
      /\ \A i \in 1..(Len(s) + 1) : t[i] = IF i = 1 THEN k ELSE s[i - 1]
  OBVIOUS
<1>3. DOMAIN t = 1..(Len(s) + 1)
  BY <1>2, LenProperties
<1> HIDE DEF t
<1>4. Distinct(t)
  BY <1>1, <1>2, <1>3 DEF Distinct, ElementsOf
<1>5. ElementsOf(t) \subseteq ElementsOf(s) \cup {k}
  BY <1>1, <1>2, <1>3 DEF ElementsOf
<1>6. ASSUME NEW i \in DOMAIN s PROVE s[i] \in ElementsOf(t)
  <2>1. i + 1 \in DOMAIN t /\ t[i + 1] = s[i]
    BY <1>1, <1>2, <1>3
  <2> QED
    BY <2>1 DEF ElementsOf
<1>7. k \in ElementsOf(t)
  BY <1>1, <1>2, <1>3 DEF ElementsOf
<1> QED
  BY <1>2, <1>4, <1>5, <1>6, <1>7 DEF ElementsOf, t

LEMMA CutOff ==
    ASSUME NEW s \in Seq(Keys), Distinct(s), Len(s) > 0
    PROVE  LET t == SubSeq(s, 1, Len(s) - 1) IN
           /\ t \in Seq(Keys) /\ Len(t) = Len(s) - 1
           /\ Distinct(t)
           /\ ElementsOf(t) = ElementsOf(s) \ {s[Len(s)]}
<1> DEFINE t == SubSeq(s, 1, Len(s) - 1)
<1>1. Len(s) \in Nat /\ DOMAIN s = 1..Len(s)
  BY LenProperties
<1>2. /\ t \in Seq(Keys) /\ Len(t) = Len(s) - 1
      /\ \A i \in 1..(Len(s) - 1) : t[i] = s[i]
  BY <1>1, SubSeqProperties
<1>3. DOMAIN t = 1..(Len(s) - 1)
  BY <1>2, LenProperties
<1> HIDE DEF t
<1>4. Distinct(t)
  BY <1>1, <1>2, <1>3 DEF Distinct
<1>5. ElementsOf(t) \subseteq ElementsOf(s) \ {s[Len(s)]}
  BY <1>1, <1>2, <1>3 DEF ElementsOf, Distinct
<1>6. ASSUME NEW i \in DOMAIN s, i # Len(s) PROVE s[i] \in ElementsOf(t)
  BY <1>1, <1>2, <1>3, <1>6 DEF ElementsOf
<1> QED
  BY <1>2, <1>4, <1>5, <1>6 DEF ElementsOf, t

\* A list without repetition is as long as the set of its elements is large.
LEMMA Counted ==
    ASSUME NEW s \in Seq(Keys), Distinct(s)
    PROVE  Cardinality(ElementsOf(s)) = Len(s)
<1>1. Len(s) \in Nat /\ DOMAIN s = 1..Len(s) /\ s \in [1..Len(s) -> ElementsOf(s)]
  BY LenProperties DEF ElementsOf
<1>2. s \in Bijection(1..Len(s), ElementsOf(s))
  BY <1>1 DEF Distinct, ElementsOf, Bijection, Injection, Surjection, IsInjective
<1>3. ExistsBijection(1..Len(s), ElementsOf(s))
  BY <1>2 DEF ExistsBijection
<1> QED
  BY <1>1, <1>3, FS_CountingElements

-----------------------------------------------------------------------------
LEMMA WithoutFacts ==
    ASSUME lru \in Seq(Keys), Distinct(lru), NEW k
    PROVE  /\ Without(k) \in Seq(Keys)
           /\ Len(Without(k)) = IF k \in Elements THEN Len(lru) - 1 ELSE Len(lru)
           /\ Distinct(Without(k))
           /\ ElementsOf(Without(k)) = Elements \ {k}
<1>0. Elements = ElementsOf(lru)
  BY DEF Elements, ElementsOf
<1>1. CASE k \notin Elements
  BY <1>0, <1>1 DEF Without
<1>2. CASE k \in Elements
  <2> DEFINE at == CHOOSE i \in DOMAIN lru : lru[i] = k
  <2>1. at \in DOMAIN lru /\ lru[at] = k
    BY <1>2 DEF Elements
  <2>2. Without(k) = [i \in 1..(Len(lru) - 1) |-> IF i < at THEN lru[i] ELSE lru[i + 1]]
    BY <1>2 DEF Without
  <2> HIDE DEF at
  <2> QED
    BY <1>0, <1>2, <2>1, <2>2, Removed
<1> QED
  BY <1>1, <1>2

\* What a step does to the map: the keys in new come in, others may go; the
\* timers of those that stay are not touched.
MapMoves(new) ==
    /\ MapInv'
    /\ data' \subseteq data \cup new
    /\ unarmed' = unarmed \cap data'
    /\ due' \in [Keys -> Nat]
    /\ \A k \in data' : due'[k] = due[k]

\* Removing the timers of keys that go.
LEMMA DisarmFacts ==
    ASSUME due \in [Keys -> Nat], NEW S \in SUBSET Keys, Disarm(S)
    PROVE  due' \in [Keys -> Nat] /\ \A k \in Keys \ S : due'[k] = due[k]
<1>1. CASE S = {}
  BY <1>1 DEF Disarm, timer
<1>2. CASE S # {}
  <2>1. PICK k \in S : W!Remove(k)
    BY <1>2 DEF Disarm
  <2>2. due' = [due EXCEPT ![k] = 0]
    BY <2>1 DEF W!Remove
  <2> QED
    BY <2>2
<1> QED
  BY <1>1, <1>2

LEMMA LimitFacts == limit \in Limits => limit \in Nat
BY BoundAssumption

\* keyLru.add: at most one key goes, and not the one that is added.
LEMMA AddMoves ==
    ASSUME MapInv, due \in [Keys -> Nat], UNCHANGED limit, NEW k \in Keys,
           NEW D, D \in {data, data \cup {k}}, k \in D, Add(k, D)
    PROVE  MapMoves({k}) /\ k \in data'
<1> DEFINE gone == Evicted(k)
           list == <<k>> \o Without(k)
<1>0. /\ limit \in Nat /\ lru \in Seq(Keys) /\ Distinct(lru) /\ Len(lru) \in Nat
      /\ DOMAIN lru = 1..Len(lru) /\ Elements = ElementsOf(lru) /\ data \subseteq Keys
      /\ unarmed \subseteq data
  BY LimitFacts, LenProperties DEF MapInv, Elements, ElementsOf
<1>1. /\ data' = D \ gone
      /\ lru' = IF limit = 0 THEN lru ELSE SubSeq(list, 1, Len(list) - Cardinality(gone))
      /\ unarmed' = unarmed \ gone
      /\ Disarm(gone)
  BY DEF Add
<1>2. gone \subseteq Elements \ {k}
  <2>1. limit > 0 /\ Len(lru) >= limit => lru[Len(lru)] \in Elements
    BY <1>0 DEF Elements
  <2> QED
    BY <2>1 DEF Evicted
<1>3. Elements \subseteq Keys
  BY <1>0 DEF Elements
<1>4. due' \in [Keys -> Nat] /\ \A j \in data' : due'[j] = due[j]
  <2>1. gone \in SUBSET Keys /\ data' \subseteq Keys \ gone
    BY <1>0, <1>1, <1>2, <1>3
  <2> HIDE DEF gone
  <2> QED
    BY <1>1, <2>1, DisarmFacts
<1>5. data' \subseteq data \cup {k} /\ k \in data' /\ unarmed' = unarmed \cap data'
  BY <1>0, <1>1, <1>2
<1>6. CASE limit = 0
  <2>1. UNCHANGED <<lru, limit>>
    BY <1>1, <1>6
  <2>2. data' \subseteq Keys /\ unarmed' \subseteq data'
    BY <1>0, <1>5
  <2>3. MapInv'
    BY <1>6, <2>1, <2>2 DEF MapInv, Distinct
  <2> QED
    BY <1>4, <1>5, <2>3 DEF MapMoves
<1>7. CASE limit > 0
  <2>1. /\ Without(k) \in Seq(Keys) /\ Distinct(Without(k))
        /\ ElementsOf(Without(k)) = Elements \ {k}
        /\ Len(Without(k)) = IF k \in Elements THEN Len(lru) - 1 ELSE Len(lru)
    BY <1>0, WithoutFacts
  <2>2. /\ list \in Seq(Keys) /\ Distinct(list)
        /\ Len(list) = Len(Without(k)) + 1
        /\ ElementsOf(list) = Elements \cup {k}
    <3>1. k \notin ElementsOf(Without(k))
      BY <2>1
    <3>2. /\ list \in Seq(Keys) /\ Distinct(list)
          /\ Len(list) = Len(Without(k)) + 1
          /\ ElementsOf(list) = ElementsOf(Without(k)) \cup {k}
      BY <2>1, <3>1, Pushed
    <3> QED
      BY <2>1, <3>2
  <2>3. Elements = data /\ Len(lru) <= limit
    BY <1>7 DEF MapInv
  <2>4. /\ lru' \in Seq(Keys) /\ Distinct(lru')
        /\ ElementsOf(lru') = data'
        /\ Len(lru') <= limit
    <3>1. CASE k \in Elements \/ Len(lru) < limit
      <4>1. gone = {} /\ Cardinality(gone) = 0
        BY <1>0, <3>1, FS_EmptySet DEF Evicted
      <4>2. lru' = SubSeq(list, 1, Len(list))
        <5> HIDE DEF list, gone
        <5>1. Len(list) \in Nat
          BY <2>2, LenProperties
        <5>2. Len(list) - 0 = Len(list)
          BY <5>1
        <5> QED
          BY <1>1, <1>7, <4>1, <5>2
      <4>3. lru' = list
        <5> HIDE DEF list
        <5> QED
          BY <2>2, <4>2, SubSeqFull
      <4>4. data' = Elements \cup {k}
        BY <1>1, <2>3, <4>1
      <4> HIDE DEF list
      <4>5. Len(list) <= limit
        <5> DEFINE n == Len(lru)
                   m == Len(list)
        <5>1. n \in Nat /\ n <= limit /\ (k \in Elements \/ n < limit)
          BY <1>0, <2>3, <3>1
        <5>2. m = IF k \in Elements THEN (n - 1) + 1 ELSE n + 1
          BY <2>1, <2>2, Zenon
        <5> HIDE DEF n, m
        <5>3. m <= limit
          BY <1>0, <5>1, <5>2
        <5> QED
          BY <5>3 DEF m
      <4> QED
        BY <2>2, <4>3, <4>4, <4>5
    <3>2. CASE k \notin Elements /\ Len(lru) >= limit
      <4>1. gone = {lru[Len(lru)]} /\ Cardinality(gone) = 1
        BY <1>7, <3>2, FS_Singleton DEF Evicted
      <4>2. lru' = SubSeq(list, 1, Len(list) - 1)
        <5> HIDE DEF list, gone
        <5>1. limit # 0
          BY <1>7
        <5> QED
          BY <1>1, <4>1, <5>1, Zenon
      <4>3. Without(k) = lru
        BY <3>2 DEF Without
      <4>4. list[Len(list)] = lru[Len(lru)]
        BY <1>0, <1>7, <3>2, <4>3
      <4>5. Len(list) = Len(lru) + 1 /\ Len(list) > 0
        BY <1>0, <2>2, <4>3
      <4>6. /\ lru' \in Seq(Keys) /\ Distinct(lru') /\ Len(lru') = Len(list) - 1
            /\ ElementsOf(lru') = ElementsOf(list) \ {list[Len(list)]}
        <5> HIDE DEF list
        <5> QED
          BY <2>2, <4>2, <4>5, CutOff
      <4>7. ElementsOf(lru') = (Elements \cup {k}) \ gone
        BY <2>2, <4>1, <4>4, <4>6
      <4>8. data' = (Elements \cup {k}) \ gone
        BY <1>1, <2>3, <3>2
      <4> HIDE DEF list, gone
      <4> QED
        BY <1>0, <2>3, <4>5, <4>6, <4>7, <4>8
    <3> QED
      BY <1>0, <3>1, <3>2
  <2>5. data' \subseteq Keys /\ unarmed' \subseteq data'
    BY <1>0, <1>5
  <2>6. limit' \in Limits /\ limit' # 0
    BY <1>7 DEF MapInv
  <2>7. Elements' = data'
    BY <2>4 DEF Elements, ElementsOf
  <2>8. MapInv'
    BY <2>4, <2>5, <2>6, <2>7 DEF MapInv
  <2> QED
    BY <1>4, <1>5, <2>8 DEF MapMoves
<1> QED
  BY <1>0, <1>6, <1>7

\* Del: the key goes, from the map and from the list.
LEMMA UnlinkMoves ==
    ASSUME MapInv, due \in [Keys -> Nat], UNCHANGED limit, NEW k \in Keys, Unlink(k)
    PROVE  MapMoves({}) /\ k \notin data'
<1>0. /\ limit \in Nat /\ lru \in Seq(Keys) /\ Distinct(lru) /\ Len(lru) \in Nat
      /\ DOMAIN lru = 1..Len(lru) /\ Elements = ElementsOf(lru) /\ data \subseteq Keys
      /\ unarmed \subseteq data
  BY LimitFacts, LenProperties DEF MapInv, Elements, ElementsOf
<1>1. /\ data' = data \ {k}
      /\ lru' = Without(k)
      /\ unarmed' = unarmed \ {k}
      /\ Disarm({k} \cap Elements)
  BY DEF Unlink
<1>2. due' \in [Keys -> Nat] /\ \A j \in data' : due'[j] = due[j]
  BY <1>0, <1>1, DisarmFacts
<1>3. /\ lru' \in Seq(Keys) /\ Distinct(lru') /\ Len(lru') <= Len(lru) /\ Len(lru') \in Nat
      /\ ElementsOf(lru') = Elements \ {k}
  <2>1. /\ Without(k) \in Seq(Keys) /\ Distinct(Without(k))
        /\ ElementsOf(Without(k)) = Elements \ {k}
        /\ Len(Without(k)) = IF k \in Elements THEN Len(lru) - 1 ELSE Len(lru)
    BY <1>0, WithoutFacts
  <2>2. Len(Without(k)) \in Nat
    BY <2>1, LenProperties
  <2>3. Len(Without(k)) <= Len(lru)
    <3> DEFINE n == Len(lru)
               m == Len(Without(k))
    <3>1. n \in Nat /\ m = IF k \in Elements THEN n - 1 ELSE n
      BY <1>0, <2>1, Zenon
    <3> HIDE DEF n, m
    <3>2. m <= n
      BY <3>1
    <3> QED
      BY <3>2 DEF n, m
  <2> QED
    BY <1>1, <2>1, <2>2, <2>3
<1>4. limit = 0 => lru' = <<>>
  <2>1. limit = 0 => Elements = {}
    BY DEF MapInv, Elements
  <2> QED
    BY <1>1, <2>1 DEF Without, MapInv
<1>5. limit > 0 => Elements' = data' /\ Len(lru') <= limit
  <2>1. Elements' = Elements \ {k}
    BY <1>3 DEF Elements, ElementsOf
  <2>2. limit > 0 => Elements = data /\ Len(lru) <= limit
    BY DEF MapInv
  <2> QED
    BY <1>0, <1>1, <1>3, <2>1, <2>2
<1>6. MapInv'
  BY <1>0, <1>1, <1>3, <1>4, <1>5 DEF MapInv
<1> QED
  BY <1>0, <1>1, <1>2, <1>6 DEF MapMoves

-----------------------------------------------------------------------------
\* What the calls that touch the wheel do to it.
LEMMA RunFacts ==
    ASSUME TimerInv, NEW S \in SUBSET Keys, S = {r.key : r \in ran'},
           RunTimers, UNCHANGED leaving
    PROVE  /\ expired' \in [Keys -> Nat]
           /\ \A k \in Keys : expired'[k] + leaving'[k] <= MaxRuns
           /\ \A k \in Keys : expired'[k] >= expired[k]
           /\ \A k \in S : expired'[k] > 0
<1>1. /\ \A k \in S : expired[k] + leaving[k] < MaxRuns
      /\ expired' = [k \in Keys |-> expired[k] + IF k \in S THEN 1 ELSE 0]
  BY DEF RunTimers
<1>2. /\ expired \in [Keys -> Nat] /\ leaving \in [Keys -> Nat] /\ MaxRuns \in Nat
      /\ \A k \in Keys : expired[k] + leaving[k] <= MaxRuns
  BY BoundAssumption DEF TimerInv
<1>3. ASSUME NEW k \in Keys
      PROVE  /\ expired'[k] \in Nat /\ expired'[k] + leaving'[k] <= MaxRuns
             /\ expired'[k] >= expired[k] /\ (k \in S => expired'[k] > 0)
  <2>1. CASE k \in S
    BY <1>1, <1>2, <2>1
  <2>2. CASE k \notin S
    BY <1>1, <1>2, <2>2
  <2> QED
    BY <2>1, <2>2
<1> QED
  BY <1>1, <1>3

\* SetWithExpire, after the unlock.
LEMMA ArmFacts ==
    ASSUME TimerInv, NEW k \in Keys, NEW d \in Delays, NEW fresh,
           Arm(k, fresh, d), RunTimers, UNCHANGED leaving
    PROVE  /\ TimerInv'
           /\ unarmed' \subseteq unarmed
           /\ \A j \in Keys : expired'[j] >= expired[j]
           /\ \A j \in Keys \ {k} : due'[j] = due[j] /\ (j \in unarmed => j \in unarmed')
           /\ fresh => due'[k] > 0
           /\ ~fresh => unarmed' = unarmed
           /\ ~fresh /\ due'[k] = 0 => due[k] = 0 \/ expired'[k] > 0
<1>0. d \in Nat /\ due \in [Keys -> Nat] /\ leaving' \in [Keys -> Nat] /\ due[k] \in Nat
  BY BoundAssumption DEF TimerInv
<1>1. CASE fresh
  <2>1. W!Set(k, Value, d) /\ unarmed' = unarmed \ {k}
    BY <1>1 DEF Arm
  <2>2. {} = {r.key : r \in ran'}
    BY <2>1 DEF W!Set
  <2>3. due' = [due EXCEPT ![k] = IF d < 1 THEN 1 ELSE d]
    BY <2>1 DEF W!Set
  <2>4. due' \in [Keys -> Nat] /\ due'[k] > 0 /\ \A j \in Keys \ {k} : due'[j] = due[j]
    BY <1>0, <2>3
  <2>5. /\ expired' \in [Keys -> Nat]
        /\ \A j \in Keys : expired'[j] + leaving'[j] <= MaxRuns
        /\ \A j \in Keys : expired'[j] >= expired[j]
    BY <2>2, RunFacts
  <2> QED
    BY <1>0, <1>1, <2>1, <2>4, <2>5 DEF TimerInv
<1>2. CASE ~fresh
  <2>1. W!Move(k, d) /\ unarmed' = unarmed
    BY <1>2 DEF Arm
  <2> DEFINE S == IF due[k] = 0 \/ d >= 1 THEN {} ELSE {k}
  <2>2. S = {r.key : r \in ran'}
    <3>1. CASE due[k] = 0 \/ d >= 1
      <4>1. ran' = {}
        BY <1>0, <2>1, <3>1 DEF W!Move
      <4> QED
        BY <3>1, <4>1
    <3>2. CASE due[k] # 0 /\ d < 1
      <4>1. ran' = {W!Run(k)}
        BY <2>1, <3>2 DEF W!Move
      <4>2. W!Run(k).key = k
        BY DEF W!Run
      <4>3. {r.key : r \in ran'} = {k}
        BY <4>1, <4>2
      <4>4. S = {k}
        BY <1>0, <3>2
      <4> QED
        BY <4>3, <4>4
    <3>3. (due[k] = 0 \/ d >= 1) \/ (due[k] # 0 /\ d < 1)
      BY <1>0
    <3> QED
      BY <3>1, <3>2, <3>3
  <2>3. due' = IF due[k] = 0 THEN due ELSE [due EXCEPT ![k] = d]
    BY <2>1 DEF W!Move
  <2>4. due' \in [Keys -> Nat] /\ \A j \in Keys \ {k} : due'[j] = due[j]
    BY <1>0, <2>3
  <2>5. due'[k] = 0 /\ due[k] # 0 => k \in S
    BY <1>0, <2>3
  <2>6. S \in SUBSET Keys
    OBVIOUS
  <2> HIDE DEF S
  <2>7. /\ expired' \in [Keys -> Nat]
        /\ \A j \in Keys : expired'[j] + leaving'[j] <= MaxRuns
        /\ \A j \in Keys : expired'[j] >= expired[j]
        /\ \A j \in S : expired'[j] > 0
    BY <2>2, <2>6, RunFacts
  <2> QED
    BY <1>0, <1>2, <2>1, <2>4, <2>5, <2>7 DEF TimerInv
<1> QED
  BY <1>1, <1>2

LEMMA TickFacts ==
    ASSUME TimerInv, Tick
    PROVE  /\ TimerInv'
           /\ \A k \in Keys : expired'[k] >= expired[k]
           /\ \A k \in Keys : due'[k] = 0 => due[k] = 0 \/ expired'[k] > 0
<1> DEFINE S == {k \in Keys : due[k] = 1}
<1>1. W!Tick /\ RunTimers /\ UNCHANGED leaving
  BY DEF Tick
<1>2. S = {r.key : r \in ran'}
  <2>1. ran' = {W!Run(k) : k \in S}
    BY <1>1 DEF W!Tick
  <2>2. \A k \in S : W!Run(k).key = k
    BY DEF W!Run
  <2> HIDE DEF S
  <2> QED
    BY <2>1, <2>2
<1>3. due \in [Keys -> Nat] /\ leaving' \in [Keys -> Nat]
  BY <1>1 DEF TimerInv
<1>4. due' = [k \in Keys |-> IF due[k] = 0 THEN 0 ELSE due[k] - 1]
  BY <1>1 DEF W!Tick
<1>5. due' \in [Keys -> Nat] /\ \A k \in Keys : due'[k] = 0 => due[k] = 0 \/ k \in S
  BY <1>3, <1>4
<1>6. S \in SUBSET Keys
  OBVIOUS
<1> HIDE DEF S
<1>7. /\ expired' \in [Keys -> Nat]
      /\ \A k \in Keys : expired'[k] + leaving'[k] <= MaxRuns
      /\ \A k \in Keys : expired'[k] >= expired[k]
      /\ \A k \in S : expired'[k] > 0
  BY <1>1, <1>2, <1>6, RunFacts
<1> QED
  BY <1>3, <1>5, <1>7 DEF TimerInv

\* Del, after the unlock.
LEMMA RemoveFacts ==
    ASSUME due \in [Keys -> Nat], NEW k \in Keys, RemoveTimer(k)
    PROVE  /\ due' \in [Keys -> Nat]
           /\ \A j \in Keys \ {k} : due'[j] = due[j]
           /\ unarmed \subseteq unarmed' /\ unarmed' \subseteq unarmed \cup ({k} \cap data)
           /\ k \in data => k \in unarmed'
BY DEF RemoveTimer, W!Remove

-----------------------------------------------------------------------------
LEMMA KeyOf ==
    ASSUME CallInv, NEW g \in Callers, pc[g] # "idle" PROVE key[g] \in Keys
BY DEF CallInv

LEMMA InitInv == Init => IInv
<1> SUFFICES ASSUME Init PROVE IInv
  OBVIOUS
<1>1. CallInv
  BY NobodyAssumption DEF Init, CallInv, Leading, Places
<1>2. TimerInv
  BY BoundAssumption DEF Init, W!Init, TimerInv
<1>3. MapInv
  <2>1. lru \in Seq(Keys) /\ Len(lru) = 0 /\ DOMAIN lru = {} /\ limit \in Nat
    BY LimitFacts DEF Init
  <2> QED
    BY <2>1 DEF Init, MapInv, Distinct, Elements
<1>4. ArmInv
  BY DEF Init, ArmInv
<1> QED
  BY <1>1, <1>2, <1>3, <1>4 DEF IInv

\* The shared calls: no two callers are inside the call for one key.
LEMMA CallsKept == CallInv /\ [Next]_vars => CallInv'
<1> SUFFICES ASSUME CallInv, [Next]_vars PROVE CallInv'
  OBVIOUS
<1> USE NobodyAssumption DEF CallInv, Leading, Places
<1>1. ASSUME NEW g \in Callers, NEW k \in Keys, Del(g, k) PROVE CallInv'
  BY <1>1 DEF Del
<1>2. ASSUME NEW g \in Callers, NEW k \in Keys, Get(g, k) \/ TakeHit(g, k) PROVE CallInv'
  BY <1>2 DEF Get, TakeHit, caller
<1>3. ASSUME NEW g \in Callers, NEW k \in Keys, Set(g, k) PROVE CallInv'
  <2>1. \E p \in {"set", "move"} : pc' = [pc EXCEPT ![g] = p]
    BY <1>3 DEF Set, Store, ForSet
  <2> QED
    BY <1>3, <2>1 DEF Set
<1>4. ASSUME NEW g \in Callers, NEW k \in Keys, TakeMiss(g, k) PROVE CallInv'
  BY <1>4 DEF TakeMiss
<1>5. ASSUME NEW g \in Callers, NEW d \in Delays, SetEnd(g, d) PROVE CallInv'
  BY <1>5 DEF SetEnd, Idle
<1>6. ASSUME NEW g \in Callers, NEW d \in Delays, FetchEnd(g, d) PROVE CallInv'
  BY <1>6 DEF FetchEnd
<1>7. ASSUME NEW g \in Callers, DelEnd(g) PROVE CallInv'
  BY <1>7 DEF DelEnd, Idle
<1>8. ASSUME NEW g \in Callers, Barrier(g) PROVE CallInv'
  <2>1. CASE calls[key[g]] = Nobody
    BY <1>8, <2>1 DEF Barrier
  <2>2. CASE calls[key[g]] # Nobody
    BY <1>8, <2>2 DEF Barrier
  <2> QED
    BY <2>1, <2>2
<1>9. ASSUME NEW g \in Callers, Check(g) PROVE CallInv'
  <2>1. \E p \in {"end", "fetch"} : pc' = [pc EXCEPT ![g] = p]
    BY <1>9 DEF Check
  <2> QED
    BY <1>9, <2>1 DEF Check
<1>10. ASSUME NEW g \in Callers, Fetch(g) PROVE CallInv'
  <2>1. \E p \in {"takeSet", "takeMove", "end"} : pc' = [pc EXCEPT ![g] = p]
    BY <1>10 DEF Fetch, Store, ForTake
  <2> QED
    BY <1>10, <2>1 DEF Fetch
<1>11. ASSUME NEW g \in Callers, TakeEnd(g) PROVE CallInv'
  <2> DEFINE all == Joined(key[g]) \cup {g}
  <2>1. \A j \in Callers : j \in all <=> j = g \/ (pc[j] = "join" /\ key[j] = key[g])
    BY DEF Joined
  <2> HIDE DEF all
  <2>2. /\ pc[g] = "end"
        /\ calls' = [calls EXCEPT ![key[g]] = Nobody]
        /\ pc' = [j \in Callers |-> IF j \in all THEN "idle" ELSE pc[j]]
        /\ key' = [j \in Callers |-> IF j \in all THEN Nobody ELSE key[j]]
    BY <1>11 DEF TakeEnd, all
  <2>3. /\ pc' \in [Callers -> Places] /\ key' \in [Callers -> Keys \cup {Nobody}]
        /\ calls' \in [Keys -> Callers \cup {Nobody}]
        /\ \A j \in Callers : pc'[j] = "idle" <=> key'[j] = Nobody
    BY <2>2
  <2>4. ASSUME NEW j \in Callers, NEW k \in Keys
        PROVE  calls'[k] = j <=> Leading(j)' /\ key'[j] = k
    <3>1. calls[key[g]] = g /\ key[g] \in Keys
      BY <2>2
    <3>2. CASE j \in all
      BY <2>1, <2>2, <3>1, <3>2
    <3>3. CASE j \notin all
      BY <2>1, <2>2, <3>1, <3>3
    <3> QED
      BY <3>2, <3>3
  <2> QED
    BY <2>3, <2>4
<1>12. ASSUME NEW k \in Keys, Expire(k) \/ ExpireEnd(k) PROVE CallInv'
  BY <1>12 DEF Expire, ExpireEnd, caller
<1>13. CASE Tick
  BY <1>13 DEF Tick, caller
<1>14. CASE UNCHANGED vars
  BY <1>14 DEF vars
<1> QED
  BY <1>1, <1>2, <1>3, <1>4, <1>5, <1>6, <1>7, <1>8, <1>9, <1>10, <1>11, <1>12, <1>13, <1>14
     DEF Next

-----------------------------------------------------------------------------
\* A step that moves the map keeps ArmInv if no one who is to set a timer of a
\* key that stays forgets it, and the new keys have someone to set theirs.
LEMMA MovesKeep ==
    ASSUME IInv, NEW new \in SUBSET Keys, MapMoves(new),
           \A j \in data' : expired[j] > 0 => expired'[j] > 0,
           \A j \in data' : Arming(j) => Arming(j)',
           \A j \in data' \ data : Arming(j)'
    PROVE  ArmInv'
<1>1. ASSUME NEW j \in data', due'[j] = 0, j \notin unarmed'
      PROVE  expired'[j] > 0 \/ Arming(j)'
  <2>1. CASE j \notin data
    BY <2>1
  <2>2. CASE j \in data
    <3>1. due[j] = 0 /\ j \notin unarmed
      BY <1>1 DEF MapMoves
    <3>2. expired[j] > 0 \/ Arming(j)
      BY <2>2, <3>1 DEF IInv, ArmInv
    <3> QED
      BY <3>2
  <2> QED
    BY <2>1, <2>2
<1> QED
  BY <1>1 DEF ArmInv

\* Only the caller that sets the timer of a key stops being the one to do so.
LEMMA ArmingKept ==
    ASSUME CallInv, NEW g \in Callers, NEW j \in Keys, Arming(j),
           pc[g] \notin {"set", "takeSet"} \/ key[g] # j,
           \A h \in Callers \ {g} : pc[h] \in {"set", "takeSet"} =>
                                        pc'[h] = pc[h] /\ key'[h] = key[h]
    PROVE  Arming(j)'
BY DEF Arming

LEMMA DelStep ==
    ASSUME IInv, NEW g \in Callers, NEW k \in Keys, Del(g, k), CallInv'
    PROVE  IInv'
<1>1. MapMoves({}) /\ k \notin data'
  BY UnlinkMoves DEF IInv, TimerInv, Del
<1>2. TimerInv'
  BY <1>1 DEF IInv, TimerInv, MapMoves, Del, runs
<1>3. ASSUME NEW j \in Keys, Arming(j) PROVE Arming(j)'
  BY <1>3, ArmingKept DEF Del, IInv, CallInv
<1>4. data' \subseteq data /\ data \subseteq Keys /\ UNCHANGED expired
  BY <1>1 DEF MapMoves, IInv, MapInv, Del, runs
<1>5. ArmInv'
  BY <1>1, <1>3, <1>4, MovesKeep
<1> QED
  BY <1>1, <1>2, <1>5 DEF IInv, MapMoves

\* Get, and Take's doGet, of a key of the map.
LEMMA HitStep ==
    ASSUME IInv, NEW g \in Callers, NEW k \in Keys, Get(g, k) \/ TakeHit(g, k), CallInv'
    PROVE  IInv'
<1>0. k \in data /\ Add(k, data) /\ UNCHANGED <<limit, pc, key, expired, leaving>>
  BY DEF Get, TakeHit, caller, runs
<1>1. MapMoves({k}) /\ k \in data'
  BY <1>0, AddMoves DEF IInv, TimerInv
<1>2. TimerInv'
  BY <1>0, <1>1 DEF IInv, TimerInv, MapMoves
<1>3. \A j \in Keys : Arming(j) => Arming(j)'
  BY <1>0 DEF Arming
<1>4. data' \subseteq data /\ data \subseteq Keys
  BY <1>0, <1>1 DEF MapMoves, IInv, MapInv
<1>5. ArmInv'
  BY <1>0, <1>1, <1>3, <1>4, MovesKeep
<1> QED
  BY <1>1, <1>2, <1>5 DEF IInv, MapMoves

\* The critical section of SetWithExpire, called by Set or by Take.
LEMMA StoreStep ==
    ASSUME IInv, NEW g \in Callers, NEW k \in Keys, NEW s, s \in {ForSet, ForTake},
           pc[g] \in {"idle", "fetch"}, Store(g, k, s), key' = [key EXCEPT ![g] = k],
           UNCHANGED <<limit, expired, leaving>>, CallInv'
    PROVE  IInv'
<1>0. /\ Add(k, data \cup {k})
      /\ pc' = [pc EXCEPT ![g] = IF k \in data THEN s.move ELSE s.set]
  BY DEF Store
<1>1. MapMoves({k}) /\ k \in data'
  BY <1>0, AddMoves DEF IInv, TimerInv
<1>2. TimerInv'
  BY <1>1 DEF IInv, TimerInv, MapMoves
<1>3. ASSUME NEW j \in Keys, Arming(j) PROVE Arming(j)'
  BY <1>0, <1>3, ArmingKept DEF IInv, CallInv
<1>4. data' \subseteq data \cup {k} /\ data \subseteq Keys
  BY <1>0, <1>1 DEF MapMoves, IInv, MapInv
<1>5. k \notin data => Arming(k)'
  <2>1. k \notin data => pc'[g] \in {"set", "takeSet"}
    BY <1>0 DEF ForSet, ForTake, IInv, CallInv
  <2>2. key'[g] = k
    BY DEF IInv, CallInv
  <2> QED
    BY <2>1, <2>2 DEF Arming
<1>6. ArmInv'
  BY <1>1, <1>3, <1>4, <1>5, MovesKeep
<1> QED
  BY <1>1, <1>2, <1>6 DEF IInv, MapMoves

\* A step of a caller that has nothing to do with the map.
LEMMA OnlyCallerMoves ==
    ASSUME IInv, NEW g \in Callers, pc[g] \notin {"set", "takeSet"},
           \A h \in Callers \ {g} : pc[h] \in {"set", "takeSet"} =>
                                        pc'[h] = pc[h] /\ key'[h] = key[h],
           UNCHANGED <<limit, map, unarmed, timer, runs>>, CallInv'
    PROVE  IInv'
<1>1. UNCHANGED <<limit, data, lru, unarmed, due, expired, leaving>>
  BY DEF map, timer, runs
<1>2. TimerInv'
  BY <1>1 DEF IInv, TimerInv
<1>3. MapInv'
  BY <1>1 DEF IInv, MapInv, Elements, Distinct
<1>4. ASSUME NEW j \in Keys, Arming(j) PROVE Arming(j)'
  BY <1>4, ArmingKept DEF IInv
<1>5. ArmInv'
  BY <1>1, <1>4 DEF IInv, ArmInv, MapInv
<1> QED
  BY <1>2, <1>3, <1>5 DEF IInv

\* SetTimer or MoveTimer, after the unlock.
LEMMA ArmStep ==
    ASSUME IInv, NEW g \in Callers, NEW d \in Delays,
           pc[g] \in {"set", "move", "takeSet", "takeMove"},
           Arm(key[g], pc[g] \in {"set", "takeSet"}, d), RunTimers,
           \A h \in Callers \ {g} : pc'[h] = pc[h] /\ key'[h] = key[h],
           UNCHANGED <<limit, map, leaving>>, CallInv'
    PROVE  IInv'
<1> DEFINE k == key[g]
           fresh == pc[g] \in {"set", "takeSet"}
<1>0. k \in Keys
  BY KeyOf DEF IInv
<1>1. UNCHANGED <<limit, data, lru, leaving>>
  BY DEF map
<1>2. Arm(k, fresh, d)
  OBVIOUS
<1>3. fresh => pc[g] \in {"set", "takeSet"}
  OBVIOUS
<1>4. ~fresh => pc[g] \notin {"set", "takeSet"}
  OBVIOUS
<1>5. /\ TimerInv'
      /\ unarmed' \subseteq unarmed
      /\ \A j \in Keys : expired'[j] >= expired[j]
      /\ \A j \in Keys \ {k} : due'[j] = due[j] /\ (j \in unarmed => j \in unarmed')
      /\ fresh => due'[k] > 0
      /\ ~fresh => unarmed' = unarmed
      /\ ~fresh /\ due'[k] = 0 => due[k] = 0 \/ expired'[k] > 0
  <2> HIDE DEF k, fresh
  <2> QED
    BY <1>0, <1>1, <1>2, ArmFacts DEF IInv
<1>6. MapInv'
  BY <1>1, <1>5 DEF IInv, MapInv, Elements, Distinct
<1>7. ASSUME NEW j \in Keys, Arming(j), j # k \/ ~fresh PROVE Arming(j)'
  BY <1>7, ArmingKept DEF IInv
<1> HIDE DEF fresh, k
<1>8. ASSUME NEW j \in data, due'[j] = 0, j \notin unarmed' PROVE expired'[j] > 0 \/ Arming(j)'
  <2>0. j \in Keys /\ expired[j] \in Nat /\ expired'[j] \in Nat
    BY <1>5 DEF IInv, MapInv, TimerInv
  <2>1. j # k \/ ~fresh
    BY <1>0, <1>5, <1>8
  <2>2. (due[j] = 0 /\ j \notin unarmed) \/ expired'[j] > 0
    BY <1>0, <1>5, <1>8, <2>0, <2>1
  <2>3. due[j] = 0 /\ j \notin unarmed => expired[j] > 0 \/ Arming(j)
    BY DEF IInv, ArmInv
  <2>4. expired[j] > 0 => expired'[j] > 0
    BY <1>5, <2>0
  <2> QED
    BY <1>7, <2>0, <2>1, <2>2, <2>3, <2>4
<1>9. ArmInv'
  BY <1>1, <1>8 DEF ArmInv
<1> QED
  BY <1>5, <1>6, <1>9 DEF IInv

\* RemoveTimer, after the unlock.
LEMMA RemoveStep ==
    ASSUME IInv, NEW k \in Keys, RemoveTimer(k), UNCHANGED <<limit, map, expired>>,
           leaving' \in [Keys -> Nat], \A j \in Keys : leaving'[j] <= leaving[j],
           \A j \in Keys : Arming(j) => Arming(j)', CallInv'
    PROVE  IInv'
<1>1. UNCHANGED <<limit, data, lru, expired>>
  BY DEF map
<1>2. /\ due' \in [Keys -> Nat]
      /\ \A j \in Keys \ {k} : due'[j] = due[j]
      /\ unarmed \subseteq unarmed' /\ unarmed' \subseteq unarmed \cup ({k} \cap data)
      /\ k \in data => k \in unarmed'
  BY RemoveFacts DEF IInv, TimerInv
<1>3. TimerInv'
  BY <1>1, <1>2, BoundAssumption DEF IInv, TimerInv
<1>4. MapInv'
  BY <1>1, <1>2 DEF IInv, MapInv, Elements, Distinct
<1>5. ArmInv'
  BY <1>1, <1>2 DEF IInv, MapInv, ArmInv
<1> QED
  BY <1>3, <1>4, <1>5 DEF IInv

LEMMA ExpireStep ==
    ASSUME IInv, NEW k \in Keys, Expire(k), CallInv'
    PROVE  IInv'
<1>0. /\ expired[k] > 0 /\ Unlink(k)
      /\ expired' = [expired EXCEPT ![k] = @ - 1]
      /\ leaving' = [leaving EXCEPT ![k] = @ + 1]
      /\ UNCHANGED <<limit, pc, key>>
  BY DEF Expire, caller
<1>1. MapMoves({}) /\ k \notin data'
  BY <1>0, UnlinkMoves DEF IInv, TimerInv
<1>2. TimerInv'
  <2>1. /\ expired \in [Keys -> Nat] /\ leaving \in [Keys -> Nat] /\ MaxRuns \in Nat
        /\ \A j \in Keys : expired[j] + leaving[j] <= MaxRuns
    BY BoundAssumption DEF IInv, TimerInv
  <2>2. /\ expired'[k] = expired[k] - 1 /\ leaving'[k] = leaving[k] + 1
        /\ \A j \in Keys \ {k} : expired'[j] = expired[j] /\ leaving'[j] = leaving[j]
    BY <1>0, <2>1
  <2>3. expired' \in [Keys -> Nat] /\ leaving' \in [Keys -> Nat]
    BY <1>0, <2>1
  <2>4. ASSUME NEW j \in Keys PROVE expired'[j] + leaving'[j] <= MaxRuns
    <3>1. expired'[j] + leaving'[j] = expired[j] + leaving[j]
      <4>1. CASE j = k
        BY <2>1, <2>2, <4>1
      <4>2. CASE j # k
        BY <2>2, <4>2
      <4> QED
        BY <4>1, <4>2
    <3> QED
      BY <2>1, <3>1
  <2> QED
    BY <1>1, <2>3, <2>4 DEF TimerInv, MapMoves
<1>3. \A j \in Keys : Arming(j) => Arming(j)'
  BY <1>0 DEF Arming
<1>4. data' \subseteq data /\ data \subseteq Keys
  BY <1>1 DEF MapMoves, IInv, MapInv
<1>5. \A j \in data' : expired'[j] = expired[j]
  BY <1>0, <1>1, <1>4 DEF IInv, TimerInv
<1>6. ArmInv'
  BY <1>1, <1>3, <1>4, <1>5, MovesKeep
<1> QED
  BY <1>1, <1>2, <1>6 DEF IInv, MapMoves

LEMMA TickStep ==
    ASSUME IInv, Tick, CallInv'
    PROVE  IInv'
<1>1. UNCHANGED <<limit, data, lru, unarmed, pc, key>>
  BY DEF Tick, map, caller
<1>2. /\ TimerInv'
      /\ \A k \in Keys : expired'[k] >= expired[k]
      /\ \A k \in Keys : due'[k] = 0 => due[k] = 0 \/ expired'[k] > 0
  BY TickFacts DEF IInv
<1>3. MapInv'
  BY <1>1 DEF IInv, MapInv, Elements, Distinct
<1>4. \A j \in Keys : Arming(j) => Arming(j)'
  BY <1>1 DEF Arming
<1>5. ASSUME NEW j \in data, due'[j] = 0, j \notin unarmed PROVE expired'[j] > 0 \/ Arming(j)'
  <2>1. j \in Keys /\ expired[j] \in Nat /\ expired'[j] \in Nat
    BY <1>2 DEF IInv, MapInv, TimerInv
  <2>2. due[j] = 0 => expired[j] > 0 \/ Arming(j)
    BY <1>5 DEF IInv, ArmInv
  <2> QED
    BY <1>2, <1>4, <1>5, <2>1, <2>2
<1>6. ArmInv'
  BY <1>1, <1>5 DEF ArmInv
<1> QED
  BY <1>2, <1>3, <1>6 DEF IInv

LEMMA NextInv == IInv /\ [Next]_vars => IInv'
<1> SUFFICES ASSUME IInv, [Next]_vars PROVE IInv'
  OBVIOUS
<1>0. CallInv /\ CallInv'
  BY CallsKept DEF IInv
<1>1. ASSUME NEW g \in Callers, NEW k \in Keys, Del(g, k) PROVE IInv'
  BY <1>0, <1>1, DelStep
<1>2. ASSUME NEW g \in Callers, NEW k \in Keys, Get(g, k) \/ TakeHit(g, k) PROVE IInv'
  BY <1>0, <1>2, HitStep
<1>3. ASSUME NEW g \in Callers, NEW k \in Keys, Set(g, k) PROVE IInv'
  <2>1. /\ pc[g] = "idle" /\ Store(g, k, ForSet) /\ key' = [key EXCEPT ![g] = k]
        /\ UNCHANGED <<limit, expired, leaving>>
    BY <1>3 DEF Set, runs
  <2> QED
    BY <1>0, <2>1, StoreStep
<1>4. ASSUME NEW g \in Callers, NEW k \in Keys, TakeMiss(g, k) PROVE IInv'
  BY <1>0, <1>4, OnlyCallerMoves DEF TakeMiss, CallInv
<1>5. ASSUME NEW g \in Callers, NEW d \in Delays, SetEnd(g, d) PROVE IInv'
  <2>1. pc[g] \in {"set", "move"} /\ Arm(key[g], pc[g] = "set", d) /\ RunTimers
    BY <1>5 DEF SetEnd
  <2>2. (pc[g] = "set") = (pc[g] \in {"set", "takeSet"})
    BY <2>1
  <2>3. Arm(key[g], pc[g] \in {"set", "takeSet"}, d)
    BY <2>1, <2>2
  <2>4. \A h \in Callers \ {g} : pc'[h] = pc[h] /\ key'[h] = key[h]
    BY <1>0, <1>5 DEF SetEnd, Idle, CallInv
  <2>5. UNCHANGED <<limit, map, leaving>>
    BY <1>5 DEF SetEnd
  <2> QED
    BY <1>0, <2>1, <2>3, <2>4, <2>5, ArmStep
<1>6. ASSUME NEW g \in Callers, NEW d \in Delays, FetchEnd(g, d) PROVE IInv'
  <2>1. pc[g] \in {"takeSet", "takeMove"} /\ Arm(key[g], pc[g] = "takeSet", d) /\ RunTimers
    BY <1>6 DEF FetchEnd
  <2>2. (pc[g] = "takeSet") = (pc[g] \in {"set", "takeSet"})
    BY <2>1
  <2>3. Arm(key[g], pc[g] \in {"set", "takeSet"}, d)
    BY <2>1, <2>2
  <2>4. \A h \in Callers \ {g} : pc'[h] = pc[h] /\ key'[h] = key[h]
    BY <1>0, <1>6 DEF FetchEnd, CallInv
  <2>5. UNCHANGED <<limit, map, leaving>>
    BY <1>6 DEF FetchEnd
  <2> QED
    BY <1>0, <2>1, <2>3, <2>4, <2>5, ArmStep
<1>7. ASSUME NEW g \in Callers, DelEnd(g) PROVE IInv'
  <2>1. /\ pc[g] = "untimer" /\ RemoveTimer(key[g]) /\ UNCHANGED <<limit, map, expired, leaving>>
    BY <1>7 DEF DelEnd, runs
  <2>2. key[g] \in Keys
    BY <1>0, <2>1, KeyOf
  <2>3. \A j \in Keys : Arming(j) => Arming(j)'
    BY <1>0, <1>7, ArmingKept DEF DelEnd, Idle, CallInv
  <2>4. leaving' \in [Keys -> Nat] /\ \A j \in Keys : leaving'[j] <= leaving[j]
    BY <2>1 DEF IInv, TimerInv
  <2> QED
    BY <1>0, <2>1, <2>2, <2>3, <2>4, RemoveStep
<1>8. ASSUME NEW g \in Callers, Barrier(g) PROVE IInv'
  BY <1>0, <1>8, OnlyCallerMoves DEF Barrier, CallInv
<1>9. ASSUME NEW g \in Callers, Check(g) PROVE IInv'
  <2> DEFINE k == key[g]
  <2>0. pc[g] = "check" /\ UNCHANGED <<limit, key, expired, leaving>>
    BY <1>9 DEF Check, runs
  <2>1. k \in Keys
    BY <1>0, <2>0, KeyOf
  <2>2. CASE k \in data
    <3>1. Add(k, data) /\ pc' = [pc EXCEPT ![g] = "end"]
      BY <1>9, <2>2 DEF Check
    <3>2. MapMoves({k}) /\ k \in data'
      BY <2>0, <2>1, <2>2, <3>1, AddMoves DEF IInv, TimerInv
    <3>3. TimerInv'
      BY <2>0, <3>2 DEF IInv, TimerInv, MapMoves
    <3>4. \A j \in Keys : Arming(j) => Arming(j)'
      BY <1>0, <2>0, <3>1, ArmingKept DEF CallInv
    <3>5. data' \subseteq data /\ data \subseteq Keys
      BY <2>2, <3>2 DEF MapMoves, IInv, MapInv
    <3>6. ArmInv'
      BY <2>0, <2>1, <3>2, <3>4, <3>5, MovesKeep
    <3> QED
      BY <1>0, <3>2, <3>3, <3>6 DEF IInv, MapMoves
  <2>3. CASE k \notin data
    BY <1>0, <1>9, <2>0, <2>3, OnlyCallerMoves DEF Check, CallInv
  <2> QED
    BY <2>2, <2>3
<1>10. ASSUME NEW g \in Callers, Fetch(g) PROVE IInv'
  <2>0. pc[g] = "fetch" /\ UNCHANGED <<limit, key, expired, leaving>>
    BY <1>10 DEF Fetch, runs
  <2>1. CASE Store(g, key[g], ForTake)
    <3>1. key[g] \in Keys
      BY <1>0, <2>0, KeyOf
    <3>2. key' = [key EXCEPT ![g] = key[g]]
      BY <1>0, <2>0 DEF CallInv
    <3> QED
      BY <1>0, <2>0, <2>1, <3>1, <3>2, StoreStep
  <2>2. CASE pc' = [pc EXCEPT ![g] = "end"] /\ UNCHANGED <<map, unarmed, timer>>
    BY <1>0, <2>0, <2>2, OnlyCallerMoves DEF CallInv, runs
  <2> QED
    BY <1>10, <2>1, <2>2 DEF Fetch
<1>11. ASSUME NEW g \in Callers, TakeEnd(g) PROVE IInv'
  <2>1. \A h \in Callers \ {g} : pc[h] \in {"set", "takeSet"} => pc'[h] = pc[h] /\ key'[h] = key[h]
    BY <1>11 DEF TakeEnd, Joined
  <2> QED
    BY <1>0, <1>11, <2>1, OnlyCallerMoves DEF TakeEnd
<1>12. ASSUME NEW k \in Keys, Expire(k) PROVE IInv'
  BY <1>0, <1>12, ExpireStep
<1>13. ASSUME NEW k \in Keys, ExpireEnd(k) PROVE IInv'
  <2>1. /\ leaving[k] > 0 /\ RemoveTimer(k) /\ leaving' = [leaving EXCEPT ![k] = @ - 1]
        /\ UNCHANGED <<limit, map, expired, pc, key>>
    BY <1>13 DEF ExpireEnd, caller
  <2>2. \A j \in Keys : Arming(j) => Arming(j)'
    BY <2>1 DEF Arming
  <2>3. leaving' \in [Keys -> Nat] /\ \A j \in Keys : leaving'[j] <= leaving[j]
    BY <2>1 DEF IInv, TimerInv
  <2> QED
    BY <1>0, <2>1, <2>2, <2>3, RemoveStep
<1>14. CASE Tick
  BY <1>0, <1>14, TickStep
<1>15. CASE UNCHANGED vars
  <2>1. UNCHANGED <<limit, data, lru, unarmed, due, expired, leaving, pc, key>>
    BY <1>15 DEF vars
  <2>2. TimerInv' /\ MapInv' /\ ArmInv'
    BY <2>1 DEF IInv, TimerInv, MapInv, ArmInv, Arming, Elements, Distinct
  <2> QED
    BY <1>0, <2>2 DEF IInv
<1> QED
  BY <1>1, <1>2, <1>3, <1>4, <1>5, <1>6, <1>7, <1>8, <1>9, <1>10, <1>11, <1>12, <1>13, <1>14,
     <1>15 DEF Next

LEMMA Inductive == Spec => []IInv
BY InitInv, NextInv, PTL DEF Spec

-----------------------------------------------------------------------------
\* Every variable keeps its type, and, whatever else Take's callers do, the
\* barrier knows exactly the callers that are inside a shared call: no two
\* fetch the same key at once.
THEOREM LocalTypes == Spec => []TypeOK
<1>1. IInv => TypeOK
  <2> SUFFICES ASSUME IInv PROVE TypeOK
    OBVIOUS
  <2>1. \A k \in Keys : expired[k] \in 0..MaxRuns /\ leaving[k] \in 0..MaxRuns
    BY BoundAssumption DEF IInv, TimerInv
  <2>2. expired \in [Keys -> 0..MaxRuns] /\ leaving \in [Keys -> 0..MaxRuns]
    BY <2>1 DEF IInv, TimerInv
  <2> QED
    BY <2>2 DEF IInv, CallInv, TimerInv, MapInv, TypeOK, Places
<1> QED
  BY <1>1, Inductive, PTL

\* WithLimit: in whatever order Set, Get, Take, Del, evictions and expiries
\* take the lock, the LRU list holds each key of the map once and no other key,
\* and the map never has more keys than the limit, for every limit.
THEOREM LruMatchesMap == Spec => []LruExact
<1>1. IInv => LruExact
  <2> SUFFICES ASSUME IInv, limit > 0
               PROVE  Elements = data /\ Len(lru) = Cardinality(data) /\ Len(lru) <= limit
    BY DEF LruExact
  <2>1. /\ Elements = data /\ Len(lru) <= limit /\ lru \in Seq(Keys) /\ Distinct(lru)
        /\ Elements = ElementsOf(lru)
    BY DEF IInv, MapInv, Elements, ElementsOf
  <2>2. Cardinality(ElementsOf(lru)) = Len(lru)
    BY <2>1, Counted
  <2> QED
    BY <2>1, <2>2
<1> QED
  BY <1>1, Inductive, PTL

\* SetWithExpire and Del touch the wheel after they gave up the lock; still a
\* key of the map about which no call is under way has a timer, unless the
\* RemoveTimer of a Del came after the key had been set again.
THEOREM ExpiresOrRaced == Spec => []ExpiresUnlessRaced
<1>1. IInv => ExpiresUnlessRaced
  <2> SUFFICES ASSUME IInv, NEW k \in Keys, k \in data, Quiet(k), k \notin unarmed
               PROVE  due[k] > 0
    BY DEF ExpiresUnlessRaced
  <2>1. ~Arming(k) /\ expired[k] = 0 /\ due[k] \in Nat
    BY DEF Quiet, Arming, IInv, TimerInv
  <2>2. due[k] = 0 => expired[k] > 0 \/ Arming(k)
    BY DEF IInv, ArmInv
  <2> QED
    BY <2>1, <2>2
<1> QED
  BY <1>1, Inductive, PTL
=============================================================================
