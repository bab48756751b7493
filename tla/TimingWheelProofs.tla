-------------------------- MODULE TimingWheelProofs --------------------------
(***************************************************************************)
(* Theorems about TimingWheel, for any number of slots, keys, values and   *)
(* entries, and any delays: an inductive invariant of map and lists, and,  *)
(* from it, that the wheel implements Timers step by step.                 *)
(***************************************************************************)
EXTENDS TimingWheel, TLAPS

\* Arithmetic of a wheel.
LEMMA ModInSlots ==
  ASSUME NEW x \in Int
  PROVE  x % NumSlots \in Slots
BY NumSlotsAssumption DEF Slots

LEMMA CircleNat ==
  ASSUME NEW d \in Nat, d >= 1
  PROVE  Circle(d) \in Nat
BY NumSlotsAssumption DEF Circle

LEMMA DiffInSlots ==
  ASSUME NEW from \in Slots, NEW pos \in Slots
  PROVE  Diff(from, pos) \in Slots
BY NumSlotsAssumption DEF Slots, Diff

\* Fewer steps than there are slots never lead back to the same slot.
LEMMA ShiftMoves ==
  ASSUME NEW from \in Slots, NEW n \in Slots, n > 0
  PROVE  (from + n) % NumSlots # from
<1>1. CASE from + n < NumSlots
  <2>1. (from + n) % NumSlots = from + n
    BY <1>1, NumSlotsAssumption DEF Slots
  <2> QED
    BY <2>1 DEF Slots
<1>2. CASE from + n >= NumSlots
  <2>1. (from + n) % NumSlots = from + n - NumSlots
    BY <1>2, NumSlotsAssumption DEF Slots
  <2> QED
    BY <2>1, NumSlotsAssumption DEF Slots
<1> QED
  BY <1>1, <1>2, NumSlotsAssumption DEF Slots

-----------------------------------------------------------------------------
(***************************************************************************)
(* The inductive invariant, over the lists' entries es and the timers map  *)
(* tm, so that a handler that does two things can be taken apart: what the *)
(* map holds is a live entry of that key, what is live in a list is what   *)
(* the map holds, and no entry has a whole revolution to travel.           *)
(***************************************************************************)
Typed(es, tm) == es \in [Ids -> Entry \cup {Blank}] /\ tm \in [Keys -> PositionEntry]

HeldIsLive(es, tm) ==
    \A k \in Keys : tm[k].item # NoItem =>
        /\ es[tm[k].item] \in Entry
        /\ es[tm[k].item].key = k
        /\ es[tm[k].item].status = "live"

LiveIsHeld(es, tm) ==
    \A i \in Ids : es[i].slot # Unlinked /\ es[i].status = "live" =>
        tm[es[i].key] = [pos |-> es[i].slot, item |-> i]

ShortDiffs(es) == \A i \in Ids : es[i].diff \in Slots

Good(es, tm) == Typed(es, tm) /\ HeldIsLive(es, tm) /\ LiveIsHeld(es, tm) /\ ShortDiffs(es)

LEMMA ZeroSlot == 0 \in Slots /\ Unlinked \notin Slots
BY NumSlotsAssumption DEF Slots, Unlinked

\* A linked entry is an entry of some key.
LEMMA LinkedIsEntry ==
  ASSUME NEW es, NEW tm, Typed(es, tm), NEW i \in Ids, es[i].slot # Unlinked
  PROVE  es[i] \in Entry /\ es[i].key \in Keys /\ es[i].slot \in Slots
BY DEF Typed, Entry, Blank

\* The value, the circles and the diff of a held entry may change.
LEMMA AdjustKeeps ==
  ASSUME NEW es, NEW tm, Good(es, tm), NEW k \in Keys, tm[k].item # NoItem,
         NEW v \in Values, NEW c \in Nat, NEW d \in Slots
  PROVE  /\ Good([es EXCEPT ![tm[k].item].value = v], tm)
         /\ Good([es EXCEPT ![tm[k].item].circle = c, ![tm[k].item].diff = d], tm)
<1> DEFINE h == tm[k].item
<1>1. h \in Ids /\ es[h] \in Entry
  BY NoItemAssumption DEF Good, Typed, HeldIsLive, PositionEntry
<1>2. ASSUME NEW e \in Entry, NEW new, new = [es EXCEPT ![h] = e], e.key = es[h].key,
             e.status = es[h].status, e.slot = es[h].slot, e.diff \in Slots
      PROVE  Good(new, tm)
  <2>1. new[h] = e /\ \A i \in Ids \ {h} : new[i] = es[i]
    BY <1>1, <1>2 DEF Good, Typed
  <2>2. Typed(new, tm)
    BY <1>1, <1>2 DEF Good, Typed
  <2>3. HeldIsLive(new, tm)
    BY <1>1, <1>2, <2>1, NoItemAssumption DEF Good, Typed, HeldIsLive, PositionEntry
  <2>4. LiveIsHeld(new, tm)
    BY <1>1, <1>2, <2>1 DEF Good, LiveIsHeld
  <2>5. ShortDiffs(new)
    BY <1>1, <1>2, <2>1 DEF Good, ShortDiffs
  <2> QED
    BY <2>2, <2>3, <2>4, <2>5 DEF Good
<1>3. es[h].diff \in Slots
  BY <1>1 DEF Good, ShortDiffs
<1>4. Good([es EXCEPT ![h].value = v], tm)
  <2> DEFINE e == [es[h] EXCEPT !.value = v]
  <2>1. e \in Entry /\ e.key = es[h].key /\ e.status = es[h].status /\ e.slot = es[h].slot
          /\ e.diff = es[h].diff
    BY <1>1 DEF Entry
  <2>2. [es EXCEPT ![h].value = v] = [es EXCEPT ![h] = e]
    BY <1>1 DEF Good, Typed
  <2> QED
    BY <1>2, <1>3, <2>1, <2>2
<1>5. Good([es EXCEPT ![h].circle = c, ![h].diff = d], tm)
  <2> DEFINE e == [es[h] EXCEPT !.circle = c, !.diff = d]
  <2>1. e \in Entry /\ e.key = es[h].key /\ e.status = es[h].status /\ e.slot = es[h].slot
          /\ e.diff = d
    <3>1. d \in Nat
      BY NumSlotsAssumption DEF Slots
    <3> QED
      BY <1>1, <3>1 DEF Entry
  <2>2. [es EXCEPT ![h].circle = c, ![h].diff = d] = [es EXCEPT ![h] = e]
    BY <1>1 DEF Good, Typed
  <2> QED
    BY <1>2, <2>1, <2>2
<1> QED
  BY <1>4, <1>5

\* A held entry is marked removed and its key taken out of the map.
LEMMA RemoveKeeps ==
  ASSUME NEW es, NEW tm, Good(es, tm), NEW k \in Keys, tm[k].item # NoItem
  PROVE  Good([es EXCEPT ![tm[k].item] = MarkRemoved(@)], [tm EXCEPT ![k] = Absent])
<1> DEFINE h == tm[k].item
           e == MarkRemoved(es[h])
           new == [es EXCEPT ![h] = e]
           map == [tm EXCEPT ![k] = Absent]
<1>1. h \in Ids /\ es[h] \in Entry /\ es[h].key = k
  BY NoItemAssumption DEF Good, Typed, HeldIsLive, PositionEntry
<1>2. e \in Entry \cup {Blank} /\ e.diff \in Slots /\ ~(e.slot # Unlinked /\ e.status = "live")
  BY <1>1, ZeroSlot DEF MarkRemoved, Entry, Blank, Good, ShortDiffs
<1>3. new[h] = e /\ \A i \in Ids \ {h} : new[i] = es[i]
  BY <1>1 DEF Good, Typed
<1>4. map[k] = Absent /\ \A j \in Keys \ {k} : map[j] = tm[j]
  BY DEF Good, Typed
<1>5. Absent \in PositionEntry
  BY ZeroSlot DEF Absent, PositionEntry
<1>6. Typed(new, map)
  BY <1>1, <1>2, <1>5 DEF Good, Typed
<1> HIDE DEF new, map, e
<1>7. HeldIsLive(new, map)
  BY <1>1, <1>3, <1>4, NoItemAssumption
  DEF Good, Typed, HeldIsLive, PositionEntry, Absent
<1>8. LiveIsHeld(new, map)
  <2> SUFFICES ASSUME NEW i \in Ids, new[i].slot # Unlinked, new[i].status = "live"
               PROVE  map[new[i].key] = [pos |-> new[i].slot, item |-> i]
    BY DEF LiveIsHeld
  <2>1. i # h /\ new[i] = es[i]
    BY <1>2, <1>3
  <2>2. tm[es[i].key] = [pos |-> es[i].slot, item |-> i]
    BY <2>1 DEF Good, LiveIsHeld
  <2>3. es[i].key \in Keys /\ es[i].key # k
    BY <2>1, <2>2, LinkedIsEntry DEF Good
  <2> QED
    BY <1>4, <2>1, <2>2, <2>3
<1>9. ShortDiffs(new)
  BY <1>2, <1>3 DEF Good, ShortDiffs
<1>10. Good(new, map)
  BY <1>6, <1>7, <1>8, <1>9 DEF Good
<1> QED
  BY <1>10 DEF new, map, e

\* A new entry for a key that the map does not hold.
LEMMA InsertKeeps ==
  ASSUME NEW es, NEW tm, Good(es, tm), NEW k \in Keys, tm[k].item = NoItem,
         NEW i \in Ids, es[i].slot = Unlinked, \A j \in Keys : tm[j].item # i,
         NEW v \in Values, NEW pos \in Slots, NEW circle \in Nat
  PROVE  Good([es EXCEPT ![i] = [key |-> k, value |-> v, slot |-> pos, circle |-> circle,
                                 diff |-> 0, status |-> "live"]],
              [tm EXCEPT ![k] = [pos |-> pos, item |-> i]])
<1> DEFINE e == [key |-> k, value |-> v, slot |-> pos, circle |-> circle,
                 diff |-> 0, status |-> "live"]
           p == [pos |-> pos, item |-> i]
           new == [es EXCEPT ![i] = e]
           map == [tm EXCEPT ![k] = p]
<1>1. e \in Entry /\ e.diff \in Slots /\ e.key = k /\ e.slot = pos /\ e.status = "live"
  BY ZeroSlot DEF Entry
<1>2. p \in PositionEntry /\ p.item = i
  BY DEF PositionEntry
<1>3. new[i] = e /\ \A j \in Ids \ {i} : new[j] = es[j]
  BY DEF Good, Typed
<1>4. map[k] = p /\ \A j \in Keys \ {k} : map[j] = tm[j]
  BY DEF Good, Typed
<1>5. Typed(new, map)
  BY <1>1, <1>2 DEF Good, Typed
<1> HIDE DEF new, map, e
<1>6. HeldIsLive(new, map)
  BY <1>1, <1>2, <1>3, <1>4 DEF Good, Typed, HeldIsLive, PositionEntry
<1>7. LiveIsHeld(new, map)
  <2> SUFFICES ASSUME NEW j \in Ids, new[j].slot # Unlinked, new[j].status = "live"
               PROVE  map[new[j].key] = [pos |-> new[j].slot, item |-> j]
    BY DEF LiveIsHeld
  <2>1. CASE j = i
    BY <1>1, <1>3, <1>4, <2>1
  <2>2. CASE j # i
    <3>1. new[j] = es[j] /\ tm[es[j].key] = [pos |-> es[j].slot, item |-> j]
      BY <1>3, <2>2 DEF Good, LiveIsHeld
    <3>2. es[j].key \in Keys /\ es[j].key # k
      BY <3>1, LinkedIsEntry, NoItemAssumption DEF Good
    <3> QED
      BY <1>4, <3>1, <3>2
  <2> QED
    BY <2>1, <2>2
<1>8. ShortDiffs(new)
  BY <1>1, <1>3 DEF Good, ShortDiffs
<1>9. Good(new, map)
  BY <1>5, <1>6, <1>7, <1>8 DEF Good
<1> QED
  BY <1>9 DEF new, map, e

-----------------------------------------------------------------------------
\* A callback that waits reads through the positionEntry of a key in the map,
\* or from an entry that has been in the wheel.
LateRefers ==
    \A g \in Callbacks :
        /\ late[g] \in Keys => Held(late[g])
        /\ late[g] \in Ids => entries[late[g]].key \in Keys

Inv == TypeOK /\ Good(entries, timers) /\ LateRefers

LEMMA InitInv == Init => Inv
<1> SUFFICES ASSUME Init PROVE Inv
  OBVIOUS
<1>1. entries = [i \in Ids |-> Blank] /\ timers = [k \in Keys |-> Absent]
  BY DEF Init
<1>2. Absent \in PositionEntry /\ Absent.item = NoItem
  BY ZeroSlot DEF Absent, PositionEntry
<1>3. Blank.slot = Unlinked /\ Blank.diff \in Slots
  BY ZeroSlot DEF Blank
<1>4. Good(entries, timers)
  BY <1>1, <1>2, <1>3 DEF Good, Typed, HeldIsLive, LiveIsHeld, ShortDiffs
<1>5. tickedPos \in Slots /\ phase = "running"
  BY NumSlotsAssumption DEF Init, Slots
<1>6. /\ late \in [Callbacks -> Keys \cup Ids \cup {NoItem}]
      /\ \A g \in Callbacks : late[g] = NoItem
  BY DEF Init
<1>7. LateRefers
  BY <1>6, NoItemAssumption, ReferenceAssumption DEF LateRefers
<1> QED
  BY <1>4, <1>5, <1>6, <1>7 DEF Inv, TypeOK, Good, Typed

LEMMA RelocateKeeps ==
  ASSUME Inv, NEW es, Good(es, timers), \A i \in Ids : es[i].slot = entries[i].slot,
         NEW k \in Keys, Held(k), NEW d \in Nat, d >= 1, Relocate(es, k, d)
  PROVE  Good(entries', timers')
<1> DEFINE t == timers[k]
<1>1. t.item # NoItem /\ t.item \in Ids /\ t.pos \in Slots /\ es[t.item] \in Entry
  BY NoItemAssumption DEF Good, Typed, HeldIsLive, PositionEntry, Held
<1>2. Pos(d) \in Slots
  <2>1. tickedPos + d \in Int
    BY NumSlotsAssumption DEF Inv, TypeOK, Slots
  <2> QED
    BY <2>1, ModInSlots DEF Pos
<1>3. Circle(d) \in Nat /\ Diff(t.pos, Pos(d)) \in Slots
  BY <1>1, <1>2, CircleNat, DiffInSlots
<1>4. es[t.item].value \in Values
  BY <1>1 DEF Entry
<1>5. CASE /\ Pos(d) >= t.pos \/ Circle(d) > 0
           /\ entries' = [es EXCEPT
                 ![t.item].circle = IF Pos(d) >= t.pos THEN Circle(d) ELSE Circle(d) - 1,
                 ![t.item].diff = Diff(t.pos, Pos(d))]
           /\ UNCHANGED timers
  <2> DEFINE c == IF Pos(d) >= t.pos THEN Circle(d) ELSE Circle(d) - 1
             df == Diff(t.pos, Pos(d))
  <2>1. c \in Nat /\ df \in Slots
    BY <1>3, <1>5
  <2>2. entries' = [es EXCEPT ![timers[k].item].circle = c, ![timers[k].item].diff = df]
    BY <1>5
  <2> HIDE DEF c, df
  <2>3. Good([es EXCEPT ![timers[k].item].circle = c, ![timers[k].item].diff = df], timers)
    BY <1>1, <1>4, <2>1, AdjustKeeps
  <2> QED
    BY <1>5, <2>2, <2>3
<1>6. CASE Insert([es EXCEPT ![t.item] = MarkRemoved(@)], k, es[t.item].value, Pos(d), 0)
  <2> DEFINE mid == [es EXCEPT ![t.item] = MarkRemoved(@)]
             map == [timers EXCEPT ![k] = Absent]
             v == es[t.item].value
             pos == Pos(d)
  <2>1. Good(mid, map)
    BY <1>1, RemoveKeeps
  <2>2. PICK i \in Ids : /\ Free(i)
                         /\ entries' = [mid EXCEPT ![i] =
                              [key |-> k, value |-> v, slot |-> pos, circle |-> 0,
                               diff |-> 0, status |-> "live"]]
                         /\ timers' = [timers EXCEPT ![k] = [pos |-> pos, item |-> i]]
    BY <1>6 DEF Insert
  <2>3. map[k].item = NoItem
    BY DEF Good, Typed, Absent
  <2>4. mid[i].slot = Unlinked
    BY <1>1, <2>2 DEF Free, Linked, Good, Typed
  <2>5. \A j \in Keys : map[j].item # i
    BY <2>2, NoItemAssumption DEF Free, Good, Typed, Absent
  <2>6. timers' = [map EXCEPT ![k] = [pos |-> pos, item |-> i]]
    BY <2>2 DEF Good, Typed
  <2>7. v \in Values /\ pos \in Slots /\ 0 \in Nat
    BY <1>2, <1>4
  <2> HIDE DEF mid, map, v, pos
  <2>8. Good([mid EXCEPT ![i] = [key |-> k, value |-> v, slot |-> pos, circle |-> 0,
                                 diff |-> 0, status |-> "live"]],
             [map EXCEPT ![k] = [pos |-> pos, item |-> i]])
    BY <2>1, <2>3, <2>4, <2>5, <2>7, InsertKeeps
  <2> QED
    BY <2>2, <2>6, <2>8
<1> QED
  BY <1>5, <1>6 DEF Relocate, Stays

LEMMA SetTimerKeeps ==
  ASSUME Inv, NEW k \in Keys, NEW v \in Values, NEW d \in Nat, SetTimer(k, v, d)
  PROVE  Good(entries', timers')
<1> DEFINE delay == IF d < 1 THEN 1 ELSE d
<1>1. delay \in Nat /\ delay >= 1
  OBVIOUS
<1>2. CASE Held(k)
  <2> DEFINE es == [entries EXCEPT ![timers[k].item].value = v]
  <2>1. Relocate(es, k, delay)
    BY <1>2 DEF SetTimer
  <2>2. Good(es, timers)
    BY <1>2, ZeroSlot, AdjustKeeps DEF Inv, Held
  <2>3. \A i \in Ids : es[i].slot = entries[i].slot
    BY <1>2, NoItemAssumption DEF Inv, Good, Typed, HeldIsLive, PositionEntry, Held, Entry
  <2> HIDE DEF es, delay
  <2> QED
    BY <1>1, <1>2, <2>1, <2>2, <2>3, RelocateKeeps
<1>3. CASE ~Held(k)
  <2>1. Insert(entries, k, v, Pos(delay), Circle(delay))
    BY <1>3 DEF SetTimer
  <2>2. PICK i \in Ids :
          /\ Free(i)
          /\ entries' = [entries EXCEPT ![i] = [key |-> k, value |-> v, slot |-> Pos(delay),
                            circle |-> Circle(delay), diff |-> 0, status |-> "live"]]
          /\ timers' = [timers EXCEPT ![k] = [pos |-> Pos(delay), item |-> i]]
    BY <2>1 DEF Insert
  <2>3. Pos(delay) \in Slots
    <3>1. tickedPos + delay \in Int
      BY <1>1, NumSlotsAssumption DEF Inv, TypeOK, Slots
    <3> QED
      BY <3>1, ModInSlots DEF Pos
  <2>4. Circle(delay) \in Nat
    BY <1>1, CircleNat
  <2>5. entries[i].slot = Unlinked /\ \A j \in Keys : timers[j].item # i
    BY <2>2 DEF Free, Linked
  <2> HIDE DEF delay
  <2> QED
    BY <1>3, <2>2, <2>3, <2>4, <2>5, InsertKeeps DEF Held, Inv
<1> QED
  BY <1>2, <1>3

LEMMA MoveTimerKeeps ==
  ASSUME Inv, NEW k \in Keys, NEW d \in Nat, MoveTimer(k, d)
  PROVE  Good(entries', timers')
<1>1. CASE UNCHANGED <<entries, timers>>
  BY <1>1 DEF Inv
<1>2. CASE Held(k) /\ d >= 1 /\ Relocate(entries, k, d)
  BY <1>2, RelocateKeeps DEF Inv
<1> QED
  BY <1>1, <1>2 DEF MoveTimer

LEMMA RemoveTimerKeeps ==
  ASSUME Inv, NEW k \in Keys, RemoveTimer(k)
  PROVE  Good(entries', timers')
<1>1. CASE Held(k)
  BY <1>1, RemoveKeeps DEF RemoveTimer, Inv, Held
<1>2. CASE ~Held(k)
  BY <1>2 DEF RemoveTimer, Inv
<1> QED
  BY <1>1, <1>2

\* The slot that the next tick scans.
Now == (tickedPos + 1) % NumSlots

LEMMA NowInSlots == Inv => Now \in Slots
<1> SUFFICES ASSUME Inv PROVE Now \in Slots
  OBVIOUS
<1>1. tickedPos + 1 \in Int
  BY NumSlotsAssumption DEF Inv, TypeOK, Slots
<1> QED
  BY <1>1, ModInSlots DEF Now

\* At most one entry of a key is live.
LEMMA OneLive ==
  ASSUME Inv, NEW i \in Ids, NEW j \in Ids, Live(i), Live(j), entries[i].key = entries[j].key
  PROVE  i = j
<1>1. /\ timers[entries[i].key] = [pos |-> entries[i].slot, item |-> i]
      /\ timers[entries[j].key] = [pos |-> entries[j].slot, item |-> j]
  BY DEF Live, Linked, Inv, Good, LiveIsHeld
<1>2. timers[entries[i].key].item = i /\ timers[entries[j].key].item = j
  BY <1>1
<1> QED
  BY <1>2

\* An entry of the slot scanned is an entry of a key, and what expires or is
\* shifted is live.
LEMMA ScannedIsEntry ==
  ASSUME Inv, NEW i \in Ids
  PROVE  /\ entries[i].slot = Now => entries[i] \in Entry /\ entries[i].key \in Keys
         /\ Expires(i, Now) \/ Shifts(i, Now) => Live(i) /\ entries[i].key \in Keys
<1>1. entries[i].slot = Now => entries[i] \in Entry /\ entries[i].key \in Keys
  BY NowInSlots, ZeroSlot, LinkedIsEntry DEF Inv, Good
<1> QED
  BY <1>1, NowInSlots, ZeroSlot DEF Expires, Shifts, Live, Linked

\* What a tick does to an entry.
LEMMA TickEntries ==
  ASSUME Tick, NEW i \in Ids
  PROVE  /\ Unlinks(i, Now) => entries'[i] = [entries[i] EXCEPT !.slot = Unlinked]
         /\ ~Unlinks(i, Now) /\ Shifts(i, Now) =>
              entries'[i] = [entries[i] EXCEPT !.slot = ShiftPos(i, Now), !.diff = 0]
         /\ ~Unlinks(i, Now) /\ ~Shifts(i, Now) /\ entries[i].slot = Now =>
              entries'[i] = [entries[i] EXCEPT !.circle = @ - 1]
         /\ entries[i].slot # Now => entries'[i] = entries[i]
BY DEF Tick, Now, Unlinks, Shifts, Expires

\* What a tick does to the map: it follows the one live entry of a key.
LEMMA TickTimers ==
  ASSUME Inv, Tick, NEW k \in Keys
  PROVE  /\ (\E i \in Ids : Expires(i, Now) /\ entries[i].key = k) => timers'[k] = Absent
         /\ \A i \in Ids : Shifts(i, Now) /\ entries[i].key = k =>
              timers'[k] = [pos |-> ShiftPos(i, Now), item |-> i]
         /\ (\A i \in Ids : entries[i].key = k => ~Expires(i, Now) /\ ~Shifts(i, Now)) =>
              timers'[k] = timers[k]
<1> DEFINE ex == \E i \in Ids : Expires(i, Now) /\ entries[i].key = k
           ch == CHOOSE j \in Ids : Shifts(j, Now) /\ entries[j].key = k
<1>1. timers'[k] = IF ex THEN Absent
                   ELSE IF \E i \in Ids : Shifts(i, Now) /\ entries[i].key = k
                        THEN [pos |-> ShiftPos(ch, Now), item |-> ch] ELSE timers[k]
  BY DEF Tick, Now
<1>2. ASSUME NEW i \in Ids, Shifts(i, Now), entries[i].key = k
      PROVE  ~ex /\ ch = i
  <2>1. ch \in Ids /\ Shifts(ch, Now) /\ entries[ch].key = k
    BY <1>2
  <2>2. ch = i
    BY <1>2, <2>1, OneLive, ScannedIsEntry
  <2>3. ASSUME NEW j \in Ids, Expires(j, Now), entries[j].key = k PROVE FALSE
    <3>1. j = i
      BY <1>2, <2>3, OneLive, ScannedIsEntry
    <3> QED
      BY <1>2, <2>3, <3>1 DEF Expires, Shifts, Inv, Good, ShortDiffs, Slots
  <2> QED
    BY <2>2, <2>3
<1> QED
  BY <1>1, <1>2

\* A tick keeps the invariant.
LEMMA TickKeeps ==
  ASSUME Inv, Tick
  PROVE  Good(entries', timers')
<1> DEFINE now == Now
<1> USE DEF Inv
<1>0. now \in Slots
  BY NowInSlots
<1>1. ASSUME NEW i \in Ids
      PROVE  /\ Unlinks(i, now) => entries'[i] = [entries[i] EXCEPT !.slot = Unlinked]
             /\ ~Unlinks(i, now) /\ Shifts(i, now) =>
                  entries'[i] = [entries[i] EXCEPT !.slot = ShiftPos(i, now), !.diff = 0]
             /\ ~Unlinks(i, now) /\ ~Shifts(i, now) /\ entries[i].slot = now =>
                  entries'[i] = [entries[i] EXCEPT !.circle = @ - 1]
             /\ entries[i].slot # now => entries'[i] = entries[i]
  BY TickEntries
<1>2. ASSUME NEW i \in Ids, entries[i].slot = now
      PROVE  entries[i] \in Entry /\ entries[i].key \in Keys
  BY <1>2, ScannedIsEntry
<1>5. ASSUME NEW i \in Ids, NEW j \in Ids, Live(i), Live(j), entries[i].key = entries[j].key
      PROVE  i = j
  BY <1>5, OneLive
<1>6. \A i \in Ids : Expires(i, now) \/ Shifts(i, now) => Live(i) /\ entries[i].key \in Keys
  BY ScannedIsEntry
<1>7. ASSUME NEW k \in Keys
      PROVE  /\ (\E i \in Ids : Expires(i, now) /\ entries[i].key = k) => timers'[k] = Absent
             /\ \A i \in Ids : Shifts(i, now) /\ entries[i].key = k =>
                  timers'[k] = [pos |-> ShiftPos(i, now), item |-> i]
             /\ (\A i \in Ids : entries[i].key = k => ~Expires(i, now) /\ ~Shifts(i, now)) =>
                  timers'[k] = timers[k]
  BY TickTimers
<1> HIDE DEF now
<1>3. ASSUME NEW i \in Ids PROVE ShiftPos(i, now) \in Slots
  <2>1. entries[i].diff \in Slots
    BY DEF Good, ShortDiffs
  <2>2. now + entries[i].diff \in Int
    BY <1>0, <2>1, NumSlotsAssumption DEF Slots
  <2> QED
    BY <2>2, ModInSlots DEF ShiftPos
<1>4. ASSUME NEW i \in Ids
      PROVE  /\ entries'[i] \in Entry \cup {Blank}
             /\ entries'[i].diff \in Slots
             /\ entries[i] \in Entry /\ ~Unlinks(i, now) =>
                  /\ entries'[i] \in Entry
                  /\ entries'[i].key = entries[i].key
                  /\ entries'[i].status = entries[i].status
                  /\ entries'[i].slot = IF Shifts(i, now) THEN ShiftPos(i, now) ELSE entries[i].slot
  <2>1. CASE Unlinks(i, now)
    <3>1. entries'[i] = [entries[i] EXCEPT !.slot = Unlinked]
      BY <1>1, <2>1
    <3>2. entries[i] \in Entry /\ entries[i].diff \in Slots
      BY <1>2, <2>1 DEF Unlinks, Expires, Good, ShortDiffs
    <3> QED
      BY <2>1, <3>1, <3>2 DEF Entry
  <2>2. CASE ~Unlinks(i, now) /\ Shifts(i, now)
    <3>1. entries[i] \in Entry
      BY <1>2, <2>2 DEF Shifts
    <3>2. entries'[i] = [entries[i] EXCEPT !.slot = ShiftPos(i, now), !.diff = 0]
      BY <1>1, <2>2
    <3>3. ShiftPos(i, now) \in Slots
      BY <1>3
    <3> DEFINE e == entries[i]
               to == ShiftPos(i, now)
               n == [e EXCEPT !.slot = to, !.diff = 0]
    <3> HIDE DEF e, to
    <3>4. n \in Entry /\ n.key = e.key /\ n.status = e.status /\ n.slot = to /\ n.diff = 0
      BY <3>1, <3>3 DEF Entry, e, to
    <3> HIDE DEF n
    <3>5. /\ entries'[i] \in Entry /\ entries'[i].key = entries[i].key
          /\ entries'[i].status = entries[i].status
          /\ entries'[i].slot = ShiftPos(i, now) /\ entries'[i].diff = 0
      <4>1. entries'[i] = n
        BY <3>2 DEF n, e, to
      <4> QED
        BY <3>4, <4>1 DEF e, to
    <3> QED
      BY <2>2, <3>5, ZeroSlot
  <2>3. CASE ~Unlinks(i, now) /\ ~Shifts(i, now) /\ entries[i].slot = now
    <3>1. entries[i] \in Entry /\ entries[i].diff \in Slots
      BY <1>2, <2>3 DEF Good, ShortDiffs
    <3>2. entries[i].circle - 1 \in Nat
      BY <2>3, <3>1 DEF Unlinks, Shifts, Expires, Entry
    <3> QED
      BY <1>1, <2>3, <3>1, <3>2 DEF Entry
  <2>4. CASE entries[i].slot # now
    <3>1. ~Shifts(i, now)
      BY <2>4 DEF Shifts
    <3> QED
      BY <1>1, <2>4, <3>1 DEF Good, Typed, ShortDiffs
  <2> QED
    BY <2>1, <2>2, <2>3, <2>4
<1>8. Typed(entries', timers')
  <2>1. entries' \in [Ids -> Entry \cup {Blank}]
    BY <1>4 DEF Tick
  <2>2. ASSUME NEW k \in Keys PROVE timers'[k] \in PositionEntry
    <3>1. Absent \in PositionEntry
      BY ZeroSlot DEF Absent, PositionEntry
    <3>2. ASSUME NEW i \in Ids PROVE [pos |-> ShiftPos(i, now), item |-> i] \in PositionEntry
      BY <1>3 DEF PositionEntry
    <3>3. timers[k] \in PositionEntry
      BY DEF Good, Typed
    <3> QED
      BY <1>7, <3>1, <3>2, <3>3
  <2>3. timers' \in [Keys -> PositionEntry]
    BY <2>2 DEF Tick
  <2> QED
    BY <2>1, <2>3 DEF Typed
<1>9. HeldIsLive(entries', timers')
  <2> SUFFICES ASSUME NEW k \in Keys, timers'[k].item # NoItem
               PROVE  /\ entries'[timers'[k].item] \in Entry
                      /\ entries'[timers'[k].item].key = k
                      /\ entries'[timers'[k].item].status = "live"
    BY DEF HeldIsLive
  <2>1. ~\E i \in Ids : Expires(i, now) /\ entries[i].key = k
    BY <1>7 DEF Absent
  <2>2. CASE \E i \in Ids : Shifts(i, now) /\ entries[i].key = k
    <3>1. PICK i \in Ids : Shifts(i, now) /\ entries[i].key = k
      BY <2>2
    <3>2. timers'[k].item = i
      <4>1. timers'[k] = [pos |-> ShiftPos(i, now), item |-> i]
        BY <1>7, <3>1
      <4> QED
        BY <4>1
    <3>3. entries[i] \in Entry /\ entries[i].status = "live" /\ ~Unlinks(i, now)
      BY <1>2, <2>1, <3>1 DEF Shifts, Unlinks
    <3> QED
      BY <1>4, <3>1, <3>2, <3>3
  <2>3. CASE ~\E i \in Ids : Shifts(i, now) /\ entries[i].key = k
    <3> DEFINE h == timers[k].item
    <3>1. timers'[k] = timers[k]
      BY <1>7, <2>1, <2>3
    <3>2. /\ h \in Ids /\ entries[h] \in Entry
          /\ entries[h].key = k /\ entries[h].status = "live"
      BY <3>1, NoItemAssumption DEF Good, Typed, HeldIsLive, PositionEntry
    <3>3. ~Unlinks(h, now)
      BY <2>1, <3>2 DEF Unlinks
    <3> QED
      BY <1>4, <3>1, <3>2, <3>3
  <2> QED
    BY <2>2, <2>3
<1>10. LiveIsHeld(entries', timers')
  <2> SUFFICES ASSUME NEW i \in Ids, entries'[i].slot # Unlinked, entries'[i].status = "live"
               PROVE  timers'[entries'[i].key] = [pos |-> entries'[i].slot, item |-> i]
    BY DEF LiveIsHeld
  <2>1. ~Unlinks(i, now)
    <3>1. ASSUME Unlinks(i, now) PROVE entries'[i].slot = Unlinked
      <4>1. entries[i] \in Entry /\ entries'[i] = [entries[i] EXCEPT !.slot = Unlinked]
        BY <1>1, <1>2, <3>1 DEF Unlinks, Expires
      <4> QED
        BY <4>1 DEF Entry
    <3> QED
      BY <3>1
  <2>2. entries[i] \in Entry
    <3>1. CASE entries[i].slot = now
      BY <1>2, <3>1
    <3>2. CASE entries[i].slot # now
      BY <1>1, <3>2, LinkedIsEntry DEF Good
    <3> QED
      BY <3>1, <3>2
  <2> DEFINE k == entries[i].key
  <2>3. /\ k \in Keys /\ entries'[i].key = k /\ entries[i].status = "live"
        /\ entries'[i].slot = IF Shifts(i, now) THEN ShiftPos(i, now) ELSE entries[i].slot
    BY <1>4, <2>1, <2>2 DEF Entry
  <2>4. CASE Shifts(i, now)
    BY <1>7, <2>3, <2>4
  <2>5. CASE ~Shifts(i, now)
    <3>1. Live(i)
      BY <2>3, <2>5 DEF Live, Linked
    <3>2. timers[k] = [pos |-> entries[i].slot, item |-> i]
      BY <3>1 DEF Live, Linked, Good, LiveIsHeld
    <3>3. ASSUME NEW j \in Ids, entries[j].key = k
          PROVE  ~Expires(j, now) /\ ~Shifts(j, now)
      <4>1. Live(j) => i = j
        BY <1>5, <3>1, <3>3
      <4> QED
        BY <1>6, <2>1, <2>5, <4>1 DEF Unlinks, Expires
    <3>4. timers'[k] = timers[k]
      BY <1>7, <2>3, <3>3
    <3> QED
      BY <2>3, <2>5, <3>2, <3>4
  <2> QED
    BY <2>4, <2>5
<1> QED
  BY <1>4, <1>8, <1>9, <1>10 DEF Good, ShortDiffs

LEMMA DrainKeeps ==
  ASSUME Inv, Drain
  PROVE  Good(entries', timers')
<1> USE DEF Inv
<1>1. ASSUME NEW k \in Keys, timers[k].item # NoItem
      PROVE  /\ entries[timers[k].item] \in Entry
             /\ timers[k].item \in Ids
             /\ entries'[timers[k].item] = [entries[timers[k].item] EXCEPT !.slot = Unlinked]
  BY <1>1, NoItemAssumption DEF Drain, Good, Typed, HeldIsLive, PositionEntry
<1>2. timers' = timers
  BY DEF Drain
<1>3. \A i \in Ids : entries'[i] = [entries[i] EXCEPT !.slot = Unlinked]
  BY DEF Drain
<1>4. ASSUME NEW i \in Ids
      PROVE  /\ entries'[i] \in Entry \cup {Blank}
             /\ entries'[i].slot = Unlinked
             /\ entries'[i].diff \in Slots
  <2>1. entries[i] \in Entry \cup {Blank} /\ entries[i].diff \in Slots
    BY DEF Good, Typed, ShortDiffs
  <2>2. CASE entries[i] \in Entry
    BY <1>3, <2>1, <2>2 DEF Entry
  <2>3. CASE entries[i] = Blank
    <3>1. entries'[i] = Blank
      BY <1>3, <2>3 DEF Blank
    <3> QED
      BY <3>1, ZeroSlot DEF Blank
  <2> QED
    BY <2>1, <2>2, <2>3
<1>5. Typed(entries', timers')
  BY <1>2, <1>4 DEF Drain, Good, Typed
<1>6. HeldIsLive(entries', timers')
  <2> SUFFICES ASSUME NEW k \in Keys, timers[k].item # NoItem
               PROVE  /\ entries'[timers[k].item] \in Entry
                      /\ entries'[timers[k].item].key = k
                      /\ entries'[timers[k].item].status = "live"
    BY <1>2 DEF HeldIsLive
  <2>1. entries[timers[k].item].key = k /\ entries[timers[k].item].status = "live"
    BY DEF Good, HeldIsLive
  <2> QED
    BY <1>1, <2>1 DEF Entry
<1>7. LiveIsHeld(entries', timers') /\ ShortDiffs(entries')
  BY <1>4 DEF LiveIsHeld, ShortDiffs
<1> QED
  BY <1>5, <1>6, <1>7 DEF Good

-----------------------------------------------------------------------------
(***************************************************************************)
(* The callbacks that wait.  A step leaves key and value of every entry    *)
(* that anything refers to alone, but for the value SetTimer writes; when  *)
(* an entry is replaced, the new one has its key and value.                *)
(***************************************************************************)
\* Entry j has after the step what entry i had before it, or the value that
\* the request served has set for their key.
Kept(i, j) ==
    /\ entries'[j].key = entries[i].key
    /\ \/ entries'[j].value = entries[i].value
       \/ \E d \in SetDelays : call' = <<"set", entries[i].key, entries'[j].value, d>>

\* After the step the map holds r.
HeldNext(r) == timers'[r].item # NoItem

\* A callback goes on waiting for what it refers to, or for the entry of a
\* key that left the map.
Follows(g) ==
    \/ late'[g] = late[g] /\ (late[g] \in Keys => HeldNext(late[g]))
    \/ late[g] \in Keys /\ late'[g] = timers[late[g]].item

\* A callback that starts to wait refers to a key of the map or to an entry in
\* a list.
Starts(g) ==
    \/ late'[g] \in Keys /\ Held(late'[g]) /\ HeldNext(late'[g])
    \/ late'[g] \in Ids /\ ~Free(late'[g]) /\ entries[late'[g]].key \in Keys

RefsKept ==
    /\ \A i \in Ids : ~Free(i) => Kept(i, i)
    /\ \A k \in Keys : Held(k) /\ Held(k)' => Kept(timers[k].item, timers'[k].item)
    /\ \A g \in Callbacks : Waiting(g) /\ Waiting(g)' => Follows(g)
    /\ \A g \in Callbacks : ~Waiting(g) /\ Waiting(g)' => Starts(g)

\* The entry of a held key.
LEMMA HeldItem ==
  ASSUME Inv, NEW k \in Keys, Held(k)
  PROVE  /\ timers[k].item \in Ids /\ ~Free(timers[k].item)
         /\ entries[timers[k].item] \in Entry /\ entries[timers[k].item].key = k
BY NoItemAssumption DEF Inv, Good, Typed, HeldIsLive, PositionEntry, Held, Free

\* What the callbacks wait for when nothing happens to them.
LEMMA LateKept ==
  ASSUME Inv, UNCHANGED late, \A k \in Keys : Held(k) => Held(k)'
  PROVE  \A g \in Callbacks : Waiting(g) => Waiting(g)' /\ Follows(g)
BY DEF Inv, LateRefers, Follows, Waiting, Held, HeldNext

LEMMA RelocateRefs ==
  ASSUME Inv, NEW k \in Keys, Held(k), NEW d \in Nat, d >= 1, NEW es,
         es \in [Ids -> Entry \cup {Blank}], es[timers[k].item] \in Entry,
         Relocate(es, k, d)
  PROVE  /\ \A i \in Ids : ~Free(i) =>
              entries'[i].key = es[i].key /\ entries'[i].value = es[i].value
         /\ \A j \in Keys \ {k} : timers'[j] = timers[j]
         /\ timers'[k].item \in Ids
         /\ timers'[k].item = timers[k].item \/
              /\ entries'[timers'[k].item].key = k
              /\ entries'[timers'[k].item].value = es[timers[k].item].value
<1> DEFINE h == timers[k].item
<1>1. h \in Ids /\ ~Free(h) /\ timers \in [Keys -> PositionEntry]
  BY HeldItem DEF Inv, TypeOK
<1>2. CASE \E c, x : entries' = [es EXCEPT ![h].circle = c, ![h].diff = x] /\ UNCHANGED timers
  <2>1. PICK c, x : entries' = [es EXCEPT ![h].circle = c, ![h].diff = x]
    BY <1>2
  <2> DEFINE e == [es[h] EXCEPT !.circle = c, !.diff = x]
  <2>2. e.key = es[h].key /\ e.value = es[h].value
    BY DEF Entry
  <2>3. entries' = [es EXCEPT ![h] = e]
    BY <1>1, <2>1
  <2> HIDE DEF e
  <2> QED
    BY <1>1, <1>2, <2>2, <2>3
<1>3. CASE Insert([es EXCEPT ![h] = MarkRemoved(@)], k, es[h].value, Pos(d), 0)
  <2> DEFINE e == MarkRemoved(es[h])
             new == [key |-> k, value |-> es[h].value, slot |-> Pos(d), circle |-> 0,
                     diff |-> 0, status |-> "live"]
             mid == [es EXCEPT ![h] = e]
  <2>1. PICK i \in Ids : /\ Free(i)
                         /\ entries' = [mid EXCEPT ![i] = new]
                         /\ timers' = [timers EXCEPT ![k] = [pos |-> Pos(d), item |-> i]]
    BY <1>3 DEF Insert
  <2>2. e.key = es[h].key /\ e.value = es[h].value
    BY DEF MarkRemoved, Entry
  <2>3. new.key = k /\ new.value = es[h].value
    OBVIOUS
  <2>4. timers'[k].item = i /\ \A j \in Keys \ {k} : timers'[j] = timers[j]
    BY <1>1, <2>1
  <2> HIDE DEF e, new
  <2>5. entries'[i] = new /\ \A j \in Ids \ {i} : entries'[j] = IF j = h THEN e ELSE es[j]
    BY <1>1, <2>1
  <2>6. i # h
    BY <1>1, <2>1
  <2> QED
    BY <2>1, <2>2, <2>3, <2>4, <2>5, <2>6
<1> QED
  BY <1>2, <1>3 DEF Relocate

LEMMA SetTimerRefs ==
  ASSUME Inv, NEW k \in Keys, NEW v \in Values, NEW d \in SetDelays, SetTimer(k, v, d)
  PROVE  RefsKept
<1> DEFINE delay == IF d < 1 THEN 1 ELSE d
           h == timers[k].item
<1>1. delay \in Nat /\ delay >= 1
  BY DelayAssumption
<1>2. call' = <<"set", k, v, d>> /\ UNCHANGED late
  BY DEF SetTimer
<1>3. entries \in [Ids -> Entry \cup {Blank}] /\ timers \in [Keys -> PositionEntry]
  BY DEF Inv, TypeOK
<1>4. CASE Held(k)
  <2> DEFINE new == [entries[h] EXCEPT !.value = v]
             es == [entries EXCEPT ![h] = new]
  <2>1. h \in Ids /\ entries[h] \in Entry /\ entries[h].key = k /\ ~Free(h)
    BY <1>4, HeldItem
  <2>2. new \in Entry /\ new.value = v /\ new.key = k
    BY <2>1 DEF Entry
  <2>3. Relocate([entries EXCEPT ![h].value = v], k, delay)
    BY <1>4 DEF SetTimer
  <2>4. [entries EXCEPT ![h].value = v] = es
    BY <1>3, <2>1
  <2> HIDE DEF new, delay
  <2>5. /\ es \in [Ids -> Entry \cup {Blank}] /\ es[h] = new
        /\ \A i \in Ids \ {h} : es[i] = entries[i]
    BY <1>3, <2>1, <2>2
  <2> HIDE DEF es
  <2>6. /\ \A i \in Ids : ~Free(i) =>
              entries'[i].key = es[i].key /\ entries'[i].value = es[i].value
        /\ \A j \in Keys \ {k} : timers'[j] = timers[j]
        /\ timers'[k].item \in Ids
        /\ timers'[k].item = h \/
             /\ entries'[timers'[k].item].key = k
             /\ entries'[timers'[k].item].value = v
    <3>1. es \in [Ids -> Entry \cup {Blank}]
      BY <2>5
    <3>2. es[timers[k].item] \in Entry /\ es[timers[k].item].value = v
      BY <2>2, <2>5
    <3>3. Relocate(es, k, delay)
      BY <2>3, <2>4
    <3>4. delay \in Nat /\ delay >= 1
      BY <1>1
    <3>5. /\ \A i \in Ids : ~Free(i) =>
               entries'[i].key = es[i].key /\ entries'[i].value = es[i].value
          /\ \A j \in Keys \ {k} : timers'[j] = timers[j]
          /\ timers'[k].item \in Ids
          /\ timers'[k].item = timers[k].item \/
               /\ entries'[timers'[k].item].key = k
               /\ entries'[timers'[k].item].value = es[timers[k].item].value
      BY <1>4, <3>1, <3>2, <3>3, <3>4, RelocateRefs, Zenon
    <3> QED
      BY <3>2, <3>5
  <2>7. \A i \in Ids : ~Free(i) => Kept(i, i)
    BY <1>2, <2>1, <2>2, <2>5, <2>6 DEF Kept
  <2>8. Kept(h, timers'[k].item)
    BY <1>2, <2>1, <2>6, <2>7 DEF Kept
  <2>9. \A j \in Keys \ {k} : Held(j) => Kept(timers[j].item, timers'[j].item)
    BY <2>6, <2>7, HeldItem
  <2>10. \A j \in Keys : Held(j) => Held(j)'
    BY <2>6, NoItemAssumption DEF Held
  <2>11. \A g \in Callbacks : Waiting(g) => Follows(g)
    BY <1>2, <2>10, LateKept
  <2> QED
    BY <1>2, <2>7, <2>8, <2>9, <2>11 DEF RefsKept, Waiting
<1>5. CASE ~Held(k)
  <2> DEFINE new == [key |-> k, value |-> v, slot |-> Pos(delay), circle |-> Circle(delay),
                     diff |-> 0, status |-> "live"]
  <2>1. PICK i \in Ids : /\ Free(i)
                         /\ entries' = [entries EXCEPT ![i] = new]
                         /\ timers' = [timers EXCEPT ![k] = [pos |-> Pos(delay), item |-> i]]
    BY <1>5 DEF SetTimer, Insert
  <2> HIDE DEF new
  <2>2. \A j \in Ids : ~Free(j) => Kept(j, j)
    BY <1>3, <2>1 DEF Kept
  <2>3. \A j \in Keys \ {k} : timers'[j] = timers[j]
    BY <1>3, <2>1
  <2>4. \A j \in Keys : Held(j) => Held(j)' /\ Kept(timers[j].item, timers'[j].item)
    BY <1>5, <2>2, <2>3, HeldItem DEF Held
  <2>5. \A g \in Callbacks : Waiting(g) => Follows(g)
    BY <1>2, <2>4, LateKept
  <2> QED
    BY <1>2, <2>2, <2>4, <2>5 DEF RefsKept, Waiting
<1> QED
  BY <1>4, <1>5

\* A step that changes neither entries nor map.
LEMMA QuietRefs ==
  ASSUME Inv, UNCHANGED <<entries, timers>>,
         \A g \in Callbacks : Waiting(g) /\ Waiting(g)' => late'[g] = late[g],
         \A g \in Callbacks : ~Waiting(g) /\ Waiting(g)' => late'[g] \in Keys /\ Held(late'[g])
  PROVE  RefsKept
<1>1. \A i : Kept(i, i)
  BY DEF Kept
<1>2. \A k \in Keys : Held(k)' = Held(k)
  BY DEF Held
<1>3. \A g \in Callbacks : Waiting(g) /\ Waiting(g)' => Follows(g)
  BY DEF Follows, Inv, LateRefers, Held, HeldNext
<1>4. \A g \in Callbacks : ~Waiting(g) /\ Waiting(g)' => Starts(g)
  BY DEF Starts, Held, HeldNext
<1> QED
  BY <1>1, <1>3, <1>4 DEF RefsKept

LEMMA MoveTimerRefs ==
  ASSUME Inv, NEW k \in Keys, NEW d \in MoveDelays, MoveTimer(k, d)
  PROVE  RefsKept
<1>1. CASE UNCHANGED <<entries, timers, late>>
  BY <1>1, QuietRefs DEF Waiting
<1>2. CASE /\ Held(k)
           /\ \E g \in Callbacks : ~Waiting(g) /\ late' = [late EXCEPT ![g] = k]
           /\ UNCHANGED <<entries, timers>>
  <2>1. PICK g \in Callbacks : ~Waiting(g) /\ late' = [late EXCEPT ![g] = k]
    BY <1>2
  <2>2. late \in [Callbacks -> Keys \cup Ids \cup {NoItem}]
    BY DEF Inv, TypeOK
  <2>3. late'[g] = k /\ \A c \in Callbacks \ {g} : late'[c] = late[c]
    BY <2>1, <2>2
  <2> QED
    BY <1>2, <2>1, <2>3, QuietRefs DEF Waiting
<1>3. CASE Held(k) /\ d >= 1 /\ Relocate(entries, k, d) /\ UNCHANGED late
  <2> DEFINE h == timers[k].item
  <2>1. h \in Ids /\ entries[h] \in Entry /\ entries[h].key = k /\ ~Free(h)
    BY <1>3, HeldItem
  <2>2. entries \in [Ids -> Entry \cup {Blank}] /\ d \in Nat
    BY DelayAssumption DEF Inv, TypeOK
  <2>3. /\ \A i \in Ids : ~Free(i) =>
              entries'[i].key = entries[i].key /\ entries'[i].value = entries[i].value
        /\ \A j \in Keys \ {k} : timers'[j] = timers[j]
        /\ timers'[k].item \in Ids
        /\ timers'[k].item = h \/
             /\ entries'[timers'[k].item].key = k
             /\ entries'[timers'[k].item].value = entries[h].value
    BY <1>3, <2>1, <2>2, RelocateRefs
  <2>4. \A i \in Ids : ~Free(i) => Kept(i, i)
    BY <2>3 DEF Kept
  <2>5. Kept(h, timers'[k].item)
    BY <2>1, <2>3, <2>4 DEF Kept
  <2>6. \A j \in Keys \ {k} : Held(j) => Kept(timers[j].item, timers'[j].item)
    BY <2>3, <2>4, HeldItem
  <2>7. \A j \in Keys : Held(j) => Held(j)'
    BY <2>3, NoItemAssumption DEF Held
  <2>8. \A g \in Callbacks : Waiting(g) => Follows(g)
    BY <1>3, <2>7, LateKept
  <2> QED
    BY <1>3, <2>4, <2>5, <2>6, <2>8 DEF RefsKept, Waiting
<1> QED
  BY <1>1, <1>2, <1>3 DEF MoveTimer

\* The callbacks when keys leave the map.
LEMMA LateWithoutIs ==
  ASSUME Inv, NEW ks, ks \subseteq Keys, late' = LateWithout(ks),
         \A k \in Keys \ ks : Held(k) => Held(k)'
  PROVE  /\ late' \in [Callbacks -> Keys \cup Ids \cup {NoItem}]
         /\ \A g \in Callbacks : Waiting(g) => Follows(g)
         /\ \A g \in Callbacks : ~Waiting(g) => ~Waiting(g)'
<1>1. late \in [Callbacks -> Keys \cup Ids \cup {NoItem}] /\ timers \in [Keys -> PositionEntry]
  BY DEF Inv, TypeOK
<1>2. \A g \in Callbacks : late'[g] = IF late[g] \in ks THEN timers[late[g]].item ELSE late[g]
  BY DEF LateWithout
<1>3. late' \in [Callbacks -> Keys \cup Ids \cup {NoItem}]
  BY <1>1 DEF LateWithout, PositionEntry
<1>4. \A g \in Callbacks : ~Waiting(g) => ~Waiting(g)'
  BY <1>2, ReferenceAssumption DEF Waiting
<1>5. \A g \in Callbacks : Waiting(g) => Follows(g)
  BY <1>2 DEF Follows, Inv, LateRefers, Held, HeldNext
<1> QED
  BY <1>3, <1>4, <1>5

LEMMA RemoveTimerRefs ==
  ASSUME Inv, NEW k \in Keys, RemoveTimer(k)
  PROVE  RefsKept
<1>1. CASE ~Held(k)
  <2>1. UNCHANGED <<entries, timers, late>>
    BY <1>1 DEF RemoveTimer
  <2> QED
    BY <2>1, QuietRefs DEF Waiting
<1>2. CASE Held(k)
  <2> DEFINE h == timers[k].item
             e == MarkRemoved(entries[h])
  <2>1. h \in Ids /\ entries[h] \in Entry
    BY <1>2, HeldItem
  <2>2. e.key = entries[h].key /\ e.value = entries[h].value
    BY <2>1 DEF MarkRemoved, Entry
  <2>3. /\ entries' = [entries EXCEPT ![h] = e] /\ timers' = [timers EXCEPT ![k] = Absent]
        /\ late' = LateWithout({k})
    BY <1>2 DEF RemoveTimer
  <2> HIDE DEF e
  <2>4. entries \in [Ids -> Entry \cup {Blank}] /\ timers \in [Keys -> PositionEntry]
    BY DEF Inv, TypeOK
  <2>5. \A i \in Ids : Kept(i, i)
    BY <2>1, <2>2, <2>3, <2>4 DEF Kept
  <2>6. ~Held(k)' /\ \A j \in Keys \ {k} : timers'[j] = timers[j] /\ Held(j)' = Held(j)
    BY <2>3, <2>4 DEF Held, Absent
  <2>7. \A j \in Keys : Held(j) /\ Held(j)' => Kept(timers[j].item, timers'[j].item)
    BY <2>5, <2>6, HeldItem
  <2>8. /\ \A g \in Callbacks : Waiting(g) => Follows(g)
        /\ \A g \in Callbacks : ~Waiting(g) => ~Waiting(g)'
    BY <2>3, <2>6, LateWithoutIs
  <2> QED
    BY <2>5, <2>7, <2>8 DEF RefsKept
<1> QED
  BY <1>1, <1>2

\* The keys that expire in the next tick.
Expired == {k \in Keys : \E i \in Ids : Expires(i, Now) /\ entries[i].key = k}

LEMMA TickRefs ==
  ASSUME Inv, Tick
  PROVE  RefsKept
<1>1. ASSUME NEW i \in Ids PROVE Kept(i, i)
  <2>1. CASE entries[i].slot = Now
    <3>1. entries[i] \in Entry
      BY <2>1, ScannedIsEntry
    <3>2. \/ entries'[i] = [entries[i] EXCEPT !.slot = Unlinked]
          \/ entries'[i] = [entries[i] EXCEPT !.slot = ShiftPos(i, Now), !.diff = 0]
          \/ entries'[i] = [entries[i] EXCEPT !.circle = @ - 1]
      BY <2>1, TickEntries
    <3> QED
      BY <3>1, <3>2 DEF Kept, Entry
  <2>2. CASE entries[i].slot # Now
    BY <2>2, TickEntries DEF Kept
  <2> QED
    BY <2>1, <2>2
<1>2. ASSUME NEW k \in Keys \ Expired, Held(k)
      PROVE  Held(k)' /\ timers'[k].item = timers[k].item
  <2>1. CASE \E i \in Ids : Shifts(i, Now) /\ entries[i].key = k
    <3>1. PICK i \in Ids : Shifts(i, Now) /\ entries[i].key = k
      BY <2>1
    <3>2. timers'[k] = [pos |-> ShiftPos(i, Now), item |-> i]
      BY <3>1, TickTimers
    <3>3. Live(i)
      BY <3>1, ScannedIsEntry
    <3>4. timers[k] = [pos |-> entries[i].slot, item |-> i]
      BY <3>1, <3>3 DEF Live, Linked, Inv, Good, LiveIsHeld
    <3>5. timers'[k].item = i /\ timers[k].item = i
      BY <3>2, <3>4
    <3> QED
      BY <3>5, NoItemAssumption DEF Held
  <2>2. CASE ~\E i \in Ids : Shifts(i, Now) /\ entries[i].key = k
    <3>1. timers'[k] = timers[k]
      BY <1>2, <2>2, TickTimers DEF Expired
    <3> QED
      BY <1>2, <3>1 DEF Held
  <2> QED
    BY <2>1, <2>2
<1>3. ASSUME NEW k \in Expired PROVE ~Held(k)'
  <2>1. timers'[k] = Absent
    BY <1>3, TickTimers DEF Expired
  <2> QED
    BY <2>1 DEF Held, Absent
<1>4. \A k \in Keys : Held(k) /\ Held(k)' => Kept(timers[k].item, timers'[k].item)
  BY <1>1, <1>2, <1>3, HeldItem
<1>5. late' = LateWithout(Expired) /\ Expired \subseteq Keys
  BY DEF Tick, Expired, Now
<1>6. /\ \A g \in Callbacks : Waiting(g) => Follows(g)
      /\ \A g \in Callbacks : ~Waiting(g) => ~Waiting(g)'
  BY <1>2, <1>5, LateWithoutIs
<1> QED
  BY <1>1, <1>4, <1>6 DEF RefsKept

LEMMA DrainRefs ==
  ASSUME Inv, Drain
  PROVE  RefsKept
<1>1. entries \in [Ids -> Entry \cup {Blank}] /\ timers' = timers
  BY DEF Inv, TypeOK, Drain
<1>2. ASSUME NEW i \in Ids PROVE Kept(i, i)
  <2>1. entries'[i] = [entries[i] EXCEPT !.slot = Unlinked]
    BY DEF Drain
  <2>2. entries[i] \in Entry \/ entries[i] = Blank
    BY <1>1
  <2> QED
    BY <2>1, <2>2 DEF Kept, Entry, Blank
<1>3. \A k \in Keys : Held(k)' = Held(k)
  BY <1>1 DEF Held
<1>4. \A k \in Keys : Held(k) => Kept(timers[k].item, timers'[k].item)
  BY <1>1, <1>2, HeldItem
<1>5. DrainAssign(late')
  BY DEF Drain
<1>6. \A g \in Callbacks : Waiting(g) => Follows(g)
  BY <1>1, <1>5 DEF DrainAssign, Follows, Inv, LateRefers, Held, HeldNext
<1>7. ASSUME NEW g \in Callbacks, ~Waiting(g), Waiting(g)' PROVE Starts(g)
  <2>1. late'[g] \in Ids /\ Live(late'[g])
    BY <1>5, <1>7 DEF DrainAssign, Waiting
  <2>2. ~Free(late'[g]) /\ entries[late'[g]].key \in Keys
    BY <2>1, LinkedIsEntry DEF Live, Free, Linked, Inv, Good
  <2> QED
    BY <2>1, <2>2 DEF Starts
<1> QED
  BY <1>2, <1>4, <1>6, <1>7 DEF RefsKept

\* Every step keeps what is referred to.
LEMMA NextRefs ==
  ASSUME Inv, [Next]_vars
  PROVE  RefsKept
<1>1. ASSUME NEW g \in Callbacks, RunLate(g) PROVE RefsKept
  <2>1. \A c \in Callbacks : late'[c] = NoItem \/ late'[c] = late[c]
    BY <1>1 DEF RunLate, Inv, TypeOK
  <2> QED
    BY <1>1, <2>1, QuietRefs DEF RunLate, Waiting
<1>2. CASE Stop \/ UNCHANGED vars
  BY <1>2, QuietRefs DEF Stop, vars, Waiting
<1> QED
  BY <1>1, <1>2, SetTimerRefs, MoveTimerRefs, RemoveTimerRefs, TickRefs, DrainRefs DEF Next

\* The entry a waiting callback reads is one that something refers to.
LEMMA ItemIs ==
  ASSUME Inv, NEW g \in Callbacks, Waiting(g)
  PROVE  Item(g) \in Ids /\ ~Free(Item(g)) /\ entries[Item(g)].key \in Keys
<1>1. late[g] \in Keys \cup Ids
  BY DEF Inv, TypeOK, Waiting
<1>2. CASE late[g] \in Keys
  BY <1>2, HeldItem DEF Inv, LateRefers, Item
<1>3. CASE late[g] \in Ids
  BY <1>3, ReferenceAssumption DEF Inv, LateRefers, Item, Free
<1> QED
  BY <1>1, <1>2, <1>3

\* What a callback reads after a step is what it would have read before, or the
\* value just set.
LEMMA ItemKept ==
  ASSUME Inv, RefsKept, NEW g \in Callbacks, Waiting(g), Waiting(g)'
  PROVE  Kept(Item(g), Item(g)')
<1> DEFINE r == late[g]
<1>1. Follows(g) /\ Item(g) \in Ids /\ ~Free(Item(g))
  BY ItemIs DEF RefsKept
<1>2. CASE r \in Keys /\ late'[g] = r /\ HeldNext(r)
  <2>1. Item(g) = timers[r].item /\ Item(g)' = timers'[r].item /\ Held(r)
    BY <1>2 DEF Item, Inv, LateRefers
  <2>2. Held(r)'
    BY <1>2 DEF Held, HeldNext
  <2> QED
    BY <1>2, <2>1, <2>2 DEF RefsKept
<1>3. CASE r \in Keys /\ late'[g] = timers[r].item
  <2>1. timers[r].item \in Ids /\ timers[r].item \notin Keys
    BY <1>3, HeldItem, ReferenceAssumption DEF Inv, LateRefers
  <2>2. Item(g) = timers[r].item /\ Item(g)' = timers[r].item
    BY <1>3, <2>1 DEF Item
  <2> QED
    BY <1>1, <2>2 DEF RefsKept
<1>4. CASE r \notin Keys /\ late'[g] = r
  <2>1. Item(g) = r /\ Item(g)' = r
    BY <1>4 DEF Item
  <2> QED
    BY <1>1, <2>1 DEF RefsKept
<1> QED
  BY <1>1, <1>2, <1>3, <1>4 DEF Follows

\* The references stay good.
LEMMA LateRefersKept ==
  ASSUME Inv, RefsKept, late' \in [Callbacks -> Keys \cup Ids \cup {NoItem}]
  PROVE  LateRefers'
<1> SUFFICES ASSUME NEW g \in Callbacks
             PROVE  /\ late'[g] \in Keys => HeldNext(late'[g])
                    /\ late'[g] \in Ids => entries'[late'[g]].key \in Keys
  BY DEF LateRefers, Held, HeldNext
<1>1. CASE ~Waiting(g)'
  BY <1>1, NoItemAssumption, ReferenceAssumption DEF Waiting
<1>2. CASE Waiting(g)' /\ ~Waiting(g)
  <2>1. Starts(g)
    BY <1>2 DEF RefsKept
  <2>2. CASE late'[g] \in Keys /\ HeldNext(late'[g])
    BY <2>2, ReferenceAssumption
  <2>3. CASE late'[g] \in Ids /\ ~Free(late'[g]) /\ entries[late'[g]].key \in Keys
    BY <2>3, ReferenceAssumption DEF RefsKept, Kept
  <2> QED
    BY <2>1, <2>2, <2>3 DEF Starts
<1>3. CASE Waiting(g)' /\ Waiting(g)
  <2>1. Follows(g) /\ Kept(Item(g), Item(g)')
    BY <1>3, ItemKept DEF RefsKept
  <2>2. entries'[Item(g)'].key \in Keys
    BY <1>3, <2>1, ItemIs DEF Kept
  <2>3. late'[g] \in Ids => Item(g)' = late'[g]
    BY ReferenceAssumption DEF Item
  <2>4. late'[g] \in Keys => HeldNext(late'[g])
    <3>1. CASE late'[g] = late[g] /\ (late[g] \in Keys => HeldNext(late[g]))
      BY <3>1
    <3>2. CASE late[g] \in Keys /\ late'[g] = timers[late[g]].item
      BY <3>2, HeldItem, ReferenceAssumption DEF Inv, LateRefers
    <3> QED
      BY <2>1, <3>1, <3>2 DEF Follows
  <2> QED
    BY <2>2, <2>3, <2>4
<1> QED
  BY <1>1, <1>2, <1>3

-----------------------------------------------------------------------------
LEMMA NextInv == Inv /\ [Next]_vars => Inv'
<1> SUFFICES ASSUME Inv, [Next]_vars PROVE Inv'
  OBVIOUS
<1>1. Good(entries', timers')
  <2>1. ASSUME NEW k \in Keys, NEW v \in Values, NEW d \in SetDelays, SetTimer(k, v, d)
        PROVE  Good(entries', timers')
    BY <2>1, SetTimerKeeps, DelayAssumption
  <2>2. ASSUME NEW k \in Keys, NEW d \in MoveDelays, MoveTimer(k, d)
        PROVE  Good(entries', timers')
    BY <2>2, MoveTimerKeeps, DelayAssumption
  <2>3. ASSUME NEW k \in Keys, RemoveTimer(k) PROVE Good(entries', timers')
    BY <2>3, RemoveTimerKeeps
  <2>4. CASE Stop \/ (\E g \in Callbacks : RunLate(g)) \/ UNCHANGED vars
    BY <2>4 DEF Stop, RunLate, vars, Inv
  <2> QED
    BY <2>1, <2>2, <2>3, <2>4, TickKeeps, DrainKeeps DEF Next
<1>2. tickedPos' \in Slots
  <2>1. tickedPos \in Slots /\ (tickedPos + 1) % NumSlots \in Slots
    <3>1. tickedPos \in Slots /\ tickedPos + 1 \in Int
      BY NumSlotsAssumption DEF Inv, TypeOK, Slots
    <3> QED
      BY <3>1, ModInSlots
  <2> QED
    BY <2>1 DEF Next, SetTimer, MoveTimer, RemoveTimer, Tick, Drain, Stop, RunLate, vars
<1>3. phase' \in {"running", "stopped"}
  BY DEF Inv, TypeOK, Next, SetTimer, MoveTimer, RemoveTimer, Tick, Drain, Stop, RunLate, vars
<1>4. late' \in [Callbacks -> Keys \cup Ids \cup {NoItem}]
  <2>1. late \in [Callbacks -> Keys \cup Ids \cup {NoItem}] /\ timers \in [Keys -> PositionEntry]
    BY DEF Inv, TypeOK
  <2>2. \A ks : LateWithout(ks \cap Keys) \in [Callbacks -> Keys \cup Ids \cup {NoItem}]
    BY <2>1 DEF LateWithout, PositionEntry
  <2>3. ASSUME NEW k \in Keys, NEW d, MoveTimer(k, d)
        PROVE  late' \in [Callbacks -> Keys \cup Ids \cup {NoItem}]
    BY <2>1, <2>3 DEF MoveTimer
  <2>4. ASSUME NEW k \in Keys, RemoveTimer(k)
        PROVE  late' \in [Callbacks -> Keys \cup Ids \cup {NoItem}]
    <3>1. late' = late \/ late' = LateWithout({k} \cap Keys)
      <4>1. {k} \cap Keys = {k}
        OBVIOUS
      <4> QED
        BY <2>4, <4>1 DEF RemoveTimer
    <3> QED
      BY <2>1, <2>2, <3>1
  <2>5. ASSUME Tick PROVE late' \in [Callbacks -> Keys \cup Ids \cup {NoItem}]
    <3>1. late' = LateWithout(Expired) /\ Expired \cap Keys = Expired
      BY <2>5 DEF Tick, Expired, Now
    <3> QED
      BY <2>2, <3>1
  <2>6. ASSUME NEW g \in Callbacks, RunLate(g)
        PROVE  late' \in [Callbacks -> Keys \cup Ids \cup {NoItem}]
    BY <2>1, <2>6 DEF RunLate
  <2>7. CASE UNCHANGED late
    BY <2>1, <2>7
  <2> QED
    BY <2>3, <2>4, <2>5, <2>6, <2>7 DEF Next, SetTimer, Drain, Stop, vars
<1>5. LateRefers'
  BY <1>4, NextRefs, LateRefersKept
<1> QED
  BY <1>1, <1>2, <1>3, <1>4, <1>5 DEF Inv, TypeOK, Good, Typed

LEMMA InvMeans == Inv => TypeOK /\ LiveIsCurrent /\ ShiftLeavesSlot
<1> SUFFICES ASSUME Inv PROVE LiveIsCurrent /\ ShiftLeavesSlot
  BY DEF Inv
<1>1. LiveIsCurrent
  BY DEF Inv, Good, LiveIsHeld, LiveIsCurrent, Live, Linked
<1>2. ShiftLeavesSlot
  <2> SUFFICES ASSUME NEW i \in Ids, Live(i), entries[i].diff > 0
               PROVE  (entries[i].slot + entries[i].diff) % NumSlots # entries[i].slot
    BY DEF ShiftLeavesSlot
  <2>1. entries[i].slot \in Slots
    BY LinkedIsEntry DEF Inv, Good, Live, Linked
  <2>2. entries[i].diff \in Slots
    BY DEF Inv, Good, ShortDiffs
  <2> QED
    BY <2>1, <2>2, ShiftMoves
<1> QED
  BY <1>1, <1>2

\* The wheel's position stays on the wheel, entries and map keep their types,
\* circle and diff never become negative.
THEOREM WheelTypes == Spec => []TypeOK
BY InitInv, NextInv, InvMeans, PTL DEF Spec

\* After any sequence of SetTimer, MoveTimer, RemoveTimer, Drain and ticks, a
\* live entry in a slot is the one the timers map has for its key, so a key is
\* never in the wheel twice and can always be moved and removed.
THEOREM WheelMapAgrees == Spec => []LiveIsCurrent
BY InitInv, NextInv, InvMeans, PTL DEF Spec

\* scanAndRunTasks never puts an entry into the list it walks, for any number
\* of slots and any delays ("cannot be the same value of tw.tickedPos").
THEOREM WheelShiftsAway == Spec => []ShiftLeavesSlot
BY InitInv, NextInv, InvMeans, PTL DEF Spec

-----------------------------------------------------------------------------
(***************************************************************************)
(* The refinement.  First, arithmetic: how far a slot is from the one last *)
(* ticked, and that a delay is its circles and the distance to its slot.   *)
(***************************************************************************)
\* Ticks from slot p until slot s is scanned.
Ahead(s, p) == IF s > p THEN s - p ELSE s - p + NumSlots

LEMMA AheadIs ==
  ASSUME NEW s \in Slots, NEW p \in Slots
  PROVE  /\ ((s - p - 1) % NumSlots) + 1 = Ahead(s, p)
         /\ Ahead(s, p) \in 1 .. NumSlots
<1>1. s \in Int /\ p \in Int /\ 0 <= s /\ s < NumSlots /\ 0 <= p /\ p < NumSlots
  BY NumSlotsAssumption DEF Slots
<1>2. CASE s > p
  <2>1. (s - p - 1) % NumSlots = s - p - 1
    BY <1>1, <1>2, NumSlotsAssumption
  <2> QED
    BY <1>1, <1>2, <2>1, NumSlotsAssumption DEF Ahead
<1>3. CASE s <= p
  <2>1. (s - p - 1) % NumSlots = s - p - 1 + NumSlots
    BY <1>1, <1>3, NumSlotsAssumption
  <2> QED
    BY <1>1, <1>3, <2>1, NumSlotsAssumption DEF Ahead
<1> QED
  BY <1>1, <1>2, <1>3

\* A product of the number of slots is zero or at least one revolution.
LEMMA Revolutions ==
  ASSUME NEW c \in Int
  PROVE  /\ c * NumSlots \in Int
         /\ c >= 1 => c * NumSlots >= NumSlots
         /\ c = 0 => c * NumSlots = 0
         /\ (c - 1) * NumSlots = c * NumSlots - NumSlots
BY NumSlotsAssumption

\* A delay is its circles and the distance to its slot.
LEMMA DelaySplit ==
  ASSUME NEW p \in Slots, NEW d \in Nat, d >= 1
  PROVE  d = ((d - 1) \div NumSlots) * NumSlots + Ahead((p + d) % NumSlots, p)
<1> DEFINE q == (d - 1) \div NumSlots
           r == (d - 1) % NumSlots
           a == p + d
           u == a \div NumSlots
           m == a % NumSlots
<1>1. q \in Int /\ r \in 0 .. NumSlots - 1 /\ d - 1 = NumSlots * q + r
  BY NumSlotsAssumption
<1>2. p \in Nat /\ p < NumSlots
  BY NumSlotsAssumption DEF Slots
<1>3. u \in Int /\ m \in 0 .. NumSlots - 1 /\ a = NumSlots * u + m
  BY <1>2, NumSlotsAssumption
<1> DEFINE x == u - q
<1>4. x \in Int /\ NumSlots * x = p + 1 + r - m
  BY <1>1, <1>2, <1>3, NumSlotsAssumption
<1> HIDE DEF q, r, u, m, x
<1>5. x \in {0, 1}
  <2>1. NumSlots * x > 0 - NumSlots /\ NumSlots * x < NumSlots + NumSlots
    BY <1>1, <1>2, <1>3, <1>4, NumSlotsAssumption
  <2>2. x >= 2 => NumSlots * x >= NumSlots + NumSlots
    BY <1>4, NumSlotsAssumption
  <2>3. x <= 0 - 1 => NumSlots * x <= 0 - NumSlots
    BY <1>4, NumSlotsAssumption
  <2> QED
    BY <1>4, <2>1, <2>2, <2>3, NumSlotsAssumption
<1>6. (x = 0 => m = p + 1 + r) /\ (x = 1 => m = p + 1 + r - NumSlots)
  BY <1>1, <1>2, <1>3, <1>4, NumSlotsAssumption
<1>7. Ahead(m, p) = r + 1
  BY <1>1, <1>2, <1>3, <1>5, <1>6, NumSlotsAssumption DEF Ahead
<1>8. d = q * NumSlots + (r + 1)
  BY <1>1, NumSlotsAssumption
<1> QED
  BY <1>7, <1>8 DEF q, m

\* The slot scanned next is the one at distance one, and every other slot
\* comes one tick nearer.
LEMMA NowAhead ==
  ASSUME NEW s \in Slots, tickedPos \in Slots
  PROVE  /\ s = Now <=> Ahead(s, tickedPos) = 1
         /\ s # Now => Ahead(s, Now) = Ahead(s, tickedPos) - 1
<1>1. s \in Nat /\ tickedPos \in Nat /\ s < NumSlots /\ tickedPos < NumSlots
  BY NumSlotsAssumption DEF Slots
<1>2. CASE tickedPos + 1 < NumSlots
  <2>1. Now = tickedPos + 1
    BY <1>1, <1>2, NumSlotsAssumption DEF Now
  <2> QED
    BY <1>1, <1>2, <2>1, NumSlotsAssumption DEF Ahead
<1>3. CASE tickedPos + 1 = NumSlots
  <2>1. Now = 0
    BY <1>1, <1>3, NumSlotsAssumption DEF Now
  <2> QED
    BY <1>1, <1>3, <2>1, NumSlotsAssumption DEF Ahead
<1> QED
  BY <1>1, <1>2, <1>3, NumSlotsAssumption

\* An entry shifted by n slots runs n ticks later.
LEMMA ShiftAhead ==
  ASSUME NEW from \in Slots, NEW n \in Slots, n > 0
  PROVE  (from + n) % NumSlots \in Slots /\ Ahead((from + n) % NumSlots, from) = n
<1>1. from \in Nat /\ n \in Nat /\ from < NumSlots /\ n < NumSlots
  BY NumSlotsAssumption DEF Slots
<1>2. CASE from + n < NumSlots
  <2>1. (from + n) % NumSlots = from + n
    BY <1>1, <1>2, NumSlotsAssumption
  <2> QED
    BY <1>1, <1>2, <2>1, NumSlotsAssumption DEF Ahead, Slots
<1>3. CASE from + n >= NumSlots
  <2>1. (from + n) % NumSlots = from + n - NumSlots
    BY <1>1, <1>3, NumSlotsAssumption
  <2> QED
    BY <1>1, <1>3, <2>1, NumSlotsAssumption DEF Ahead, Slots
<1> QED
  BY <1>1, <1>2, <1>3, NumSlotsAssumption

-----------------------------------------------------------------------------
\* A held key has an entry of its own, and a pending one is live in the slot
\* that the map names.
LEMMA HeldEntry ==
  ASSUME Inv, NEW k \in Keys, Held(k)
  PROVE  /\ timers[k].item \in Ids
         /\ entries[timers[k].item] \in Entry
         /\ entries[timers[k].item].key = k
         /\ entries[timers[k].item].status = "live"
         /\ timers[k].pos \in Slots
         /\ Pending(k) => entries[timers[k].item].slot = timers[k].pos
<1> DEFINE i == timers[k].item
<1>1. /\ i \in Ids /\ entries[i] \in Entry /\ entries[i].key = k
      /\ entries[i].status = "live" /\ timers[k].pos \in Slots
  BY NoItemAssumption DEF Inv, Good, Typed, HeldIsLive, PositionEntry, Held
<1>2. Pending(k) => timers[k] = [pos |-> entries[i].slot, item |-> i]
  BY <1>1 DEF Inv, Good, LiveIsHeld, Pending, Linked
<1> QED
  BY <1>1, <1>2

\* Two keys do not share an entry.
LEMMA OwnEntry ==
  ASSUME Inv, NEW k \in Keys, NEW j \in Keys, Held(k), Held(j), j # k
  PROVE  timers[k].item # timers[j].item
BY HeldEntry

\* When a pending key runs, from the slot of the map.
LEMMA DueIs ==
  ASSUME Inv, NEW k \in Keys
  PROVE  /\ Pending(k) => LET e == entries[timers[k].item] IN
              /\ Due(k) = Ahead(timers[k].pos, tickedPos) + e.circle * NumSlots + e.diff
              /\ e.circle \in Nat /\ e.diff \in Slots /\ e.value \in Values
              /\ Due(k) \in Nat /\ Due(k) >= 1
              /\ Val(k) = e.value
         /\ ~Pending(k) => Due(k) = 0 /\ Val(k) = NoValue
<1>1. CASE Pending(k)
  <2> DEFINE i == timers[k].item
             p == timers[k].pos
             c == entries[i].circle
             x == entries[i].diff
  <2>1. i \in Ids /\ entries[i] \in Entry /\ p \in Slots /\ entries[i].slot = p
    BY <1>1, HeldEntry DEF Pending
  <2>2. c \in Nat /\ x \in Slots /\ entries[i].value \in Values
    BY <2>1 DEF Entry, Inv, Good, ShortDiffs
  <2>3. tickedPos \in Slots
    BY DEF Inv, TypeOK
  <2>4. Due(k) = ((p - tickedPos - 1) % NumSlots) + 1 + c * NumSlots + x
    BY <1>1, <2>1 DEF Due, DueIn
  <2>5. Val(k) = entries[i].value
    BY <1>1 DEF Val
  <2> HIDE DEF i, p, c, x
  <2>6. Due(k) = Ahead(p, tickedPos) + c * NumSlots + x
    BY <2>1, <2>3, <2>4, AheadIs
  <2>7. c * NumSlots \in Int /\ c * NumSlots >= 0
    BY <2>2, Revolutions, NumSlotsAssumption
  <2>8. Ahead(p, tickedPos) \in 1 .. NumSlots
    BY <2>1, <2>3, AheadIs
  <2>9. Due(k) \in Nat /\ Due(k) >= 1
    BY <2>2, <2>6, <2>7, <2>8, NumSlotsAssumption DEF Slots
  <2> QED
    BY <1>1, <2>2, <2>5, <2>6, <2>9 DEF i, p, c, x
<1>2. CASE ~Pending(k)
  BY <1>2 DEF Due, Val
<1> QED
  BY <1>1, <1>2

\* What a step that leaves a key's position and entry alone leaves alone.
LEMMA KeyKept ==
  ASSUME tickedPos' = tickedPos, NEW j \in Keys, timers'[j] = timers[j],
         Held(j) => entries'[timers[j].item] = entries[timers[j].item]
  PROVE  Due(j)' = Due(j) /\ Val(j)' = Val(j) /\ Pending(j)' = Pending(j)
<1>1. Held(j)' = Held(j)
  BY DEF Held
<1>2. Pending(j)' = Pending(j)
  BY <1>1 DEF Pending, Held, Linked
<1>3. CASE Pending(j)
  BY <1>2, <1>3 DEF Due, Val, DueIn, Pending
<1>4. CASE ~Pending(j)
  BY <1>2, <1>4 DEF Due, Val
<1> QED
  BY <1>2, <1>3, <1>4

\* The maps of a step that changes one key.
LEMMA MapsOf ==
  ASSUME NEW k \in Keys, NEW x, NEW v, Due(k)' = x, Val(k)' = v,
         \A j \in Keys \ {k} : Due(j)' = Due(j) /\ Val(j)' = Val(j)
  PROVE  DueMap' = [DueMap EXCEPT ![k] = x] /\ ValMap' = [ValMap EXCEPT ![k] = v]
<1>1. DueMap' = [j \in Keys |-> Due(j)'] /\ ValMap' = [j \in Keys |-> Val(j)']
  BY DEF DueMap, ValMap
<1>2. DueMap = [j \in Keys |-> Due(j)] /\ ValMap = [j \in Keys |-> Val(j)]
  BY DEF DueMap, ValMap
<1>3. ASSUME NEW j \in Keys
      PROVE  /\ Due(j)' = [DueMap EXCEPT ![k] = x][j]
             /\ Val(j)' = [ValMap EXCEPT ![k] = v][j]
  BY <1>2
<1> QED
  BY <1>1, <1>2, <1>3

\* After a step, the entry i of a pending key runs when slot, circles and diff
\* say; stated of the new state.
LEMMA NewDue ==
  ASSUME NEW k \in Keys, NEW i \in Ids, NoItem \notin Ids, timers'[k].item = i,
         entries'[i].slot \in Slots, tickedPos' \in Slots
  PROVE  /\ Due(k)' = Ahead(entries'[i].slot, tickedPos')
                        + entries'[i].circle * NumSlots + entries'[i].diff
         /\ Val(k)' = entries'[i].value
<1>1. Pending(k)'
  BY ZeroSlot DEF Pending, Held, Linked
<1>2. Due(k)' = ((entries'[i].slot - tickedPos' - 1) % NumSlots) + 1
                  + entries'[i].circle * NumSlots + entries'[i].diff
  BY <1>1 DEF Due, DueIn
<1>3. ((entries'[i].slot - tickedPos' - 1) % NumSlots) + 1 = Ahead(entries'[i].slot, tickedPos')
  BY AheadIs
<1> QED
  BY <1>1, <1>2, <1>3 DEF Val

\* A new entry for k runs after the delay asked for; no other key notices.
LEMMA InsertDue ==
  ASSUME Inv, NEW k \in Keys, NEW d \in Nat, d >= 1, NEW v, NEW es,
         es \in [Ids -> Entry \cup {Blank}], tickedPos' = tickedPos,
         \A j \in Keys \ {k} : Held(j) => es[timers[j].item] = entries[timers[j].item],
         Insert(es, k, v, Pos(d), Circle(d))
  PROVE  /\ Due(k)' = d /\ Val(k)' = v
         /\ \A j \in Keys \ {k} : Due(j)' = Due(j) /\ Val(j)' = Val(j)
<1> DEFINE e == [key |-> k, value |-> v, slot |-> Pos(d), circle |-> Circle(d),
                 diff |-> 0, status |-> "live"]
<1>1. PICK i \in Ids : /\ Free(i)
                       /\ entries' = [es EXCEPT ![i] = e]
                       /\ timers' = [timers EXCEPT ![k] = [pos |-> Pos(d), item |-> i]]
  BY DEF Insert
<1>2. tickedPos \in Slots
  BY DEF Inv, TypeOK
<1>3. Pos(d) \in Slots
  <2>1. tickedPos + d \in Int
    BY <1>2, NumSlotsAssumption DEF Slots
  <2> QED
    BY <2>1, ModInSlots DEF Pos
<1>4. d = Circle(d) * NumSlots + Ahead(Pos(d), tickedPos)
  BY <1>2, DelaySplit DEF Circle, Pos
<1>5. timers \in [Keys -> PositionEntry]
  BY DEF Inv, TypeOK
<1>6. timers'[k].item = i /\ \A j \in Keys \ {k} : timers'[j] = timers[j]
  BY <1>1, <1>5
<1>7. entries'[i] = e /\ \A j \in Ids \ {i} : entries'[j] = es[j]
  BY <1>1
<1>8. e.slot = Pos(d) /\ e.circle = Circle(d) /\ e.diff = 0 /\ e.value = v
  OBVIOUS
<1> HIDE DEF e
<1>9. /\ Due(k)' = Ahead(Pos(d), tickedPos) + Circle(d) * NumSlots + 0
      /\ Val(k)' = v
  BY <1>2, <1>3, <1>6, <1>7, <1>8, NewDue, NoItemAssumption
<1>10. Ahead(Pos(d), tickedPos) \in Int /\ Circle(d) * NumSlots \in Int
  BY <1>2, <1>3, AheadIs, CircleNat, Revolutions
<1>11. Due(k)' = d
  BY <1>4, <1>9, <1>10
<1>12. ASSUME NEW j \in Keys \ {k} PROVE Due(j)' = Due(j) /\ Val(j)' = Val(j)
  <2>1. Held(j) => timers[j].item \in Ids /\ timers[j].item # i
    BY <1>1, HeldEntry DEF Free
  <2>2. Held(j) => entries'[timers[j].item] = entries[timers[j].item]
    BY <1>7, <2>1
  <2> QED
    BY <1>6, <2>2, KeyKept
<1> QED
  BY <1>9, <1>11, <1>12

\* A held key is moved: the new delay, or one revolution more or less when
\* slot numbers and distances disagree; a drained one only if its entry is
\* replaced.
LEMMA RelocateDue ==
  ASSUME Inv, NEW k \in Keys, Held(k), NEW d \in Nat, d >= 1, NEW v, NEW es,
         es \in [Ids -> Entry \cup {Blank}], tickedPos' = tickedPos,
         es[timers[k].item] \in Entry, es[timers[k].item].value = v,
         es[timers[k].item].slot = entries[timers[k].item].slot,
         \A i \in Ids \ {timers[k].item} : es[i] = entries[i],
         Relocate(es, k, d)
  PROVE  /\ \A j \in Keys \ {k} : Due(j)' = Due(j) /\ Val(j)' = Val(j)
         /\ Pending(k) =>
              /\ Val(k)' = v
              /\ \/ Due(k)' = d
                 \/ /\ (Pos(d) > tickedPos) # (timers[k].pos > tickedPos)
                    /\ Stays(k, d)
                    /\ Due(k)' = IF Pos(d) > tickedPos THEN d + NumSlots ELSE d - NumSlots
         /\ ~Pending(k) /\ Stays(k, d) => Due(k)' = Due(k) /\ Val(k)' = Val(k)
         /\ ~Stays(k, d) => Due(k)' = d /\ Val(k)' = v
<1> DEFINE t == timers[k]
           h == timers[k].item
           s == timers[k].pos
           pos == Pos(d)
           circle == Circle(d)
<1>1. /\ h \in Ids /\ s \in Slots
      /\ Pending(k) => es[h].slot = s
  BY HeldEntry
<1>2. tickedPos \in Slots
  BY DEF Inv, TypeOK
<1>3. pos \in Slots
  <2>1. tickedPos + d \in Int
    BY <1>2, NumSlotsAssumption DEF Slots
  <2> QED
    BY <2>1, ModInSlots DEF Pos
<1>4. d = circle * NumSlots + Ahead(pos, tickedPos)
  BY <1>2, DelaySplit DEF Circle, Pos
<1>5. circle \in Nat
  BY CircleNat
<1>6. ASSUME NEW j \in Keys \ {k}, Held(j)
      PROVE  timers[j].item \in Ids /\ timers[j].item # h
  BY <1>6, HeldEntry, OwnEntry
<1>7. CASE /\ Stays(k, d)
           /\ entries' = [es EXCEPT ![h].circle = IF pos >= s THEN circle ELSE circle - 1,
                                    ![h].diff = Diff(s, pos)]
           /\ UNCHANGED timers
  <2> DEFINE c == IF pos >= s THEN circle ELSE circle - 1
             x == Diff(s, pos)
  <2>1. c \in Nat /\ x \in Slots
    BY <1>1, <1>3, <1>5, <1>7, DiffInSlots DEF Stays
  <2>2. entries' = [es EXCEPT ![h].circle = c, ![h].diff = x]
    BY <1>7
  <2>3. c * NumSlots + x = circle * NumSlots + pos - s
    <3>1. (circle - 1) * NumSlots = circle * NumSlots - NumSlots
      BY <1>5, Revolutions
    <3>2. circle * NumSlots \in Int /\ pos \in Int /\ s \in Int
      BY <1>1, <1>3, <1>5, Revolutions, NumSlotsAssumption DEF Slots
    <3> QED
      BY <3>1, <3>2, NumSlotsAssumption DEF Diff
  <2> HIDE DEF c, x
  <2>4. /\ entries'[h].circle = c /\ entries'[h].diff = x
        /\ entries'[h].slot = es[h].slot /\ entries'[h].value = v
        /\ \A i \in Ids \ {h} : entries'[i] = entries[i]
    <3> DEFINE e == [es[h] EXCEPT !.circle = c, !.diff = x]
    <3>1. e.circle = c /\ e.diff = x /\ e.slot = es[h].slot /\ e.value = v
      BY DEF Entry
    <3>2. entries' = [es EXCEPT ![h] = e]
      BY <1>1, <2>2
    <3> HIDE DEF e
    <3> QED
      BY <1>1, <3>1, <3>2
  <2>5. ASSUME NEW j \in Keys \ {k} PROVE Due(j)' = Due(j) /\ Val(j)' = Val(j)
    BY <1>6, <1>7, <2>4, KeyKept
  <2>6. ASSUME Pending(k)
        PROVE  /\ Val(k)' = v
               /\ Due(k)' = Ahead(s, tickedPos) + c * NumSlots + x
    BY <1>1, <1>2, <1>7, <2>4, <2>6, NewDue, NoItemAssumption
  <2>7. ASSUME Pending(k)
        PROVE  Due(k)' = d + (Ahead(s, tickedPos) - s) - (Ahead(pos, tickedPos) - pos)
    <3>1. c * NumSlots \in Int /\ circle * NumSlots \in Int
      BY <1>5, <2>1, Revolutions
    <3>2. Ahead(s, tickedPos) \in Int /\ Ahead(pos, tickedPos) \in Int
      BY <1>1, <1>2, <1>3, AheadIs
    <3>3. x \in Int /\ pos \in Int /\ s \in Int
      BY <1>1, <1>3, <2>1, NumSlotsAssumption DEF Slots
    <3> QED
      BY <1>4, <2>3, <2>6, <2>7, <3>1, <3>2, <3>3
  <2>8. ASSUME Pending(k)
        PROVE  \/ Due(k)' = d
               \/ /\ (pos > tickedPos) # (s > tickedPos)
                  /\ Due(k)' = IF pos > tickedPos THEN d + NumSlots ELSE d - NumSlots
    <3>1. pos \in Int /\ s \in Int /\ tickedPos \in Int
      BY <1>1, <1>2, <1>3, NumSlotsAssumption DEF Slots
    <3>2. CASE pos > tickedPos /\ s > tickedPos
      BY <2>7, <2>8, <3>1, <3>2 DEF Ahead
    <3>3. CASE pos > tickedPos /\ ~(s > tickedPos)
      BY <2>7, <2>8, <3>1, <3>3, NumSlotsAssumption DEF Ahead
    <3>4. CASE ~(pos > tickedPos) /\ s > tickedPos
      BY <2>7, <2>8, <3>1, <3>4, NumSlotsAssumption DEF Ahead
    <3>5. CASE ~(pos > tickedPos) /\ ~(s > tickedPos)
      BY <2>7, <2>8, <3>1, <3>5, NumSlotsAssumption DEF Ahead
    <3> QED
      BY <3>2, <3>3, <3>4, <3>5
  <2>9. ASSUME ~Pending(k) PROVE Due(k)' = Due(k) /\ Val(k)' = Val(k)
    <3>1. timers' = timers /\ entries'[h].slot = entries[h].slot
      BY <1>7, <2>4
    <3>2. ~Pending(k)'
      BY <2>9, <3>1 DEF Pending, Held, Linked
    <3> QED
      BY <2>9, <3>2 DEF Due, Val
  <2> QED
    BY <1>7, <2>5, <2>6, <2>8, <2>9
<1>8. CASE /\ ~Stays(k, d)
           /\ Insert([es EXCEPT ![h] = MarkRemoved(@)], k, es[h].value, pos, 0)
  <2> DEFINE mid == [es EXCEPT ![h] = MarkRemoved(@)]
  <2>1. mid \in [Ids -> Entry \cup {Blank}]
    BY <1>1 DEF MarkRemoved, Entry
  <2>2. \A i \in Ids \ {h} : mid[i] = entries[i]
    OBVIOUS
  <2>3. Insert(mid, k, v, Pos(d), Circle(d))
    <3>1. circle = 0
      BY <1>5, <1>8 DEF Stays
    <3> QED
      BY <1>8, <3>1
  <2> HIDE DEF mid
  <2>4. \A j \in Keys \ {k} : Held(j) => mid[timers[j].item] = entries[timers[j].item]
    BY <1>6, <2>2
  <2> QED
    BY <1>8, <2>1, <2>3, <2>4, InsertDue
<1> QED
  BY <1>7, <1>8 DEF Relocate

-----------------------------------------------------------------------------
\* Each handler is a step of Timers, or one of the exceptions.
LEMMA SetTimerOnTime ==
  ASSUME Inv, NEW k \in Keys, NEW v \in Values, NEW d \in SetDelays, SetTimer(k, v, d)
  PROVE  T!Next \/ Exceptional
<1> DEFINE delay == IF d < 1 THEN 1 ELSE d
<1>1. delay \in Nat /\ delay >= 1
  BY DelayAssumption
<1>2. call' = <<"set", k, v, d>> /\ ran' = {} /\ tickedPos' = tickedPos
  BY DEF SetTimer
<1>3. entries \in [Ids -> Entry \cup {Blank}]
  BY DEF Inv, TypeOK
<1>4. ASSUME Due(k)' = delay, Val(k)' = v,
             \A j \in Keys \ {k} : Due(j)' = Due(j) /\ Val(j)' = Val(j)
      PROVE  T!Next
  <2>1. DueMap' = [DueMap EXCEPT ![k] = delay] /\ ValMap' = [ValMap EXCEPT ![k] = v]
    BY <1>4, MapsOf
  <2>2. T!Set(k, v, d)
    BY <1>2, <2>1 DEF T!Set
  <2> QED
    BY <2>2 DEF T!Next
<1>5. CASE Held(k)
  <2> DEFINE h == timers[k].item
             es == [entries EXCEPT ![h].value = v]
             new == [entries[h] EXCEPT !.value = v]
  <2>1. h \in Ids /\ entries[h] \in Entry
    BY <1>5, HeldEntry
  <2>2. new \in Entry /\ new.value = v /\ new.slot = entries[h].slot
    BY <2>1 DEF Entry
  <2>3. es = [entries EXCEPT ![h] = new]
    BY <1>3, <2>1
  <2>4. Relocate(es, k, delay)
    BY <1>5 DEF SetTimer
  <2> HIDE DEF new, es, delay
  <2>5. /\ es \in [Ids -> Entry \cup {Blank}] /\ es[h] = new
        /\ \A i \in Ids \ {h} : es[i] = entries[i]
    BY <1>3, <2>1, <2>2, <2>3
  <2>6. /\ \A j \in Keys \ {k} : Due(j)' = Due(j) /\ Val(j)' = Val(j)
        /\ Pending(k) =>
             /\ Val(k)' = v
             /\ \/ Due(k)' = delay
                \/ /\ (Pos(delay) > tickedPos) # (timers[k].pos > tickedPos)
                   /\ Stays(k, delay)
                   /\ Due(k)' = IF Pos(delay) > tickedPos THEN delay + NumSlots
                                                          ELSE delay - NumSlots
        /\ ~Pending(k) /\ Stays(k, delay) => Due(k)' = Due(k) /\ Val(k)' = Val(k)
        /\ ~Stays(k, delay) => Due(k)' = delay /\ Val(k)' = v
    BY <1>1, <1>2, <1>5, <2>2, <2>4, <2>5, RelocateDue
  <2>7. CASE Pending(k) /\ Due(k)' = delay
    BY <1>4, <2>6, <2>7
  <2>8. CASE Pending(k) /\ Due(k)' # delay
    <3> DEFINE x == IF Pos(delay) > tickedPos THEN delay + NumSlots ELSE delay - NumSlots
    <3>1. /\ (Pos(delay) > tickedPos) # (timers[k].pos > tickedPos)
          /\ Stays(k, delay)
          /\ Due(k)' = x /\ Val(k)' = v
      BY <2>6, <2>8
    <3>2. DueMap' = [DueMap EXCEPT ![k] = x] /\ ValMap' = [ValMap EXCEPT ![k] = v]
      <4> HIDE DEF x
      <4> QED
        BY <2>6, <3>1, MapsOf
    <3>3. OffByARevolution(k, delay)
      BY <1>2, <2>8, <3>1, <3>2 DEF OffByARevolution
    <3> QED
      BY <1>2, <3>2, <3>3 DEF Exceptional, delay
  <2>9. CASE ~Pending(k) /\ Stays(k, delay)
    <3>1. \A j \in Keys : Due(j)' = Due(j) /\ Val(j)' = Val(j)
      BY <2>6, <2>9
    <3>2. UNCHANGED <<DueMap, ValMap>>
      BY <3>1 DEF DueMap, ValMap
    <3>3. NotSet(k, delay)
      BY <1>2, <1>5, <2>9, <3>2 DEF NotSet, Drained
    <3> QED
      BY <1>2, <3>3 DEF Exceptional, delay
  <2>10. CASE ~Stays(k, delay)
    BY <1>4, <2>6, <2>10
  <2> QED
    BY <2>7, <2>8, <2>9, <2>10
<1>6. CASE ~Held(k)
  <2>1. Insert(entries, k, v, Pos(delay), Circle(delay))
    BY <1>6 DEF SetTimer
  <2> HIDE DEF delay
  <2>2. /\ Due(k)' = delay /\ Val(k)' = v
        /\ \A j \in Keys \ {k} : Due(j)' = Due(j) /\ Val(j)' = Val(j)
    BY <1>1, <1>2, <1>3, <2>1, InsertDue
  <2> QED
    BY <1>4, <2>2
<1> QED
  BY <1>5, <1>6

LEMMA MoveTimerOnTime ==
  ASSUME Inv, NEW k \in Keys, NEW d \in MoveDelays, MoveTimer(k, d)
  PROVE  T!Next \/ Exceptional
<1>1. d \in Nat
  BY DelayAssumption
<1>2. call' = <<"move", k, d>> /\ tickedPos' = tickedPos
  BY DEF MoveTimer
<1>3. entries \in [Ids -> Entry \cup {Blank}]
  BY DEF Inv, TypeOK
<1>4. DueMap[k] = Due(k)
  BY DEF DueMap
<1>5. CASE ~Held(k) /\ ran' = {} /\ UNCHANGED <<entries, timers>>
  <2>1. \A j \in Keys : Due(j)' = Due(j) /\ Val(j)' = Val(j)
    BY <1>2, <1>5, KeyKept
  <2>2. UNCHANGED <<DueMap, ValMap>>
    BY <2>1 DEF DueMap, ValMap
  <2>3. Due(k) = 0
    BY <1>5 DEF Due, Pending
  <2>4. T!Move(k, d)
    BY <1>2, <1>4, <1>5, <2>2, <2>3 DEF T!Move
  <2> QED
    BY <2>4 DEF T!Next
<1>6. CASE Held(k) /\ d < 1 /\ ran' = {Run(timers[k].item)} /\ UNCHANGED <<entries, timers>>
  <2>1. \A j \in Keys : Due(j)' = Due(j) /\ Val(j)' = Val(j)
    BY <1>2, <1>6, KeyKept
  <2>2. UNCHANGED <<DueMap, ValMap>>
    BY <2>1 DEF DueMap, ValMap
  <2>3. RunsAndStays(k) /\ d = 0
    BY <1>1, <1>6, <2>2 DEF RunsAndStays
  <2> QED
    BY <1>2, <2>3 DEF Exceptional
<1>7. CASE Held(k) /\ d >= 1 /\ ran' = {} /\ Relocate(entries, k, d)
  <2> DEFINE h == timers[k].item
             v == entries[h].value
  <2>1. h \in Ids /\ entries[h] \in Entry
    BY <1>7, HeldEntry
  <2>2. /\ \A j \in Keys \ {k} : Due(j)' = Due(j) /\ Val(j)' = Val(j)
        /\ Pending(k) =>
             /\ Val(k)' = v
             /\ \/ Due(k)' = d
                \/ /\ (Pos(d) > tickedPos) # (timers[k].pos > tickedPos)
                   /\ Stays(k, d)
                   /\ Due(k)' = IF Pos(d) > tickedPos THEN d + NumSlots ELSE d - NumSlots
        /\ ~Pending(k) /\ Stays(k, d) => Due(k)' = Due(k) /\ Val(k)' = Val(k)
        /\ ~Stays(k, d) => Due(k)' = d /\ Val(k)' = v
    BY <1>1, <1>2, <1>3, <1>7, <2>1, RelocateDue
  <2>3. ASSUME Pending(k) PROVE Val(k) = v /\ Due(k) # 0 /\ UNCHANGED ValMap
    <3>1. Val(k) = v /\ Due(k) \in Nat /\ Due(k) >= 1
      BY <2>3, DueIs
    <3>2. \A j \in Keys : Val(j)' = Val(j)
      BY <2>2, <2>3, <3>1
    <3> QED
      BY <3>1, <3>2 DEF ValMap
  <2>4. CASE Pending(k) /\ Due(k)' = d
    <3>1. DueMap' = [DueMap EXCEPT ![k] = d]
      BY <2>2, <2>4, MapsOf
    <3>2. T!Move(k, d)
      BY <1>1, <1>2, <1>4, <1>7, <2>3, <2>4, <3>1 DEF T!Move
    <3> QED
      BY <3>2 DEF T!Next
  <2>5. CASE Pending(k) /\ Due(k)' # d
    <3> DEFINE x == IF Pos(d) > tickedPos THEN d + NumSlots ELSE d - NumSlots
    <3>1. /\ (Pos(d) > tickedPos) # (timers[k].pos > tickedPos)
          /\ Stays(k, d)
          /\ Due(k)' = x /\ Val(k)' = v
      BY <2>2, <2>5
    <3>2. DueMap' = [DueMap EXCEPT ![k] = x]
      <4> HIDE DEF x
      <4> QED
        BY <2>2, <3>1, MapsOf
    <3>3. OffByARevolution(k, d)
      BY <1>7, <2>5, <3>1, <3>2 DEF OffByARevolution
    <3>4. d > 0
      BY <1>1, <1>7
    <3> QED
      BY <1>2, <2>3, <2>5, <3>3, <3>4 DEF Exceptional
  <2>6. CASE ~Pending(k) /\ Stays(k, d)
    <3>1. \A j \in Keys : Due(j)' = Due(j) /\ Val(j)' = Val(j)
      BY <2>2, <2>6
    <3>2. UNCHANGED <<DueMap, ValMap>>
      BY <3>1 DEF DueMap, ValMap
    <3>3. Due(k) = 0
      BY <2>6, DueIs
    <3>4. T!Move(k, d)
      BY <1>2, <1>4, <1>7, <3>2, <3>3 DEF T!Move
    <3> QED
      BY <3>4 DEF T!Next
  <2>7. CASE ~Pending(k) /\ ~Stays(k, d)
    <3>1. DueMap' = [DueMap EXCEPT ![k] = d] /\ ValMap' = [ValMap EXCEPT ![k] = v]
      BY <2>2, <2>7, MapsOf
    <3>2. Revived(k, d) /\ d > 0
      BY <1>1, <1>7, <2>7, <3>1 DEF Revived, Drained
    <3> QED
      BY <1>2, <3>2 DEF Exceptional
  <2> QED
    BY <2>4, <2>5, <2>6, <2>7
<1> QED
  BY <1>5, <1>6, <1>7 DEF MoveTimer

LEMMA RemoveTimerOnTime ==
  ASSUME Inv, NEW k \in Keys, RemoveTimer(k)
  PROVE  T!Next
<1>1. call' = <<"remove", k>> /\ ran' = {} /\ tickedPos' = tickedPos
  BY DEF RemoveTimer
<1>2. entries \in [Ids -> Entry \cup {Blank}] /\ timers \in [Keys -> PositionEntry]
  BY DEF Inv, TypeOK
<1>3. timers'[k].item = NoItem /\ \A j \in Keys \ {k} : timers'[j] = timers[j]
  BY <1>2 DEF RemoveTimer, Held, Absent
<1>4. ASSUME NEW j \in Keys \ {k}, Held(j)
      PROVE  entries'[timers[j].item] = entries[timers[j].item]
  <2>1. CASE Held(k)
    <3>1. timers[j].item \in Ids /\ timers[j].item # timers[k].item
      BY <1>4, <2>1, HeldEntry, OwnEntry
    <3>2. entries' = [entries EXCEPT ![timers[k].item] = MarkRemoved(@)]
      BY <2>1 DEF RemoveTimer
    <3> QED
      BY <1>2, <3>1, <3>2
  <2>2. CASE ~Held(k)
    BY <2>2 DEF RemoveTimer
  <2> QED
    BY <2>1, <2>2
<1>5. Due(k)' = 0 /\ Val(k)' = NoValue
  BY <1>3 DEF Due, Val, Pending, Held
<1>6. \A j \in Keys \ {k} : Due(j)' = Due(j) /\ Val(j)' = Val(j)
  BY <1>1, <1>3, <1>4, KeyKept
<1>7. DueMap' = [DueMap EXCEPT ![k] = 0] /\ ValMap' = [ValMap EXCEPT ![k] = NoValue]
  BY <1>5, <1>6, MapsOf
<1>8. T!Remove(k)
  BY <1>1, <1>7 DEF T!Remove
<1> QED
  BY <1>8 DEF T!Next

\* One tick less for every key; a key with one tick left runs.
LEMMA TickKey ==
  ASSUME Inv, Tick, NEW k \in Keys
  PROVE  /\ Due(k)' = IF Due(k) = 0 THEN 0 ELSE Due(k) - 1
         /\ Val(k)' = IF Due(k) = 1 THEN NoValue ELSE Val(k)
         /\ Due(k) = 1 <=> Held(k) /\ Expires(timers[k].item, Now)
<1> DEFINE h == timers[k].item
           e == entries[h]
<1>1. tickedPos' = Now /\ Now \in Slots /\ tickedPos \in Slots
  BY NowInSlots DEF Tick, Now, Inv, TypeOK
<1>2. ASSUME NEW i \in Ids, entries[i].key = k, Expires(i, Now) \/ Shifts(i, Now)
      PROVE  Pending(k) /\ i = h
  <2>1. Live(i)
    BY <1>2, ScannedIsEntry
  <2>2. timers[k] = [pos |-> entries[i].slot, item |-> i]
    BY <1>2, <2>1 DEF Live, Linked, Inv, Good, LiveIsHeld
  <2>3. timers[k].item = i
    BY <2>2
  <2> QED
    BY <2>1, <2>3, NoItemAssumption DEF Pending, Held, Live
<1>3. ASSUME ~Pending(k) \/ ~(Expires(h, Now) \/ Shifts(h, Now))
      PROVE  timers'[k] = timers[k]
  BY <1>2, <1>3, TickTimers
<1>4. CASE ~Pending(k)
  <2>1. Due(k) = 0 /\ Val(k) = NoValue
    BY <1>4, DueIs
  <2>2. Held(k) => h \in Ids /\ e.slot = Unlinked /\ entries'[h] = e
    BY <1>1, <1>4, HeldEntry, TickEntries, ZeroSlot DEF Pending, Linked
  <2>3. ~Pending(k)'
    BY <1>3, <1>4, <2>2 DEF Pending, Held, Linked
  <2>4. ~(Held(k) /\ Expires(h, Now))
    BY <1>1, <2>2, ZeroSlot DEF Expires
  <2> QED
    BY <2>1, <2>3, <2>4 DEF Due, Val
<1>5. CASE Pending(k)
  <2>1. /\ Held(k) /\ h \in Ids /\ e \in Entry /\ e.key = k /\ e.status = "live"
        /\ timers[k].pos \in Slots /\ e.slot = timers[k].pos
    BY <1>5, HeldEntry DEF Pending
  <2>2. /\ Due(k) = Ahead(e.slot, tickedPos) + e.circle * NumSlots + e.diff
        /\ e.circle \in Nat /\ e.diff \in Slots /\ e.value \in Values
        /\ Due(k) \in Nat /\ Due(k) >= 1
        /\ Val(k) = e.value
    BY <1>5, <2>1, DueIs
  <2>3. /\ e.circle * NumSlots \in Int
        /\ e.circle = 0 => e.circle * NumSlots = 0
        /\ e.circle >= 1 => e.circle * NumSlots >= NumSlots
        /\ (e.circle - 1) * NumSlots = e.circle * NumSlots - NumSlots
    BY <2>2, Revolutions
  <2>4. NumSlots \in Nat /\ NumSlots >= 1 /\ e.diff \in Nat /\ e.diff < NumSlots
    BY <2>2, NumSlotsAssumption DEF Slots
  <2>5. Ahead(e.slot, tickedPos) \in 1 .. NumSlots
    BY <1>1, <2>1, AheadIs
  <2>6. e.slot = Now <=> Ahead(e.slot, tickedPos) = 1
    BY <1>1, <2>1, NowAhead
  <2>7. CASE Expires(h, Now)
    <3>1. Due(k) = 1
      BY <2>2, <2>3, <2>6, <2>7 DEF Expires
    <3>2. timers'[k] = Absent
      BY <2>1, <2>7, TickTimers
    <3> QED
      BY <2>1, <2>7, <3>1, <3>2 DEF Due, Val, Pending, Held, Absent
  <2>8. CASE Shifts(h, Now)
    <3>1. e.slot = Now /\ e.circle = 0 /\ e.diff > 0 /\ ~Expires(h, Now) /\ ~Unlinks(h, Now)
      BY <2>1, <2>4, <2>8 DEF Shifts, Expires, Unlinks
    <3>2. Due(k) = 1 + e.diff
      BY <2>2, <2>3, <2>4, <2>6, <3>1
    <3>3. timers'[k] = [pos |-> ShiftPos(h, Now), item |-> h]
      BY <2>1, <2>8, TickTimers
    <3>4. entries'[h] = [e EXCEPT !.slot = ShiftPos(h, Now), !.diff = 0]
      BY <2>1, <2>8, <3>1, TickEntries
    <3>5. ShiftPos(h, Now) \in Slots /\ Ahead(ShiftPos(h, Now), Now) = e.diff
      BY <1>1, <2>2, <3>1, ShiftAhead DEF ShiftPos
    <3> DEFINE to == ShiftPos(h, Now)
    <3>6. /\ entries'[h].slot = to /\ entries'[h].diff = 0
          /\ entries'[h].circle = e.circle /\ entries'[h].value = e.value
      <4> HIDE DEF to
      <4>1. entries'[h] = [e EXCEPT !.slot = to, !.diff = 0]
        BY <3>4 DEF to
      <4> QED
        BY <2>1, <4>1 DEF Entry
    <3>7. timers'[k].item = h
      BY <3>3
    <3>8. Due(k)' = Ahead(to, Now) + e.circle * NumSlots + 0 /\ Val(k)' = e.value
      <4> HIDE DEF to, h, e
      <4> QED
        BY <1>1, <2>1, <3>5, <3>6, <3>7, NewDue, NoItemAssumption DEF to
    <3>9. Due(k)' = e.diff
      BY <2>3, <2>4, <3>1, <3>5, <3>8
    <3> QED
      BY <2>1, <2>2, <2>4, <3>1, <3>2, <3>8, <3>9
  <2>9. CASE e.slot = Now /\ ~Expires(h, Now) /\ ~Shifts(h, Now)
    <3>1. e.circle >= 1 /\ ~Unlinks(h, Now)
      BY <2>1, <2>2, <2>4, <2>9 DEF Expires, Shifts, Unlinks
    <3>2. timers'[k].item = h
      BY <1>3, <2>9
    <3>3. entries'[h] = [e EXCEPT !.circle = @ - 1]
      BY <2>1, <2>9, <3>1, TickEntries
    <3>4. /\ entries'[h].slot = Now /\ entries'[h].diff = e.diff
          /\ entries'[h].circle = e.circle - 1 /\ entries'[h].value = e.value
      BY <2>1, <2>9, <3>3 DEF Entry
    <3>5. Ahead(Now, Now) = NumSlots
      BY <1>1, NumSlotsAssumption DEF Ahead, Slots
    <3>6. /\ Due(k)' = Ahead(Now, Now) + (e.circle - 1) * NumSlots + e.diff
          /\ Val(k)' = e.value
      <4> HIDE DEF h, e
      <4> QED
        BY <1>1, <2>1, <3>2, <3>4, NewDue, NoItemAssumption
    <3>7. Due(k) = 1 + e.circle * NumSlots + e.diff
      BY <2>2, <2>6, <2>9
    <3> HIDE DEF h, e
    <3>8. Due(k)' = Due(k) - 1 /\ Due(k) > 1
      BY <2>2, <2>3, <2>4, <3>1, <3>5, <3>6, <3>7
    <3> QED
      BY <2>2, <2>9, <3>6, <3>8 DEF h
  <2>10. CASE e.slot # Now
    <3>1. ~Expires(h, Now) /\ ~Shifts(h, Now)
      BY <2>10 DEF Expires, Shifts
    <3>2. timers'[k].item = h /\ entries'[h] = e
      BY <1>3, <2>1, <2>10, <3>1, TickEntries
    <3>3. Ahead(e.slot, Now) = Ahead(e.slot, tickedPos) - 1
      BY <1>1, <2>1, <2>10, NowAhead
    <3>4. /\ Due(k)' = Ahead(e.slot, Now) + e.circle * NumSlots + e.diff
          /\ Val(k)' = e.value
      <4> HIDE DEF h, e
      <4> QED
        BY <1>1, <2>1, <3>2, NewDue, NoItemAssumption
    <3> HIDE DEF h, e
    <3>5. e.circle * NumSlots >= 0
      BY <2>2, <2>3, <2>4
    <3>6. Ahead(e.slot, tickedPos) \in Int /\ Ahead(e.slot, tickedPos) > 1
      BY <2>5, <2>6, <2>10
    <3> DEFINE c == e.circle * NumSlots
               a == Ahead(e.slot, tickedPos)
    <3>7. c \in Int /\ c >= 0 /\ a \in Int /\ a > 1 /\ e.diff \in Nat
      BY <2>3, <2>4, <3>5, <3>6
    <3>8. Due(k)' = (a - 1) + c + e.diff /\ Due(k) = a + c + e.diff
      BY <2>2, <3>3, <3>4
    <3> HIDE DEF c, a
    <3>9. Due(k)' = Due(k) - 1 /\ Due(k) > 1
      BY <3>7, <3>8
    <3> QED
      BY <2>2, <3>1, <3>4, <3>9 DEF h
  <2> QED
    BY <2>7, <2>8, <2>9, <2>10
<1> QED
  BY <1>4, <1>5

LEMMA TickOnTime ==
  ASSUME Inv, Tick
  PROVE  T!Next
<1> DEFINE due == [k \in Keys |-> IF DueMap[k] = 0 THEN 0 ELSE DueMap[k] - 1]
           val == [k \in Keys |-> IF DueMap[k] = 1 THEN NoValue ELSE ValMap[k]]
           runs == {T!Run(k) : k \in {j \in Keys : DueMap[j] = 1}}
<1>1. \A k \in Keys : DueMap[k] = Due(k) /\ ValMap[k] = Val(k)
  BY DEF DueMap, ValMap
<1>2. \A k \in Keys : Due(k)' = due[k] /\ Val(k)' = val[k]
  BY <1>1, TickKey
<1>3. DueMap' = due /\ ValMap' = val
  <2>1. DueMap' = [k \in Keys |-> Due(k)'] /\ ValMap' = [k \in Keys |-> Val(k)']
    BY DEF DueMap, ValMap
  <2> QED
    BY <1>2, <2>1
<1>4. ran' = {Run(i) : i \in {j \in Ids : Expires(j, Now)}}
  BY DEF Tick, Now
<1>5. ASSUME NEW i \in Ids, Expires(i, Now) PROVE Run(i) \in runs
  <2> DEFINE k == entries[i].key
  <2>1. Live(i) /\ k \in Keys
    BY <1>5, ScannedIsEntry
  <2>2. timers[k] = [pos |-> entries[i].slot, item |-> i]
    BY <2>1 DEF Live, Linked, Inv, Good, LiveIsHeld
  <2>3. timers[k].item = i /\ Held(k) /\ Pending(k)
    BY <2>1, <2>2, NoItemAssumption DEF Held, Pending, Live
  <2>4. Due(k) = 1 /\ Val(k) = entries[i].value
    BY <1>5, <2>1, <2>3, TickKey, DueIs
  <2>5. T!Run(k) = Run(i)
    BY <1>1, <2>1, <2>4 DEF T!Run, Run
  <2> QED
    BY <1>1, <2>1, <2>4, <2>5
<1>6. ASSUME NEW k \in Keys, DueMap[k] = 1
      PROVE  \E i \in Ids : Expires(i, Now) /\ T!Run(k) = Run(i)
  <2> DEFINE i == timers[k].item
  <2>1. Held(k) /\ Expires(i, Now) /\ Pending(k)
    BY <1>1, <1>6, TickKey, DueIs
  <2>2. i \in Ids /\ entries[i].key = k /\ Val(k) = entries[i].value
    BY <2>1, HeldEntry, DueIs
  <2>3. T!Run(k) = Run(i)
    BY <1>1, <2>2 DEF T!Run, Run
  <2> QED
    BY <2>1, <2>2, <2>3
<1>7. ran' = runs
  BY <1>4, <1>5, <1>6
<1>8. T!Tick
  BY <1>3, <1>7 DEF T!Tick, Tick
<1> QED
  BY <1>8 DEF T!Next

LEMMA DrainOnTime ==
  ASSUME Inv, Drain
  PROVE  T!Next
<1> DEFINE runs == {T!Run(k) : k \in {j \in Keys : DueMap[j] > 0}}
<1>1. \A k \in Keys : DueMap[k] = Due(k) /\ ValMap[k] = Val(k)
  BY DEF DueMap, ValMap
<1>2. ASSUME NEW k \in Keys PROVE ~Pending(k)'
  <2>1. timers' = timers
    BY DEF Drain
  <2>2. CASE Held(k)
    <3>1. timers[k].item \in Ids /\ entries[timers[k].item] \in Entry
      BY <2>2, HeldEntry
    <3>2. entries'[timers[k].item] = [entries[timers[k].item] EXCEPT !.slot = Unlinked]
      BY <3>1 DEF Drain
    <3>3. entries'[timers[k].item].slot = Unlinked
      BY <3>1, <3>2 DEF Entry
    <3> QED
      BY <2>1, <3>3 DEF Pending, Linked
  <2>3. CASE ~Held(k)
    BY <2>1, <2>3 DEF Pending, Held
  <2> QED
    BY <2>2, <2>3
<1>3. \A k \in Keys : Due(k)' = 0 /\ Val(k)' = NoValue
  BY <1>2 DEF Due, Val
<1>4. DueMap' = [k \in Keys |-> 0] /\ ValMap' = [k \in Keys |-> NoValue]
  BY <1>3 DEF DueMap, ValMap
<1>5. ran' = {Run(i) : i \in {j \in Ids : Live(j)}}
  BY DEF Drain
<1>6. ASSUME NEW i \in Ids, Live(i) PROVE Run(i) \in runs
  <2> DEFINE k == entries[i].key
  <2>1. k \in Keys
    BY <1>6, LinkedIsEntry DEF Live, Linked, Inv, Good
  <2>2. timers[k] = [pos |-> entries[i].slot, item |-> i]
    BY <1>6 DEF Live, Linked, Inv, Good, LiveIsHeld
  <2>3. timers[k].item = i /\ Pending(k)
    BY <1>6, <2>2, NoItemAssumption DEF Held, Pending, Live
  <2>4. Due(k) > 0 /\ Val(k) = entries[i].value
    BY <2>1, <2>3, DueIs
  <2>5. T!Run(k) = Run(i)
    BY <1>1, <2>1, <2>4 DEF T!Run, Run
  <2> QED
    BY <1>1, <2>1, <2>4, <2>5
<1>7. ASSUME NEW k \in Keys, DueMap[k] > 0
      PROVE  \E i \in Ids : Live(i) /\ T!Run(k) = Run(i)
  <2> DEFINE i == timers[k].item
  <2>1. Pending(k)
    BY <1>1, <1>7, DueIs
  <2>2. /\ i \in Ids /\ entries[i].key = k /\ entries[i].status = "live"
        /\ Val(k) = entries[i].value
    BY <2>1, HeldEntry, DueIs DEF Pending
  <2>3. T!Run(k) = Run(i)
    BY <1>1, <2>2 DEF T!Run, Run
  <2> QED
    BY <2>1, <2>2, <2>3 DEF Live, Pending
<1>8. ran' = runs
  BY <1>5, <1>6, <1>7
<1>9. T!Drain
  BY <1>4, <1>8 DEF T!Drain, Drain
<1> QED
  BY <1>9 DEF T!Next

LEMMA InitOnTime == Init => T!Init
<1> SUFFICES ASSUME Init PROVE T!Init
  OBVIOUS
<1>1. \A k \in Keys : ~Pending(k)
  BY DEF Init, Absent, Pending, Held
<1>2. DueMap = [k \in Keys |-> 0] /\ ValMap = [k \in Keys |-> NoValue]
  BY <1>1 DEF DueMap, ValMap, Due, Val
<1> QED
  BY <1>2 DEF Init, T!Init

\* Stop, a callback that reads its arguments, and a step that changes nothing.
LEMMA StopOnTime ==
  ASSUME Stop \/ (\E g \in Callbacks : RunLate(g)) \/ UNCHANGED vars
  PROVE  [T!Next]_(T!vars)
<1>1. UNCHANGED <<tickedPos, entries, timers>>
  BY DEF Stop, RunLate, vars
<1>2. \A k \in Keys : Due(k)' = Due(k) /\ Val(k)' = Val(k)
  BY <1>1, KeyKept
<1>3. UNCHANGED <<DueMap, ValMap>>
  BY <1>2 DEF DueMap, ValMap
<1>4. CASE Stop
  <2>1. T!Stop
    BY <1>3, <1>4 DEF Stop, T!Stop
  <2> QED
    BY <2>1 DEF T!Next
<1>5. CASE UNCHANGED <<call, ran>>
  BY <1>3, <1>5 DEF T!vars
<1> QED
  BY <1>4, <1>5 DEF RunLate, vars

LEMMA NextOnTime == Inv /\ [Next]_vars => [T!Next \/ Exceptional]_(T!vars)
BY SetTimerOnTime, MoveTimerOnTime, RemoveTimerOnTime, TickOnTime, DrainOnTime, StopOnTime
   DEF Next

-----------------------------------------------------------------------------
\* A callback that goes on waiting gets what it would have got, or the value
\* just set for its key.
LEMMA WaitingArgs ==
  ASSUME Inv, [Next]_vars, NEW g \in Callbacks, Waiting(g), Waiting(g)'
  PROVE  \/ Args(g)' = Args(g)
         \/ /\ Args(g)'.key = Args(g).key
            /\ \E d \in SetDelays : call' = <<"set", Args(g).key, Args(g)'.value, d>>
<1> DEFINE i == Item(g)
           j == Item(g)'
<1>1. Kept(i, j)
  BY NextRefs, ItemKept
<1>2. /\ Args(g) = [key |-> entries[i].key, value |-> entries[i].value]
      /\ Args(g)' = [key |-> entries'[j].key, value |-> entries'[j].value]
  BY DEF Args, Run
<1>3. /\ Args(g).key = entries[i].key
      /\ Args(g)'.key = entries'[j].key /\ Args(g)'.value = entries'[j].value
  BY <1>2
<1> QED
  BY <1>1, <1>2, <1>3 DEF Kept

\* A move by less than a tick starts one callback, with the arguments of now.
LEMMA MoveTimerStarts ==
  ASSUME Inv, NEW k \in Keys, NEW d \in MoveDelays, MoveTimer(k, d)
  PROVE  /\ {Args(g)' : g \in Started} = ran'
         /\ \A g, h \in Started : g = h
<1>1. late \in [Callbacks -> Keys \cup Ids \cup {NoItem}]
  BY DEF Inv, TypeOK
<1>2. CASE UNCHANGED late /\ ran' = {}
  <2>1. Started = {}
    BY <1>2 DEF Started, Waiting
  <2> QED
    BY <1>2, <2>1
<1>3. CASE /\ ran' = {Run(timers[k].item)}
           /\ \E g \in Callbacks : ~Waiting(g) /\ late' = [late EXCEPT ![g] = k]
           /\ UNCHANGED <<entries, timers>>
  <2>1. PICK g \in Callbacks : ~Waiting(g) /\ late' = [late EXCEPT ![g] = k]
    BY <1>3
  <2>2. late'[g] = k /\ \A c \in Callbacks \ {g} : late'[c] = late[c]
    BY <1>1, <2>1
  <2>3. Started = {g}
    BY <2>1, <2>2, ReferenceAssumption DEF Started, Waiting
  <2>4. Item(g)' = timers[k].item
    BY <1>3, <2>2 DEF Item
  <2>5. Args(g)' = Run(timers[k].item)
    BY <1>3, <2>4 DEF Args, Run
  <2> QED
    BY <1>3, <2>3, <2>5
<1> QED
  BY <1>2, <1>3 DEF MoveTimer

\* Drain starts one callback for each live entry, with its arguments of now.
LEMMA DrainStarts ==
  ASSUME Inv, Drain
  PROVE  /\ {Args(g)' : g \in Started} = ran'
         /\ \A g, h \in Started : Args(g)' = Args(h)' => g = h
<1>1. DrainAssign(late') /\ ran' = {Run(i) : i \in {j \in Ids : Live(j)}}
  BY DEF Drain
<1>2. ASSUME NEW g \in Started
      PROVE  /\ g \in Callbacks /\ ~Waiting(g) /\ late'[g] # NoItem
             /\ late'[g] \in Ids /\ Live(late'[g])
             /\ Args(g)' = Run(late'[g])
  <2>1. g \in Callbacks /\ ~Waiting(g) /\ late'[g] # NoItem
    BY DEF Started, Waiting
  <2>2. late'[g] \in Ids /\ Live(late'[g])
    BY <1>1, <2>1 DEF DrainAssign
  <2>3. Item(g)' = late'[g]
    BY <2>2, ReferenceAssumption DEF Item
  <2>4. entries[late'[g]] \in Entry
    BY <2>2, LinkedIsEntry DEF Live, Linked, Inv, Good
  <2>5. entries'[late'[g]] = [entries[late'[g]] EXCEPT !.slot = Unlinked]
    BY <2>2 DEF Drain
  <2>6. /\ entries'[late'[g]].key = entries[late'[g]].key
        /\ entries'[late'[g]].value = entries[late'[g]].value
    BY <2>4, <2>5 DEF Entry
  <2>7. Args(g)' = Run(late'[g])
    BY <2>3, <2>6 DEF Args, Run
  <2> QED
    BY <2>1, <2>2, <2>7
<1>3. ASSUME NEW i \in Ids, Live(i) PROVE \E g \in Started : late'[g] = i
  <2>1. PICK g \in Callbacks : ~Waiting(g) /\ late'[g] = i
    BY <1>1, <1>3 DEF DrainAssign
  <2> QED
    BY <2>1, NoItemAssumption DEF Started, Waiting
<1>4. {Args(g)' : g \in Started} = ran'
  BY <1>1, <1>2, <1>3
<1>5. ASSUME NEW g \in Started, NEW h \in Started, Args(g)' = Args(h)' PROVE g = h
  <2>1. Run(late'[g]) = Run(late'[h]) /\ Live(late'[g]) /\ Live(late'[h])
    BY <1>2, <1>5
  <2>2. entries[late'[g]].key = entries[late'[h]].key
    BY <2>1 DEF Run
  <2>3. late'[g] = late'[h]
    BY <1>2, <2>1, <2>2, OneLive
  <2> QED
    BY <1>1, <1>2, <2>3 DEF DrainAssign
<1> QED
  BY <1>4, <1>5

LEMMA NextLate == Inv /\ [Next]_vars => [LateStep]_vars
<1> SUFFICES ASSUME Inv, Next PROVE LateStep
  OBVIOUS
<1>1. ASSUME NEW g \in Callbacks, Waiting(g), Waiting(g)'
      PROVE  \/ Args(g)' = Args(g)
             \/ /\ Args(g)'.key = Args(g).key
                /\ \E d \in SetDelays : call' = <<"set", Args(g).key, Args(g)'.value, d>>
  BY <1>1, WaitingArgs
<1>2. ASSUME NEW k \in Keys, NEW d \in MoveDelays, MoveTimer(k, d) PROVE LateStep
  <2>1. call'[1] = "move"
    BY <1>2 DEF MoveTimer
  <2> QED
    BY <1>1, <1>2, <2>1, MoveTimerStarts DEF LateStep
<1>3. CASE Drain
  <2>1. call'[1] = "drain"
    BY <1>3 DEF Drain
  <2> QED
    BY <1>1, <1>3, <2>1, DrainStarts DEF LateStep
<1>4. ASSUME NEW g \in Callbacks, RunLate(g) PROVE LateStep
  <2>1. late'[g] = NoItem /\ \A c \in Callbacks \ {g} : late'[c] = late[c]
    BY <1>4 DEF RunLate, Inv, TypeOK
  <2>2. g \in Ended /\ Started = {}
    BY <1>4, <2>1 DEF RunLate, Ended, Started, Waiting
  <2> QED
    BY <1>1, <2>2 DEF LateStep
<1>5. ASSUME Started = {}, call'[1] \notin {"move", "drain"} PROVE LateStep
  <2>1. {Args(g)' : g \in Started} = {}
    BY <1>5
  <2> QED
    BY <1>1, <1>5, <2>1 DEF LateStep
<1>6. ASSUME NEW ks, ks \subseteq Keys, late' = LateWithout(ks) PROVE Started = {}
  BY <1>6, ReferenceAssumption DEF LateWithout, Started, Waiting
<1>7. UNCHANGED late => Started = {}
  BY DEF Started, Waiting
<1>8. ASSUME NEW k \in Keys, NEW v \in Values, NEW d \in SetDelays, SetTimer(k, v, d)
      PROVE  LateStep
  BY <1>5, <1>7, <1>8 DEF SetTimer
<1>9. ASSUME NEW k \in Keys, RemoveTimer(k) PROVE LateStep
  <2>1. Started = {}
    BY <1>6, <1>7, <1>9 DEF RemoveTimer
  <2> QED
    BY <1>5, <1>9, <2>1 DEF RemoveTimer
<1>10. CASE Tick
  <2>1. late' = LateWithout(Expired) /\ Expired \subseteq Keys
    BY <1>10 DEF Tick, Expired, Now
  <2> QED
    BY <1>5, <1>6, <1>10, <2>1 DEF Tick
<1>11. CASE Stop
  BY <1>5, <1>7, <1>11 DEF Stop
<1> QED
  BY <1>2, <1>3, <1>4, <1>8, <1>9, <1>10, <1>11 DEF Next

\* For any number of keys, values, entries and waiting goroutines: a callback of
\* moveTask or drainAll that reads its arguments late gets its own key, and the
\* value its timer had when the callback was started or one that SetTimer gave
\* that key since, whatever happened to entry and map in between.
THEOREM LateCallbacks == Spec => LateArgs
<1>1. Init /\ [][Next]_vars => []Inv
  BY InitInv, NextInv, PTL
<1> QED
  BY <1>1, NextLate, PTL DEF Spec, LateArgs

-----------------------------------------------------------------------------
\* The wheel implements the timer service for any number of slots, keys,
\* entries and any delays: every step of setTask, moveTask, removeTask, onTick,
\* drainAll and Stop is the step of Timers that the request asks for, except
\* for the requests that Exceptional describes.
THEOREM WheelOnSchedule == Spec => OnScheduleExcept
<1>1. Init /\ [][Next]_vars => []Inv
  BY InitInv, NextInv, PTL
<1> QED
  BY <1>1, InitOnTime, NextOnTime, PTL DEF Spec, OnScheduleExcept

\* Clients that set timers only for keys the map does not hold, and move none, as
\* the cleaner of the redis cache does until it drains its wheel at shutdown: a
\* key is random, or its timer has run and left the map before it is set again.
FreshKeysOnly == ~ResetPending /\ MoveDelays = {}

LEMMA NextExact == FreshKeysOnly /\ Inv /\ [Next]_vars => [T!Next]_(T!vars)
<1> SUFFICES ASSUME FreshKeysOnly, Inv, [Next]_vars PROVE [T!Next]_(T!vars)
  OBVIOUS
<1>1. ASSUME NEW k \in Keys, NEW v \in Values, NEW d \in SetDelays,
             ~Held(k), SetTimer(k, v, d)
      PROVE  T!Next
  <2> SUFFICES ASSUME Exceptional PROVE FALSE
    BY <1>1, SetTimerOnTime
  <2>1. PICK j \in Keys, w \in Values, x \in SetDelays : call' = <<"set", j, w, x>> /\ Held(j)
    BY DEF FreshKeysOnly, Exceptional, OffByARevolution, NotSet, Drained, Pending
  <2>2. call' = <<"set", k, v, d>>
    BY <1>1 DEF SetTimer
  <2>3. j = k
    BY <2>1, <2>2
  <2> QED
    BY <1>1, <2>1, <2>3
<1> QED
  BY <1>1, RemoveTimerOnTime, TickOnTime, DrainOnTime, StopOnTime DEF Next, FreshKeysOnly

\* For such clients the wheel keeps the whole promise of Timers: each timer runs
\* once, with its value, on the tick asked for or at Drain, unless it was removed.
THEOREM FreshKeysOnSchedule == FreshKeysOnly /\ Spec => OnSchedule
<1>1. FreshKeysOnly /\ Init => FreshKeysOnly /\ Inv
  BY InitInv
<1>2. FreshKeysOnly /\ Inv /\ [Next]_vars => (FreshKeysOnly /\ Inv)'
  BY NextInv DEF FreshKeysOnly
<1> QED
  BY <1>1, <1>2, InitOnTime, NextExact, PTL DEF Spec, OnSchedule, T!Spec
=============================================================================
