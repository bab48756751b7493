----------------------------- MODULE TimingWheel -----------------------------
(***************************************************************************)
(* collection.TimingWheel (core/collection/timingwheel.go): the timers     *)
(* behind the in-memory cache's expiry and the redis cache's clean tasks.  *)
(*                                                                         *)
(* One goroutine (run) owns the wheel and serves one request at a time     *)
(* over unbuffered channels, so every handler is one action.  The entries  *)
(* of the slots' lists are objects shared between a list and the timers    *)
(* map: Ids are their identities, and an entry's list is its field "slot". *)
(* The order inside a list is left out: it only decides in which order the *)
(* callbacks of one tick run.  Delays are counted in ticks of the wheel; 0 *)
(* stands for every positive delay shorter than one tick.                  *)
(*                                                                         *)
(* The callbacks of a tick get copies of key and value.  Those of Drain    *)
(* and of a move by less than a tick run in goroutines that read them from *)
(* the entry when they get to it, while the run goroutine goes on: late    *)
(* holds these goroutines and what they will read from.  The read races    *)
(* with the write of setTask; it finds the value before or after it.       *)
(***************************************************************************)
EXTENDS Integers, FiniteSets

CONSTANTS
    Keys,           \* keys of the timers
    Values,         \* values the callbacks get
    NoValue,        \* no value
    Ids,            \* identities of timingEntry objects; bounds how many exist
    NoItem,         \* the nil *timingEntry
    Callbacks,      \* goroutines of drainAll and moveTask; bounds how many wait
    NumSlots,       \* slots of the wheel
    SetDelays,      \* delays clients pass to SetTimer
    MoveDelays,     \* delays clients pass to MoveTimer
    ResetPending,   \* do clients call SetTimer for a key the timers map holds?
    Draining        \* do clients call Drain?

ASSUME NumSlotsAssumption == NumSlots \in Nat \ {0}
ASSUME DelayAssumption == SetDelays \subseteq Nat /\ MoveDelays \subseteq Nat
ASSUME NoItemAssumption == NoItem \notin Ids
ASSUME ReferenceAssumption == NoItem \notin Keys /\ Keys \cap Ids = {}
ASSUME NoValueAssumption == NoValue \notin Values
ASSUME ClientAssumption == ResetPending \in BOOLEAN /\ Draining \in BOOLEAN

VARIABLES
    tickedPos,      \* the slot of the last tick
    entries,        \* the timingEntry objects
    timers,         \* the timers map: key -> positionEntry
    late,           \* callbacks that have not read their arguments yet: the key of
                    \* the positionEntry, or the entry, they read; NoItem for none
    phase,          \* of the run goroutine
    call,           \* the request the last step served
    ran             \* the callbacks the last step started, and their arguments then

vars == <<tickedPos, entries, timers, late, phase, call, ran>>

Slots    == 0 .. NumSlots - 1
Unlinked == -1

\* timingEntry, with the slot whose list holds it.
Entry == [key : Keys, value : Values, slot : Slots \cup {Unlinked},
          circle : Nat, diff : Nat, status : {"live", "removed"}]

\* positionEntry; a key whose item is nil is not in the map.
PositionEntry == [pos : Slots, item : Ids \cup {NoItem}]
Absent == [pos |-> 0, item |-> NoItem]

\* An object nothing refers to: garbage, or not allocated yet.
Blank == [key |-> NoItem, value |-> NoValue, slot |-> Unlinked,
          circle |-> 0, diff |-> 0, status |-> "removed"]

Held(k)   == timers[k].item # NoItem
Linked(i) == entries[i].slot # Unlinked
Live(i)   == Linked(i) /\ entries[i].status = "live"
Free(i)   == /\ ~Linked(i)
             /\ \A k \in Keys : timers[k].item # i
             /\ \A g \in Callbacks : late[g] # i
Run(i)    == [key |-> entries[i].key, value |-> entries[i].value]

\* The entry a waiting callback reads, and what it finds there.
Waiting(g) == late[g] # NoItem
Item(g)    == IF late[g] \in Keys THEN timers[late[g]].item ELSE late[g]
Args(g)    == Run(Item(g))

\* The callbacks when the keys ks leave the map: a positionEntry that is no
\* longer in the map keeps its item.
LateWithout(ks) ==
    [g \in Callbacks |-> IF late[g] \in ks THEN timers[late[g]].item ELSE late[g]]

\* Mutant: the removed flag is not set.
MarkRemovedNot(e) == e

\* Marks an entry removed.
MarkRemoved(e) == [e EXCEPT !.status = "removed"]

-----------------------------------------------------------------------------
\* Mutants: the position does not wrap around; a delay of exactly one
\* revolution counts as a full circle.
PosUnwrapped(d)  == tickedPos + d
CircleRounded(d) == d \div NumSlots

\* getPositionAndCircle.
Pos(d)    == (tickedPos + d) % NumSlots
Circle(d) == (d - 1) \div NumSlots

Init ==
    /\ tickedPos = NumSlots - 1
    /\ entries = [i \in Ids |-> Blank]
    /\ timers = [k \in Keys |-> Absent]
    /\ late = [g \in Callbacks |-> NoItem]
    /\ phase = "running"
    /\ call = <<"none">>
    /\ ran = {}

\* Appends a new entry for k to a slot's list and points the map at it.
Insert(es, k, v, pos, circle) ==
    \E i \in Ids :
        /\ Free(i)
        /\ entries' = [es EXCEPT ![i] =
              [key |-> k, value |-> v, slot |-> pos, circle |-> circle,
               diff |-> 0, status |-> "live"]]
        /\ timers' = [timers EXCEPT ![k] = [pos |-> pos, item |-> i]]

\* Mutant: a move to the slot the entry is in goes all the way round.
DiffStrict(from, pos) == IF pos > from THEN pos - from ELSE NumSlots + pos - from

\* The slots an entry still has to travel once its circles are used up.
Diff(from, pos) == IF pos >= from THEN pos - from ELSE NumSlots + pos - from

\* moveTask for a delay of at least one tick; es is entries after the value
\* of the item was set.  The entry stays where it is and is told how far to
\* travel, unless it must run before its slot is scanned again.
Stays(k, d) == Pos(d) >= timers[k].pos \/ Circle(d) > 0

Relocate(es, k, d) ==
    LET t == timers[k]
        pos == Pos(d)
        circle == Circle(d)
        ahead == pos >= t.pos
    IN \/ /\ Stays(k, d)
          /\ entries' = [es EXCEPT ![t.item].circle = IF ahead THEN circle ELSE circle - 1,
                                   ![t.item].diff = Diff(t.pos, pos)]
          /\ UNCHANGED timers
       \/ /\ ~Stays(k, d)
          /\ Insert([es EXCEPT ![t.item] = MarkRemoved(@)], k, es[t.item].value, pos, 0)

\* SetTimer, setTask.
SetTimer(k, v, d) ==
    LET delay == IF d < 1 THEN 1 ELSE d
    IN /\ phase = "running"
       /\ call' = <<"set", k, v, d>>
       /\ ran' = {}
       /\ IF Held(k)
          THEN Relocate([entries EXCEPT ![timers[k].item].value = v], k, delay)
          ELSE Insert(entries, k, v, Pos(delay), Circle(delay))
       /\ UNCHANGED <<tickedPos, late, phase>>

\* MoveTimer, moveTask.  The callback of a move by less than a tick reads its
\* arguments through the positionEntry of the key.
MoveTimer(k, d) ==
    /\ phase = "running"
    /\ call' = <<"move", k, d>>
    /\ \/ /\ ~Held(k)
          /\ ran' = {}
          /\ UNCHANGED <<entries, timers, late>>
       \/ /\ Held(k)
          /\ d < 1
          /\ ran' = {Run(timers[k].item)}
          /\ \E g \in Callbacks : ~Waiting(g) /\ late' = [late EXCEPT ![g] = k]
          /\ UNCHANGED <<entries, timers>>
       \/ /\ Held(k)
          /\ d >= 1
          /\ ran' = {}
          /\ Relocate(entries, k, d)
          /\ UNCHANGED late
    /\ UNCHANGED <<tickedPos, phase>>

\* RemoveTimer, removeTask.
RemoveTimer(k) ==
    /\ phase = "running"
    /\ call' = <<"remove", k>>
    /\ ran' = {}
    /\ IF Held(k)
       THEN /\ entries' = [entries EXCEPT ![timers[k].item] = MarkRemoved(@)]
            /\ timers' = [timers EXCEPT ![k] = Absent]
            /\ late' = LateWithout({k})
       ELSE UNCHANGED <<entries, timers, late>>
    /\ UNCHANGED <<tickedPos, phase>>

\* What scanAndRunTasks does with an entry of the slot now ticked.
Expires(i, now)  == entries[i].slot = now /\ entries[i].status = "live"
                    /\ entries[i].circle = 0 /\ entries[i].diff = 0
Unlinks(i, now)  == entries[i].slot = now /\ (entries[i].status = "removed" \/ Expires(i, now))
Shifts(i, now)   == entries[i].slot = now /\ entries[i].status = "live"
                    /\ entries[i].circle = 0 /\ entries[i].diff > 0
ShiftPos(i, now) == (now + entries[i].diff) % NumSlots

\* onTick, scanAndRunTasks, runTasks.
Tick ==
    LET now == (tickedPos + 1) % NumSlots
        expired == {k \in Keys : \E i \in Ids : Expires(i, now) /\ entries[i].key = k}
        scanned(i) ==
            LET e == entries[i]
            IN IF Unlinks(i, now) THEN [e EXCEPT !.slot = Unlinked]
               ELSE IF Shifts(i, now) THEN [e EXCEPT !.slot = ShiftPos(i, now), !.diff = 0]
               ELSE IF e.slot = now THEN [e EXCEPT !.circle = @ - 1]
               ELSE e
    IN /\ phase = "running"
       /\ call' = <<"tick">>
       /\ tickedPos' = now
       /\ ran' = {Run(i) : i \in {j \in Ids : Expires(j, now)}}
       /\ entries' = [i \in Ids |-> scanned(i)]
       /\ timers' = [k \in Keys |->
             IF k \in expired THEN Absent
             ELSE IF \E i \in Ids : Shifts(i, now) /\ entries[i].key = k
             THEN LET i == CHOOSE j \in Ids : Shifts(j, now) /\ entries[j].key = k
                  IN [pos |-> ShiftPos(i, now), item |-> i]
             ELSE timers[k]]
       /\ late' = LateWithout(expired)
       /\ UNCHANGED phase

\* Mutant: one variable for all the closures of the loop; they read from the
\* last entry.
DrainAssignShared(f) ==
    /\ \A g \in Callbacks : Waiting(g) => f[g] = late[g]
    /\ \E i \in Ids : \A g \in Callbacks : ~Waiting(g) /\ f[g] # NoItem => Live(i) /\ f[g] = i
    /\ Cardinality({g \in Callbacks : ~Waiting(g) /\ f[g] # NoItem}) =
          Cardinality({i \in Ids : Live(i)})

\* The callbacks f that drainAll leaves: one more for each live entry, which
\* reads from that entry.
DrainAssign(f) ==
    /\ \A g \in Callbacks : Waiting(g) => f[g] = late[g]
    /\ \A g \in Callbacks : ~Waiting(g) /\ f[g] # NoItem => f[g] \in Ids /\ Live(f[g])
    /\ \A i \in Ids : Live(i) => \E g \in Callbacks : ~Waiting(g) /\ f[g] = i
    /\ \A g, h \in Callbacks :
          ~Waiting(g) /\ ~Waiting(h) /\ f[g] # NoItem /\ f[g] = f[h] => g = h

\* Drain, drainAll: the lists are emptied, the timers map is left as it is.
Drain ==
    /\ Draining
    /\ phase = "running"
    /\ call' = <<"drain">>
    /\ ran' = {Run(i) : i \in {j \in Ids : Live(j)}}
    /\ \E f \in [Callbacks -> Keys \cup Ids \cup {NoItem}] : DrainAssign(f) /\ late' = f
    /\ entries' = [i \in Ids |-> [entries[i] EXCEPT !.slot = Unlinked]]
    /\ UNCHANGED <<tickedPos, timers, phase>>

\* The goroutine of a callback reads its arguments, Args(g), and calls execute,
\* or the function Drain was given.  It may do so after Stop.
RunLate(g) ==
    /\ Waiting(g)
    /\ late' = [late EXCEPT ![g] = NoItem]
    /\ UNCHANGED <<tickedPos, entries, timers, phase, call, ran>>

\* Stop: the step in which the run goroutine takes the closed stopChannel.
\* Between close and this step its select may serve requests and ticks as ever.
Stop ==
    /\ phase = "running"
    /\ phase' = "stopped"
    /\ call' = <<"stop">>
    /\ ran' = {}
    /\ UNCHANGED <<tickedPos, entries, timers, late>>

Next ==
    \/ \E k \in Keys, v \in Values, d \in SetDelays :
          (ResetPending \/ ~Held(k)) /\ SetTimer(k, v, d)
    \/ \E k \in Keys, d \in MoveDelays : MoveTimer(k, d)
    \/ \E k \in Keys : RemoveTimer(k)
    \/ Tick
    \/ Drain
    \/ Stop
    \/ \E g \in Callbacks : RunLate(g)

Spec == Init /\ [][Next]_vars

-----------------------------------------------------------------------------
TypeOK ==
    /\ tickedPos \in Slots
    /\ entries \in [Ids -> Entry \cup {Blank}]
    /\ timers \in [Keys -> PositionEntry]
    /\ late \in [Callbacks -> Keys \cup Ids \cup {NoItem}]
    /\ phase \in {"running", "stopped"}

\* Every live entry in a list is the one the timers map holds for its key,
\* at the position the map has.  An entry that breaks this can neither be
\* removed nor moved, and its key runs twice.
LiveIsCurrent ==
    \A i \in Ids : Live(i) =>
        timers[entries[i].key] = [pos |-> entries[i].slot, item |-> i]

\* scanAndRunTasks never moves an entry to the list it is walking (the
\* comment "cannot be the same value of tw.tickedPos"): the walk would meet
\* it again and run it one revolution early.
ShiftLeavesSlot ==
    \A i \in Ids : Live(i) /\ entries[i].diff > 0 =>
        (entries[i].slot + entries[i].diff) % NumSlots # entries[i].slot

\* Ticks until an entry runs.
DueIn(i) ==
    ((entries[i].slot - tickedPos - 1) % NumSlots) + 1
        + entries[i].circle * NumSlots + entries[i].diff

Pending(k) == Held(k) /\ Linked(timers[k].item)
Due(k)     == IF Pending(k) THEN DueIn(timers[k].item) ELSE 0
Val(k)     == IF Pending(k) THEN entries[timers[k].item].value ELSE NoValue
DueMap     == [k \in Keys |-> Due(k)]
ValMap     == [k \in Keys |-> Val(k)]

\* The timer service the wheel implements.
T == INSTANCE Timers WITH
        Delays <- SetDelays \cup MoveDelays, due <- DueMap, val <- ValMap

\* Each timer runs once, with the value last set, exactly as many ticks after
\* the last SetTimer or MoveTimer as that call asked for: "MoveTimer moves
\* the task with the given key to the given delay", and the tests count the
\* ticks.  The code does not keep this: see OnScheduleExcept.
OnSchedule == T!Spec

\* moveTask compares slot numbers, not distances from tickedPos: when only one
\* of the two slots lies beyond tickedPos, an entry that stays in its list is
\* one revolution late, or one early.
OffByARevolution(k, d) ==
    /\ Pending(k)
    /\ (Pos(d) > tickedPos) # (timers[k].pos > tickedPos)
    /\ Stays(k, d)
    /\ ran' = {}
    /\ DueMap' = [DueMap EXCEPT ![k] =
                     IF Pos(d) > tickedPos THEN d + NumSlots ELSE d - NumSlots]

\* moveTask runs a timer moved to less than a tick and leaves it as it is: it
\* runs again when its list is scanned, and a drained one runs once more.
RunsAndStays(k) ==
    /\ Held(k)
    /\ ran' = {Run(timers[k].item)}
    /\ UNCHANGED <<DueMap, ValMap>>

\* drainAll leaves the drained keys in the timers map, with entries that are in
\* no list.
Drained(k) == Held(k) /\ ~Pending(k)

\* A timer set for a drained key, when the entry stays where it is: nowhere.
NotSet(k, d) ==
    /\ Drained(k)
    /\ Stays(k, d)
    /\ ran' = {}
    /\ UNCHANGED <<DueMap, ValMap>>

\* A drained timer that is moved, when the entry is replaced, is to run again,
\* with the value it has got since.
Revived(k, d) ==
    /\ Drained(k)
    /\ ~Stays(k, d)
    /\ ran' = {}
    /\ DueMap' = [DueMap EXCEPT ![k] = d]
    /\ ValMap' = [ValMap EXCEPT ![k] = entries[timers[k].item].value]

\* The requests that are off schedule.
Exceptional ==
    \/ \E k \in Keys, v \in Values, d \in SetDelays :
         LET delay == IF d < 1 THEN 1 ELSE d
         IN /\ call' = <<"set", k, v, d>>
            /\ \/ OffByARevolution(k, delay) /\ ValMap' = [ValMap EXCEPT ![k] = v]
               \/ NotSet(k, delay)
    \/ \E k \in Keys, d \in MoveDelays :
         /\ call' = <<"move", k, d>>
         /\ \/ d > 0 /\ OffByARevolution(k, d) /\ UNCHANGED ValMap
            \/ d = 0 /\ RunsAndStays(k)
            \/ d > 0 /\ Revived(k, d)

\* The wheel is on schedule in every step but those of the four kinds above:
\* whatever clients do, the callback of a timer is started once, at the tick it
\* was set or moved to, for the value last set, and every other key's timer is
\* left alone.
OnScheduleExcept == T!Init /\ [][T!Next \/ Exceptional]_(T!vars)

\* One callback is started for each one that ran tells of; the others are left
\* what they had, or get the value that the request has set for their key.
Started == {g \in Callbacks : ~Waiting(g) /\ Waiting(g)'}
Ended   == {g \in Callbacks : Waiting(g) /\ ~Waiting(g)'}

LateStep ==
    /\ Ended = {} =>
          {Args(g)' : g \in Started} = IF call'[1] \in {"move", "drain"} THEN ran' ELSE {}
    /\ \A g, h \in Started : Args(g)' = Args(h)' => g = h
    /\ \A g \in Callbacks : Waiting(g) /\ Waiting(g)' =>
          \/ Args(g)' = Args(g)
          \/ /\ Args(g)'.key = Args(g).key
             /\ \E d \in SetDelays : call' = <<"set", Args(g).key, Args(g)'.value, d>>

\* What becomes of the callbacks that moveTask (timingwheel.go:204-206) and
\* drainAll (:174-176) leave to goroutines, which read key and value later from
\* an entry that may be in the map still: there is one for each callback
\* started, and however many requests, ticks, replaced and reused entries come
\* before it reads, it gets its own key and the value of the start, or one that
\* a later SetTimer of that very key has set.
LateArgs == [][LateStep]_vars
=============================================================================
