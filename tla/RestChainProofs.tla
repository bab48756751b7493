--------------------------- MODULE RestChainProofs ---------------------------
(***************************************************************************)
(* Theorems about RestChain, for any number of requests, any MaxConns and  *)
(* any statuses a handler may set.                                         *)
(***************************************************************************)
EXTENDS RestChain, FiniteSetTheorems, TLAPS

USE DEF counters, history

Early  == {"arriving", "breaker", "shedding", "timeout"}
Ending == {"shedderEnd", "breakerEnd", "latchEnd", "done"}

Writer == [locked : BOOLEAN, timedOut : BOOLEAN, wroteHeader : BOOLEAN,
           code : Statuses, buffered : BOOLEAN]
Answer == [status : Statuses \cup {0}, bodies : SUBSET {"handler", "timeout"}]

\* Types without the bounds of the counters.
PcTypes ==
    /\ pc \in [Reqs -> Early \cup {"select", "answering"} \cup Ending]
    /\ hpc \in [Reqs -> {"none", "running", "recovering", "returned", "panicked"}]

WriterTypes ==
    /\ tw \in [Reqs -> Writer]
    /\ code \in [Reqs -> Statuses]
    /\ wire \in [Reqs -> Answer]
    /\ ctx \in [Reqs -> {"live", "deadline", "canceled"}]

OtherTypes ==
    /\ recovers \in BOOLEAN
    /\ verdict \in [Reqs -> [breaker : {"none", "accept", "reject"},
                             shedder : {"none", "fail", "pass"}]]
    /\ flushed \subseteq Reqs
    /\ crashed \subseteq Reqs
    /\ bare \subseteq Reqs

Types == PcTypes /\ WriterTypes /\ OtherTypes

LEMMA StatusFacts ==
    /\ Statuses \subseteq Nat
    /\ 0 \notin Statuses
    /\ {OK, ClientClosed, InternalServerError, ServiceUnavailable} \subseteq Statuses
BY CodeAssumption DEF Statuses, OK, ClientClosed, InternalServerError, ServiceUnavailable

LEMMA InitTypes == Init => Types
<1> SUFFICES ASSUME Init PROVE Types
  OBVIOUS
<1>1. PcTypes
  BY DEF Init, PcTypes, Early
<1>2. WriterTypes
  BY StatusFacts DEF Init, WriterTypes, NewWriter, Writer, Answer
<1>3. OtherTypes
  BY DEF Init, OtherTypes
<1> QED
  BY <1>1, <1>2, <1>3 DEF Types

\* What the connection has after a header or a body.
LEMMA WireTypes ==
    ASSUME NEW x \in Answer,
           NEW c \in Statuses, NEW b \in SUBSET {"handler", "timeout"}
    PROVE  /\ WithHeader(x, c) \in Answer
           /\ WithHeader(x, c).status = IF x.status = 0 THEN c ELSE x.status
           /\ WithHeader(x, c).bodies = x.bodies
           /\ WithBody(x, b) \in Answer
           /\ WithBody(x, b).status = IF x.status = 0 THEN OK ELSE x.status
           /\ WithBody(x, b).bodies = x.bodies \cup b
BY StatusFacts DEF WithHeader, WithBody, Answer

\* What the handler's writer is after a header.
LEMMA HeaderTypes ==
    ASSUME NEW w \in Writer, NEW c \in Statuses
    PROVE  LET h == HeaderLocked(w, c) IN
           /\ h \in Writer
           /\ h.timedOut = w.timedOut
           /\ h.buffered = w.buffered
           /\ w.timedOut \/ h.wroteHeader
           /\ ~w.timedOut /\ ~w.wroteHeader => h.code = c
           /\ w.wroteHeader => h.code = w.code /\ h.wroteHeader
BY DEF HeaderLocked, Writer

LEMMA NextTypes == Types /\ [Next]_vars => Types'
<1> SUFFICES ASSUME Types, [Next]_vars PROVE Types'
  OBVIOUS
<1>0. CASE UNCHANGED vars
  BY <1>0 DEF vars, Types, PcTypes, WriterTypes, OtherTypes
<1>1. ASSUME NEW r \in Reqs, Serve(r) PROVE Types'
  <2>1. PcTypes'
    BY <1>1 DEF Types, PcTypes, Serve, TryBorrow, BreakerAllow, ShedderAllow, StartHandler,
       SelectDone, SelectPanic, SelectContext, TimedOut, ShedderEnd, BreakerEnd, LatchEnd,
       Goto, Early, Ending
  <2>2. OtherTypes'
    BY <1>1 DEF Types, OtherTypes, Serve, TryBorrow, BreakerAllow, ShedderAllow, StartHandler,
       SelectDone, SelectPanic, SelectContext, TimedOut, ShedderEnd, BreakerEnd, LatchEnd
  <2>3. ASSUME NEW c \in Statuses, WriteHeader(r, c)
        PROVE  /\ code' \in [Reqs -> Statuses]
               /\ wire' \in [Reqs -> Answer]
    BY <2>3, WireTypes DEF Types, WriterTypes, WriteHeader
  <2>4. WriterTypes'
    <3> USE DEF WriterTypes
    <3>1. CASE TryBorrow(r)
      BY <2>3, <3>1, StatusFacts DEF Types, TryBorrow
    <3>2. CASE BreakerAllow(r)
      BY <2>3, <3>2, StatusFacts DEF Types, BreakerAllow
    <3>3. CASE ShedderAllow(r)
      BY <2>3, <3>3, StatusFacts DEF Types, ShedderAllow
    <3>4. CASE StartHandler(r) \/ SelectPanic(r) \/ ShedderEnd(r) \/ BreakerEnd(r) \/ LatchEnd(r)
      BY <3>4 DEF Types, StartHandler, SelectPanic, ShedderEnd, BreakerEnd, LatchEnd
    <3>5. CASE SelectDone(r)
      <4> DEFINE body == IF tw[r].buffered THEN {"handler"} ELSE {}
                 head == IF tw[r].code # OK THEN WithHeader(wire[r], tw[r].code) ELSE wire[r]
      <4>1. tw[r].code \in Statuses /\ body \in SUBSET {"handler", "timeout"}
        BY DEF Types, Writer
      <4>2. head \in Answer
        BY <4>1, WireTypes DEF Types
      <4>3. WithBody(head, body) \in Answer
        BY <4>1, <4>2, WireTypes, StatusFacts
      <4>4. wire' = [wire EXCEPT ![r] = WithBody(head, body)]
        BY <3>5 DEF SelectDone
      <4>5. code' = [code EXCEPT ![r] = tw[r].code] \/ code' = code
        BY <3>5 DEF SelectDone
      <4> HIDE DEF body, head
      <4> QED
        BY <3>5, <4>1, <4>3, <4>4, <4>5 DEF Types, SelectDone
    <3>6. CASE SelectContext(r)
      <4>1. tw' = [tw EXCEPT ![r] = [@ EXCEPT !.locked = TRUE]]
        BY <3>6 DEF SelectContext
      <4>2. tw' \in [Reqs -> Writer]
        BY <4>1 DEF Types, Writer
      <4> QED
        BY <2>3, <3>6, <4>2, StatusFacts DEF Types, SelectContext
    <3>7. CASE TimedOut(r)
      <4>1. tw' = [tw EXCEPT ![r] = [@ EXCEPT !.timedOut = TRUE, !.locked = FALSE]]
        BY <3>7 DEF TimedOut, Types
      <4>2. tw' \in [Reqs -> Writer]
        BY <4>1 DEF Types, Writer
      <4>3. WithBody(wire[r], {"timeout"}) \in Answer
        BY WireTypes, StatusFacts DEF Types
      <4> QED
        BY <3>7, <4>2, <4>3 DEF Types, TimedOut
    <3> QED
      BY <1>1, <3>1, <3>2, <3>3, <3>4, <3>5, <3>6, <3>7 DEF Serve
  <2> QED
    BY <2>1, <2>2, <2>4 DEF Types
<1>2. ASSUME NEW r \in Reqs, Handle(r) PROVE Types'
  <2>1. PcTypes'
    BY <1>2 DEF Types, PcTypes, Handle, HandlerWrite, HandlerHeader, HandlerFlush,
       HandlerReturn, HandlerPanic, Recover
  <2>2. OtherTypes'
    BY <1>2 DEF Types, OtherTypes, Handle, HandlerWrite, HandlerHeader, HandlerFlush,
       HandlerReturn, HandlerPanic, Recover
  <2>3. WriterTypes'
    <3>1. ASSUME NEW c \in Statuses
          PROVE HeaderLocked(tw[r], c) \in Writer
      BY HeaderTypes DEF Types, WriterTypes
    <3>2. Codes \subseteq Statuses
      BY DEF Statuses
    <3>3. CASE HandlerWrite(r)
      <4>1. tw' = [tw EXCEPT ![r] = [HeaderLocked(tw[r], OK) EXCEPT !.buffered = TRUE]]
        BY <3>3 DEF HandlerWrite, Types, WriterTypes
      <4>2. [HeaderLocked(tw[r], OK) EXCEPT !.buffered = TRUE] \in Writer
        BY <3>1, StatusFacts DEF Writer
      <4> QED
        BY <3>3, <4>1, <4>2 DEF Types, WriterTypes, HandlerWrite
    <3>4. CASE HandlerFlush(r)
      <4>1. tw' = [tw EXCEPT ![r] = [tw[r] EXCEPT !.buffered = FALSE]]
        BY <3>4 DEF HandlerFlush, Types, WriterTypes
      <4>2. [tw[r] EXCEPT !.buffered = FALSE] \in Writer
        BY DEF Types, WriterTypes, Writer
      <4>3. WithBody(wire[r], IF tw[r].buffered THEN {"handler"} ELSE {}) \in Answer
        BY WireTypes, StatusFacts DEF Types, WriterTypes
      <4> QED
        BY <3>4, <4>1, <4>2, <4>3 DEF Types, WriterTypes, HandlerFlush
    <3>5. CASE HandlerReturn(r) \/ HandlerPanic(r)
      BY <3>5 DEF Types, WriterTypes, HandlerReturn, HandlerPanic
    <3>6. ASSUME NEW c \in Codes, HandlerHeader(r, c) PROVE WriterTypes'
      BY <3>1, <3>2, <3>6 DEF Types, WriterTypes, HandlerHeader
    <3>7. CASE Recover(r)
      BY <3>1, <3>7, StatusFacts DEF Types, WriterTypes, Recover
    <3> QED
      BY <1>2, <3>3, <3>4, <3>5, <3>6, <3>7 DEF Handle
  <2> QED
    BY <2>1, <2>2, <2>3 DEF Types
<1>3. ASSUME NEW r \in Reqs, Deadline(r) \/ ClientGone(r) PROVE Types'
  BY <1>3 DEF Deadline, ClientGone, Types, PcTypes, WriterTypes, OtherTypes
<1> QED
  BY <1>0, <1>1, <1>2, <1>3 DEF Next

-----------------------------------------------------------------------------
LEMMA InitCounts == Init => CountsExact
<1> SUFFICES ASSUME Init PROVE CountsExact
  OBVIOUS
<1>1. Borrowed = {} /\ InFlight = {}
  BY DEF Init, Borrowed, InFlight
<1> QED
  BY <1>1, FS_EmptySet DEF Init, CountsExact

LEMMA CountsFinite ==
    /\ IsFiniteSet(Borrowed) /\ Cardinality(Borrowed) \in Nat
    /\ IsFiniteSet(InFlight) /\ Cardinality(InFlight) \in Nat
<1>1. Borrowed \in SUBSET Reqs /\ InFlight \in SUBSET Reqs
  BY DEF Borrowed, InFlight
<1> QED
  BY <1>1, ReqAssumption, FS_Subset, FS_CardinalityType

\* The two sets change with the request that takes a step, and no other.
LEMMA SetsMove ==
    ASSUME Types, NEW r \in Reqs, NEW s \in Early \cup {"select", "answering"} \cup Ending, Goto(r, s)
    PROVE  /\ Borrowed' = IF s \in {"arriving", "done"} THEN Borrowed \ {r} ELSE Borrowed \cup {r}
           /\ InFlight' = IF s \in {"timeout", "select", "answering", "shedderEnd"}
                          THEN InFlight \cup {r} ELSE InFlight \ {r}
BY DEF Types, PcTypes, Goto, Borrowed, InFlight

LEMMA NextCounts == Types /\ CountsExact /\ [Next]_vars => CountsExact'
<1> SUFFICES ASSUME Types, CountsExact, [Next]_vars PROVE CountsExact'
  OBVIOUS
<1> USE DEF CountsExact
<1>0. ASSUME UNCHANGED <<latch, flying, pc>> PROVE CountsExact'
  BY <1>0 DEF Borrowed, InFlight
<1>1. ASSUME NEW r \in Reqs, Serve(r) PROVE CountsExact'
  <2>1. /\ r \in Borrowed <=> pc[r] \notin {"arriving", "done"}
        /\ r \in InFlight <=> pc[r] \in {"timeout", "select", "answering", "shedderEnd"}
    BY DEF Borrowed, InFlight
  <2>2. /\ Cardinality(Borrowed \cup {r}) = IF r \in Borrowed THEN latch ELSE latch + 1
        /\ Cardinality(Borrowed \ {r}) = IF r \in Borrowed THEN latch - 1 ELSE latch
        /\ Cardinality(InFlight \cup {r}) = IF r \in InFlight THEN flying ELSE flying + 1
        /\ Cardinality(InFlight \ {r}) = IF r \in InFlight THEN flying - 1 ELSE flying
        /\ latch \in Nat
        /\ flying \in Nat
    BY CountsFinite, FS_AddElement, FS_RemoveElement
  <2>3. r \in Borrowed => latch > 0
    <3>1. r \in Borrowed => Borrowed # {}
      OBVIOUS
    <3> QED
      BY <2>2, <3>1, CountsFinite, FS_EmptySet
  <2> USE DEF Early, Ending
  <2>4. CASE TryBorrow(r)
    BY <2>1, <2>2, <2>4, SetsMove DEF TryBorrow
  <2>5. CASE BreakerAllow(r)
    <3>1. /\ pc[r] = "breaker"
          /\ Goto(r, "shedding") \/ Goto(r, "latchEnd")
          /\ UNCHANGED <<latch, flying>>
      BY <2>5 DEF BreakerAllow
    <3>2. Borrowed' = Borrowed \cup {r} /\ InFlight' = InFlight \ {r}
      BY <3>1, SetsMove
    <3> QED
      BY <2>1, <2>2, <3>1, <3>2
  <2>6. CASE ShedderAllow(r)
    <3>1. pc[r] = "shedding"
      BY <2>6 DEF ShedderAllow
    <3>2. CASE flying' = flying + 1 /\ Goto(r, "timeout") /\ UNCHANGED latch
      <4>1. Borrowed' = Borrowed \cup {r} /\ InFlight' = InFlight \cup {r}
        BY <3>2, SetsMove
      <4> QED
        BY <2>1, <2>2, <3>1, <3>2, <4>1
    <3>3. CASE Goto(r, "breakerEnd") /\ UNCHANGED <<latch, flying>>
      <4>1. Borrowed' = Borrowed \cup {r} /\ InFlight' = InFlight \ {r}
        BY <3>3, SetsMove
      <4> QED
        BY <2>1, <2>2, <3>1, <3>3, <4>1
    <3> QED
      BY <2>6, <3>2, <3>3 DEF ShedderAllow
  <2>7. CASE StartHandler(r) \/ SelectDone(r) \/ SelectPanic(r) \/ SelectContext(r) \/ TimedOut(r)
    <3>1. /\ pc[r] \in {"timeout", "select", "answering"}
          /\ \E s \in {"select", "answering", "shedderEnd"} : Goto(r, s)
          /\ UNCHANGED <<latch, flying>>
      BY <2>7 DEF StartHandler, SelectDone, SelectPanic, SelectContext, TimedOut
    <3> QED
      BY <2>1, <2>2, <3>1, SetsMove
  <2>8. CASE ShedderEnd(r)
    BY <2>1, <2>2, <2>8, SetsMove DEF ShedderEnd
  <2>9. CASE BreakerEnd(r)
    <3>1. Borrowed' = Borrowed \cup {r} /\ InFlight' = InFlight \ {r}
      BY <2>9, SetsMove DEF BreakerEnd
    <3> QED
      BY <2>1, <2>2, <2>9, <3>1 DEF BreakerEnd
  <2>10. CASE LatchEnd(r)
    BY <2>1, <2>2, <2>3, <2>10, SetsMove DEF LatchEnd
  <2> QED
    BY <1>1, <2>4, <2>5, <2>6, <2>7, <2>8, <2>9, <2>10 DEF Serve
<1>2. ASSUME NEW r \in Reqs, Handle(r) \/ Deadline(r) \/ ClientGone(r) PROVE CountsExact'
  BY <1>0, <1>2 DEF Handle, HandlerWrite, HandlerHeader, HandlerFlush, HandlerReturn,
     HandlerPanic, Recover, Deadline, ClientGone
<1> QED
  BY <1>0, <1>1, <1>2 DEF Next, vars

\* The bound of the latch needs no count.
LEMMA NextLatch ==
    latch \in 0..MaxConns /\ [Next]_vars => latch' \in 0..MaxConns
<1> SUFFICES ASSUME latch \in 0..MaxConns, [Next]_vars PROVE latch' \in 0..MaxConns
  OBVIOUS
<1> USE MaxConnsAssumption
<1>1. ASSUME NEW r \in Reqs, Serve(r) PROVE latch' \in 0..MaxConns
  BY <1>1 DEF Serve, TryBorrow, BreakerAllow, ShedderAllow, StartHandler, SelectDone,
     SelectPanic, SelectContext, TimedOut, ShedderEnd, BreakerEnd, LatchEnd
<1>2. ASSUME NEW r \in Reqs, Handle(r) \/ Deadline(r) \/ ClientGone(r) PROVE latch' \in 0..MaxConns
  BY <1>2 DEF Handle, HandlerWrite, HandlerHeader, HandlerFlush, HandlerReturn,
     HandlerPanic, Recover, Deadline, ClientGone
<1> QED
  BY <1>1, <1>2 DEF Next, vars

-----------------------------------------------------------------------------
\* The status of a request that its context ended.
TimeoutStatus(r) == IF ctx[r] = "canceled" THEN ClientClosed ELSE ServiceUnavailable

\* What the connection got of a request whose handler has not flushed, and what
\* the middlewares take it for.
WireStory(r) ==
    r \notin flushed =>
        /\ code[r] = IF wire[r].status = 0 THEN OK ELSE wire[r].status
        /\ pc[r] \in Early \cup {"select"} => wire[r].status = 0 /\ wire[r].bodies = {}
        /\ pc[r] = "answering" => wire[r].status = TimeoutStatus(r) /\ wire[r].bodies = {}
        /\ r \in crashed => wire[r].status = 0
        /\ tw[r].timedOut => wire[r].status = TimeoutStatus(r) /\ wire[r].bodies = {"timeout"}
        /\ pc[r] \in Ending /\ hpc[r] # "none" /\ r \notin crashed /\ ~tw[r].timedOut =>
              /\ wire[r].bodies = IF tw[r].buffered THEN {"handler"} ELSE {}
              /\ wire[r].status = tw[r].code

\* Where the two goroutines of a request are.
PcStory(r) ==
    /\ pc[r] \in Early => hpc[r] = "none"
    /\ hpc[r] = "none" =>
          /\ pc[r] \notin {"select", "answering"}
          /\ r \notin flushed \cup crashed \cup bare
    /\ pc[r] = "answering" => ctx[r] # "live"
    /\ tw[r].timedOut => pc[r] \in Ending /\ hpc[r] # "none" /\ ctx[r] # "live"
    /\ r \in crashed => pc[r] \in Ending /\ hpc[r] = "panicked" /\ ~tw[r].timedOut
    /\ pc[r] \in Ending /\ hpc[r] # "none" /\ r \notin crashed /\ ~tw[r].timedOut =>
          hpc[r] = "returned"

\* The handler has panicked before it set a status.
BareStory(r) ==
    r \in bare =>
        /\ hpc[r] # "running"
        /\ hpc[r] = "recovering" => ~tw[r].wroteHeader
        /\ hpc[r] = "returned" => tw[r].timedOut \/ tw[r].code = InternalServerError

\* A promise is settled at its time, by the status the middlewares saw.
VerdictStory(r) ==
    LET v == verdict[r] IN
    /\ v.breaker # "none" =>
          /\ pc[r] \in {"latchEnd", "done"}
          /\ v.breaker = "accept" <=> code[r] < InternalServerError
    /\ v.shedder # "none" =>
          /\ pc[r] \in {"breakerEnd", "latchEnd", "done"}
          /\ v.shedder = "fail" <=> code[r] = ServiceUnavailable
    /\ r \in crashed /\ pc[r] # "shedderEnd" => v.shedder # "none"

RStory(r) == WireStory(r) /\ PcStory(r) /\ BareStory(r) /\ VerdictStory(r)

\* Nothing of request q changes.
Untouched(q) ==
    /\ pc'[q] = pc[q] /\ hpc'[q] = hpc[q] /\ ctx'[q] = ctx[q] /\ tw'[q] = tw[q]
    /\ code'[q] = code[q] /\ wire'[q] = wire[q] /\ verdict'[q] = verdict[q]
    /\ q \in flushed' <=> q \in flushed
    /\ q \in crashed' <=> q \in crashed
    /\ q \in bare' <=> q \in bare

LEMMA UntouchedKeeps ==
    ASSUME NEW q \in Reqs, RStory(q), Untouched(q)
    PROVE  RStory(q)'
BY DEF RStory, Untouched, WireStory, PcStory, BareStory, VerdictStory, TimeoutStatus

\* A step of one request leaves the others alone.
LEMMA OthersUntouched ==
    ASSUME Types, NEW r \in Reqs, Serve(r) \/ Handle(r) \/ Deadline(r) \/ ClientGone(r),
           NEW q \in Reqs \ {r}
    PROVE  Untouched(q)
<1> USE DEF Untouched, Types, PcTypes, WriterTypes, OtherTypes
<1>1. CASE TryBorrow(r) \/ BreakerAllow(r) \/ ShedderAllow(r)
  BY <1>1 DEF TryBorrow, BreakerAllow, ShedderAllow, Goto, WriteHeader
<1>2. CASE StartHandler(r) \/ SelectDone(r) \/ SelectPanic(r)
  BY <1>2 DEF StartHandler, SelectDone, SelectPanic, Goto
<1>3. CASE SelectContext(r) \/ TimedOut(r)
  BY <1>3 DEF SelectContext, TimedOut, Goto, WriteHeader
<1>4. CASE ShedderEnd(r) \/ BreakerEnd(r) \/ LatchEnd(r)
  BY <1>4 DEF ShedderEnd, BreakerEnd, LatchEnd, Goto
<1>5. CASE Handle(r)
  BY <1>5 DEF Handle, HandlerWrite, HandlerHeader, HandlerFlush, HandlerReturn, HandlerPanic,
     Recover
<1>6. CASE Deadline(r) \/ ClientGone(r)
  BY <1>6 DEF Deadline, ClientGone
<1> QED
  BY <1>1, <1>2, <1>3, <1>4, <1>5, <1>6 DEF Serve

LEMMA InitStory == Init => \A r \in Reqs : RStory(r)
BY DEF Init, RStory, WireStory, PcStory, BareStory, VerdictStory, Early, Ending, NewWriter

\* A status written by a middleware to a connection that has none.
LEMMA HeaderStory ==
    ASSUME Types, NEW r \in Reqs, NEW c \in Statuses, WriteHeader(r, c), wire[r].status = 0
    PROVE  wire'[r].status = c /\ wire'[r].bodies = wire[r].bodies /\ code'[r] = c
<1>1. wire[r] \in Answer /\ {} \in SUBSET {"handler", "timeout"}
  BY DEF Types, WriterTypes
<1>2. wire'[r] = WithHeader(wire[r], c) /\ code'[r] = c
  BY DEF WriteHeader, Types, WriterTypes
<1>3. /\ WithHeader(wire[r], c).status = IF wire[r].status = 0 THEN c ELSE wire[r].status
      /\ WithHeader(wire[r], c).bodies = wire[r].bodies
  BY <1>1, WireTypes
<1> QED
  BY <1>2, <1>3

\* The way in: a request goes on, or is dropped with 503.
LEMMA AllowStory ==
    ASSUME Types, NEW r \in Reqs, RStory(r), TryBorrow(r) \/ BreakerAllow(r) \/ ShedderAllow(r)
    PROVE  RStory(r)'
<1>1. /\ pc[r] \in Early \ {"timeout"}
      /\ UNCHANGED <<hpc, ctx, tw, verdict, flushed, crashed, bare>>
      /\ \/ /\ pc'[r] \in Early
            /\ UNCHANGED <<wire, code>>
         \/ /\ pc'[r] \in {"breakerEnd", "latchEnd", "done"}
            /\ WriteHeader(r, ServiceUnavailable)
  BY DEF TryBorrow, BreakerAllow, ShedderAllow, Goto, Types, PcTypes, Early
<1>2. hpc[r] = "none" /\ r \notin flushed \cup crashed \cup bare /\ ~tw[r].timedOut
  BY <1>1 DEF RStory, PcStory, Early, Ending
<1>3. wire[r].status = 0 /\ wire[r].bodies = {} /\ code[r] = OK
  BY <1>1, <1>2 DEF RStory, WireStory
<1>4. verdict[r].breaker = "none" /\ verdict[r].shedder = "none"
  BY <1>1 DEF RStory, VerdictStory, Early
<1>5. \/ wire'[r].status = 0 /\ wire'[r].bodies = {} /\ code'[r] = OK /\ pc'[r] \in Early
      \/ /\ wire'[r].status = ServiceUnavailable /\ code'[r] = ServiceUnavailable
         /\ pc'[r] \in {"breakerEnd", "latchEnd", "done"}
  BY <1>1, <1>3, HeaderStory, StatusFacts
<1> QED
  BY <1>1, <1>2, <1>4, <1>5, StatusFacts
     DEF RStory, WireStory, PcStory, BareStory, VerdictStory, Early, Ending, ServiceUnavailable

LEMMA StartStory ==
    ASSUME Types, NEW r \in Reqs, RStory(r), StartHandler(r)
    PROVE  RStory(r)'
<1>1. /\ pc[r] = "timeout" /\ pc'[r] = "select" /\ hpc'[r] = "running"
      /\ UNCHANGED <<ctx, tw, verdict, flushed, crashed, bare, wire, code>>
  BY DEF StartHandler, Goto, Types, PcTypes
<1> QED
  BY <1>1 DEF RStory, WireStory, PcStory, BareStory, VerdictStory, Early, Ending

\* The answer is the handler's.
LEMMA DoneStory ==
    ASSUME Types, NEW r \in Reqs, RStory(r), SelectDone(r)
    PROVE  RStory(r)'
<1> DEFINE body == IF tw[r].buffered THEN {"handler"} ELSE {}
           head == IF tw[r].code # OK THEN WithHeader(wire[r], tw[r].code) ELSE wire[r]
<1>1. /\ pc[r] = "select" /\ pc'[r] = "shedderEnd" /\ hpc[r] = "returned"
      /\ UNCHANGED <<hpc, ctx, tw, verdict, flushed, crashed, bare>>
      /\ wire'[r] = WithBody(head, body)
      /\ code'[r] = IF tw[r].code # OK THEN tw[r].code ELSE code[r]
  BY DEF SelectDone, Goto, Types, PcTypes, WriterTypes
<1>2. tw[r] \in Writer /\ wire[r] \in Answer /\ body \in SUBSET {"handler", "timeout"}
  BY DEF Types, WriterTypes
<1>3. tw[r].code \in Statuses
  BY <1>2 DEF Writer
<1>4. ASSUME r \notin flushed
      PROVE  wire'[r].status = tw[r].code /\ wire'[r].bodies = body /\ code'[r] = tw[r].code
  <2>1. wire[r].status = 0 /\ wire[r].bodies = {} /\ code[r] = OK
    BY <1>1, <1>4 DEF RStory, WireStory
  <2>2. head \in Answer /\ head.bodies = {} /\ head.status = IF tw[r].code # OK THEN tw[r].code ELSE 0
    BY <1>2, <1>3, <2>1, WireTypes
  <2>3. WithBody(head, body).status = tw[r].code /\ WithBody(head, body).bodies = body
    <3> HIDE DEF head, body
    <3>1. /\ WithBody(head, body).status = IF head.status = 0 THEN OK ELSE head.status
          /\ WithBody(head, body).bodies = head.bodies \cup body
      BY <1>2, <1>3, <2>2, WireTypes
    <3> QED
      BY <1>3, <2>2, <3>1, StatusFacts
  <2> QED
    BY <1>1, <2>1, <2>3
<1>5. wire'[r].status = tw[r].code /\ code'[r] = tw[r].code /\ r \notin flushed => tw[r].code # 0
  BY <1>3, StatusFacts
<1>6. r \notin crashed /\ ~tw[r].timedOut
  BY <1>1 DEF RStory, PcStory, Ending
<1> HIDE DEF head
<1>7. WireStory(r)'
  BY <1>1, <1>3, <1>4, <1>6, StatusFacts DEF WireStory, Early, Ending
<1>8. PcStory(r)' /\ BareStory(r)'
  BY <1>1, <1>6 DEF RStory, PcStory, BareStory, Early, Ending
<1>9. VerdictStory(r)'
  BY <1>1, <1>6 DEF RStory, VerdictStory
<1> QED
  BY <1>7, <1>8, <1>9 DEF RStory

LEMMA PanicStory ==
    ASSUME Types, NEW r \in Reqs, RStory(r), SelectPanic(r)
    PROVE  RStory(r)'
<1>1. /\ pc[r] = "select" /\ pc'[r] = "shedderEnd" /\ hpc[r] = "panicked"
      /\ r \in crashed'
      /\ UNCHANGED <<hpc, ctx, tw, verdict, flushed, bare, wire, code>>
  BY DEF SelectPanic, Goto, Types, PcTypes
<1> QED
  BY <1>1 DEF RStory, WireStory, PcStory, BareStory, VerdictStory, Early, Ending

\* The answer is the timeout's: its status, then its body.
LEMMA ContextStory ==
    ASSUME Types, NEW r \in Reqs, RStory(r), SelectContext(r)
    PROVE  RStory(r)'
<1>1. /\ pc[r] = "select" /\ pc'[r] = "answering" /\ ctx[r] # "live"
      /\ WriteHeader(r, TimeoutStatus(r))
      /\ tw' = [tw EXCEPT ![r] = [tw[r] EXCEPT !.locked = TRUE]]
      /\ UNCHANGED <<hpc, ctx, verdict, flushed, crashed, bare>>
  BY DEF SelectContext, Goto, Types, PcTypes, WriterTypes, TimeoutStatus
<1>2. TimeoutStatus(r) \in Statuses
  BY StatusFacts DEF TimeoutStatus
<1>3. /\ tw'[r].timedOut = tw[r].timedOut /\ tw'[r].wroteHeader = tw[r].wroteHeader
      /\ tw'[r].code = tw[r].code /\ tw'[r].buffered = tw[r].buffered
  BY <1>1 DEF Types, WriterTypes, Writer
<1>4. r \notin crashed /\ ~tw[r].timedOut /\ hpc[r] # "none"
  BY <1>1 DEF RStory, PcStory, Ending
<1>5. r \notin flushed =>
         wire'[r].status = TimeoutStatus(r) /\ wire'[r].bodies = {} /\ code'[r] = TimeoutStatus(r)
  BY <1>1, <1>2, HeaderStory DEF RStory, WireStory
<1>6. WireStory(r)'
  BY <1>1, <1>2, <1>3, <1>4, <1>5, StatusFacts DEF WireStory, TimeoutStatus, Early, Ending
<1>7. PcStory(r)' /\ BareStory(r)'
  BY <1>1, <1>3, <1>4 DEF RStory, PcStory, BareStory, Early, Ending
<1>8. VerdictStory(r)'
  BY <1>1, <1>4 DEF RStory, VerdictStory
<1> QED
  BY <1>6, <1>7, <1>8 DEF RStory

LEMMA TimedOutStory ==
    ASSUME Types, NEW r \in Reqs, RStory(r), TimedOut(r)
    PROVE  RStory(r)'
<1>1. /\ pc[r] = "answering" /\ pc'[r] = "shedderEnd"
      /\ wire'[r] = WithBody(wire[r], {"timeout"})
      /\ tw' = [tw EXCEPT ![r] = [tw[r] EXCEPT !.timedOut = TRUE, !.locked = FALSE]]
      /\ UNCHANGED <<hpc, ctx, code, verdict, flushed, crashed, bare>>
  BY DEF TimedOut, Goto, Types, PcTypes, WriterTypes
<1>2. /\ tw'[r].timedOut /\ tw'[r].wroteHeader = tw[r].wroteHeader
      /\ tw'[r].code = tw[r].code /\ tw'[r].buffered = tw[r].buffered
  BY <1>1 DEF Types, WriterTypes, Writer
<1>3. TimeoutStatus(r) \in Statuses /\ wire[r] \in Answer
  BY StatusFacts DEF TimeoutStatus, Types, WriterTypes
<1>4. r \notin crashed /\ hpc[r] # "none" /\ ctx[r] # "live"
  BY <1>1 DEF RStory, PcStory, Ending
<1>5. r \notin flushed => wire'[r].status = TimeoutStatus(r) /\ wire'[r].bodies = {"timeout"}
  <2>1. r \notin flushed => wire[r].status = TimeoutStatus(r) /\ wire[r].bodies = {}
    BY <1>1 DEF RStory, WireStory
  <2>2. /\ wire'[r].status = IF wire[r].status = 0 THEN OK ELSE wire[r].status
        /\ wire'[r].bodies = wire[r].bodies \cup {"timeout"}
    BY <1>1, <1>3, WireTypes, StatusFacts
  <2> QED
    BY <1>3, <2>1, <2>2, StatusFacts
<1>6. WireStory(r)'
  BY <1>1, <1>2, <1>3, <1>4, <1>5, StatusFacts DEF RStory, WireStory, TimeoutStatus, Early, Ending
<1>7. PcStory(r)' /\ BareStory(r)'
  BY <1>1, <1>2, <1>4 DEF RStory, PcStory, BareStory, Early, Ending
<1>8. VerdictStory(r)'
  BY <1>1, <1>4 DEF RStory, VerdictStory
<1> QED
  BY <1>6, <1>7, <1>8 DEF RStory

\* The way out: the promises are settled and the latch is returned.
LEMMA EndStory ==
    ASSUME Types, NEW r \in Reqs, RStory(r), ShedderEnd(r) \/ BreakerEnd(r) \/ LatchEnd(r)
    PROVE  RStory(r)'
<1>1. /\ pc[r] \in Ending /\ pc'[r] \in Ending
      /\ UNCHANGED <<hpc, ctx, tw, code, wire, flushed, crashed, bare>>
  BY DEF ShedderEnd, BreakerEnd, LatchEnd, Goto, Types, PcTypes, Ending
<1>2. WireStory(r)' /\ PcStory(r)' /\ BareStory(r)'
  BY <1>1 DEF RStory, WireStory, PcStory, BareStory, TimeoutStatus, Early, Ending
<1>3. verdict[r] \in [breaker : {"none", "accept", "reject"}, shedder : {"none", "fail", "pass"}]
  BY DEF Types, OtherTypes
<1>4. CASE ShedderEnd(r)
  <2>1. /\ pc[r] = "shedderEnd" /\ pc'[r] = "breakerEnd"
        /\ verdict'[r] = [verdict[r] EXCEPT
              !.shedder = IF code[r] = ServiceUnavailable THEN "fail" ELSE "pass"]
    BY <1>4 DEF ShedderEnd, Goto, Types, PcTypes, OtherTypes
  <2> QED
    BY <1>1, <1>2, <1>3, <2>1 DEF RStory, VerdictStory
<1>5. CASE BreakerEnd(r)
  <2>1. /\ pc[r] = "breakerEnd" /\ pc'[r] = "latchEnd"
        /\ verdict'[r] = [verdict[r] EXCEPT
              !.breaker = IF code[r] < InternalServerError THEN "accept" ELSE "reject"]
    BY <1>5 DEF BreakerEnd, Goto, Types, PcTypes, OtherTypes
  <2> QED
    BY <1>1, <1>2, <1>3, <2>1 DEF RStory, VerdictStory
<1>6. CASE LatchEnd(r)
  <2>1. pc[r] = "latchEnd" /\ pc'[r] = "done" /\ UNCHANGED verdict
    BY <1>6 DEF LatchEnd, Goto, Types, PcTypes
  <2> QED
    BY <1>1, <1>2, <2>1 DEF RStory, VerdictStory
<1> QED
  BY <1>4, <1>5, <1>6

\* The handler's own steps, and the end of the context.
LEMMA HandlerStory ==
    ASSUME Types, NEW r \in Reqs, RStory(r), Handle(r)
    PROVE  RStory(r)'
<1>0. tw[r] \in Writer
  BY DEF Types, WriterTypes
<1>1. hpc[r] \in {"running", "recovering"} /\ UNCHANGED <<pc, ctx, code, verdict, crashed>>
  BY DEF Handle, HandlerWrite, HandlerHeader, HandlerFlush, HandlerReturn, HandlerPanic, Recover
<1>2. r \notin crashed /\ (pc[r] \in Ending => tw[r].timedOut) /\ pc[r] \notin Early
  BY <1>1 DEF RStory, PcStory, Early, Ending
<1>3. VerdictStory(r)'
  BY <1>1 DEF RStory, VerdictStory
<1>4. ASSUME UNCHANGED <<wire, flushed, bare>>, tw'[r] \in Writer, tw'[r].timedOut = tw[r].timedOut,
             hpc'[r] # "none", hpc[r] = "running", hpc'[r] \notin {"recovering", "returned"}
      PROVE  RStory(r)'
  BY <1>1, <1>2, <1>3, <1>4
     DEF RStory, WireStory, PcStory, BareStory, TimeoutStatus, Early, Ending
<1>5. CASE HandlerWrite(r)
  <2>1. HeaderLocked(tw[r], OK) \in Writer /\ HeaderLocked(tw[r], OK).timedOut = tw[r].timedOut
    BY <1>0, HeaderTypes, StatusFacts
  <2>2. tw'[r] = [HeaderLocked(tw[r], OK) EXCEPT !.buffered = TRUE]
    BY <1>5 DEF HandlerWrite, Types, WriterTypes
  <2>3. tw'[r] \in Writer /\ tw'[r].timedOut = tw[r].timedOut
    BY <2>1, <2>2 DEF Writer
  <2>4. hpc[r] = "running" /\ UNCHANGED <<wire, flushed, bare, hpc>>
    BY <1>5 DEF HandlerWrite
  <2> QED
    BY <1>4, <2>3, <2>4
<1>6. ASSUME NEW c \in Codes, HandlerHeader(r, c) PROVE RStory(r)'
  <2>1. c \in Statuses
    BY DEF Statuses
  <2>2. tw'[r] = HeaderLocked(tw[r], c)
    BY <1>6 DEF HandlerHeader, Types, WriterTypes
  <2> QED
    BY <1>0, <1>4, <1>6, <2>1, <2>2, HeaderTypes DEF HandlerHeader
<1>7. CASE HandlerFlush(r)
  <2>1. /\ r \in flushed' /\ hpc[r] = "running" /\ UNCHANGED <<hpc, bare>>
        /\ tw'[r] = [tw[r] EXCEPT !.buffered = FALSE]
    BY <1>7 DEF HandlerFlush, Types, WriterTypes
  <2>2. tw'[r].timedOut = tw[r].timedOut
    BY <1>0, <2>1 DEF Writer
  <2> QED
    BY <1>1, <1>2, <1>3, <2>1, <2>2 DEF RStory, WireStory, PcStory, BareStory, Early, Ending
<1>8. CASE HandlerReturn(r)
  <2>1. hpc[r] = "running" /\ hpc'[r] = "returned" /\ UNCHANGED <<tw, wire, flushed, bare>>
    BY <1>8 DEF HandlerReturn, Types, PcTypes
  <2> QED
    BY <1>1, <1>2, <1>3, <2>1
       DEF RStory, WireStory, PcStory, BareStory, TimeoutStatus, Early, Ending
<1>9. CASE HandlerPanic(r)
  <2>1. /\ hpc[r] = "running" /\ hpc'[r] \in {"recovering", "panicked"}
        /\ r \in bare' => ~tw[r].wroteHeader \/ r \in bare
        /\ UNCHANGED <<tw, wire, flushed>>
    BY <1>9 DEF HandlerPanic, Types, PcTypes
  <2> QED
    BY <1>1, <1>2, <1>3, <2>1
       DEF RStory, WireStory, PcStory, BareStory, TimeoutStatus, Early, Ending
<1>10. CASE Recover(r)
  <2>1. /\ hpc[r] = "recovering" /\ hpc'[r] = "returned"
        /\ tw'[r] = HeaderLocked(tw[r], InternalServerError)
        /\ UNCHANGED <<wire, flushed, bare>>
    BY <1>10 DEF Recover, Types, PcTypes, WriterTypes
  <2>2. /\ tw'[r].timedOut = tw[r].timedOut
        /\ ~tw[r].timedOut /\ ~tw[r].wroteHeader => tw'[r].code = InternalServerError
    <3>1. InternalServerError \in Statuses
      BY StatusFacts
    <3> QED
      BY <1>0, <2>1, <3>1, HeaderTypes
  <2> QED
    BY <1>1, <1>2, <1>3, <2>1, <2>2
       DEF RStory, WireStory, PcStory, BareStory, TimeoutStatus, Early, Ending
<1> QED
  BY <1>5, <1>6, <1>7, <1>8, <1>9, <1>10 DEF Handle

LEMMA ContextEndStory ==
    ASSUME Types, NEW r \in Reqs, RStory(r), Deadline(r) \/ ClientGone(r)
    PROVE  RStory(r)'
<1>1. /\ ctx[r] = "live" /\ ctx'[r] # "live"
      /\ UNCHANGED <<pc, hpc, tw, code, wire, verdict, flushed, crashed, bare>>
  BY DEF Deadline, ClientGone, Types, WriterTypes
<1> QED
  BY <1>1 DEF RStory, WireStory, PcStory, BareStory, VerdictStory

LEMMA NextStory ==
    Types /\ (\A r \in Reqs : RStory(r)) /\ [Next]_vars => (\A r \in Reqs : RStory(r))'
<1> SUFFICES ASSUME Types, \A r \in Reqs : RStory(r), [Next]_vars, NEW q \in Reqs
             PROVE  RStory(q)'
  OBVIOUS
<1>1. CASE UNCHANGED vars
  BY <1>1, UntouchedKeeps DEF vars, Untouched
<1>2. ASSUME NEW r \in Reqs, Serve(r) \/ Handle(r) \/ Deadline(r) \/ ClientGone(r)
      PROVE  RStory(q)'
  <2>1. CASE q # r
    BY <1>2, <2>1, OthersUntouched, UntouchedKeeps
  <2>2. CASE q = r
    <3>1. CASE Serve(r)
      BY <2>2, <3>1, AllowStory, StartStory, DoneStory, PanicStory, ContextStory, TimedOutStory,
         EndStory DEF Serve
    <3> QED
      BY <1>2, <2>2, <3>1, HandlerStory, ContextEndStory
  <2> QED
    BY <2>1, <2>2
<1> QED
  BY <1>1, <1>2 DEF Next

-----------------------------------------------------------------------------
\* The inductive invariant.
IInv == Types /\ latch \in 0..MaxConns /\ CountsExact /\ \A r \in Reqs : RStory(r)

LEMMA InitInv == Init => IInv
<1> SUFFICES ASSUME Init PROVE IInv
  OBVIOUS
<1>1. latch \in 0..MaxConns
  BY MaxConnsAssumption DEF Init
<1> QED
  BY <1>1, InitTypes, InitCounts, InitStory DEF IInv

LEMMA NextInv == IInv /\ [Next]_vars => IInv'
BY NextTypes, NextCounts, NextLatch, NextStory DEF IInv

LEMMA InvTypes == IInv => TypeOK
<1> SUFFICES ASSUME IInv PROVE TypeOK
  OBVIOUS
<1>1. flying \in Nat
  BY CountsFinite DEF IInv, CountsExact
<1>2. pc \in [Reqs -> {"arriving", "breaker", "shedding", "timeout", "select", "answering",
                      "shedderEnd", "breakerEnd", "latchEnd", "done"}]
  BY DEF IInv, Types, PcTypes, Early, Ending
<1> QED
  BY <1>1, <1>2 DEF IInv, Types, PcTypes, WriterTypes, OtherTypes, Writer, Answer, TypeOK

\* What the middlewares took for the status is what the client got.
LEMMA InvVerdict == IInv => VerdictMatches
<1> SUFFICES ASSUME IInv, NEW r \in Reqs, verdict[r].breaker # "none", r \notin flushed
             PROVE  IF r \in crashed
                    THEN verdict[r] = [breaker |-> "accept", shedder |-> "pass"] /\ wire[r].status = 0
                    ELSE /\ verdict[r].breaker = "accept" <=> wire[r].status < InternalServerError
                         /\ verdict[r].shedder # "none" =>
                               (verdict[r].shedder = "fail" <=> wire[r].status = ServiceUnavailable)
  BY DEF VerdictMatches
<1>1. verdict[r] \in [breaker : {"none", "accept", "reject"}, shedder : {"none", "fail", "pass"}]
  BY DEF IInv, Types, OtherTypes
<1>2. /\ pc[r] \in {"latchEnd", "done"}
      /\ verdict[r].breaker = "accept" <=> code[r] < InternalServerError
      /\ verdict[r].shedder # "none" =>
            (verdict[r].shedder = "fail" <=> code[r] = ServiceUnavailable)
      /\ r \in crashed => verdict[r].shedder # "none"
  BY DEF IInv, RStory, VerdictStory
<1>3. /\ code[r] = IF wire[r].status = 0 THEN OK ELSE wire[r].status
      /\ r \in crashed => wire[r].status = 0
  BY DEF IInv, RStory, WireStory
<1>4. CASE r \in crashed
  BY <1>1, <1>2, <1>3, <1>4 DEF OK, InternalServerError, ServiceUnavailable
<1>5. CASE r \notin crashed
  BY <1>1, <1>2, <1>3, <1>5 DEF OK, InternalServerError, ServiceUnavailable
<1> QED
  BY <1>4, <1>5

LEMMA InvAnswer == IInv => AnswerHonest
BY DEF IInv, RStory, WireStory, PcStory, BareStory, AnswerHonest, TimeoutStatus, Ending

-----------------------------------------------------------------------------
\* Every variable has its type, and no more than MaxConns requests are let
\* through by Limit.TryBorrow, whatever the requests and their handlers do.
THEOREM RestTypes == Spec => []TypeOK
<1>1. Spec => []IInv
  BY InitInv, NextInv, PTL DEF Spec
<1> QED
  BY <1>1, InvTypes, PTL

\* The latch of MaxConns and the shedder's flying count are exact: every way
\* out of the middlewares (drop, answer, timeout, panic) gives back what was
\* taken, so neither count leaks.
THEOREM RestCounts == Spec => []CountsExact
<1>1. Spec => []IInv
  BY InitInv, NextInv, PTL DEF Spec
<1>2. IInv => CountsExact
  BY DEF IInv
<1> QED
  BY <1>1, <1>2, PTL

\* Breaker and shedder settle their promises by the status the client got,
\* unless the handler flushed; a panic that nothing recovers is a success.
THEOREM RestVerdicts == Spec => []VerdictMatches
<1>1. Spec => []IInv
  BY InitInv, NextInv, PTL DEF Spec
<1> QED
  BY <1>1, InvVerdict, PTL

\* A client whose handler does not flush gets one answer, the handler's or the
\* timeout's, never a mixture of both.
THEOREM RestAnswers == Spec => []AnswerHonest
<1>1. Spec => []IInv
  BY InitInv, NextInv, PTL DEF Spec
<1> QED
  BY <1>1, InvAnswer, PTL
=============================================================================
