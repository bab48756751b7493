------------------------------ MODULE RestChain ------------------------------
(***************************************************************************)
(* The way of requests for one route through the middlewares that          *)
(* rest/engine.go puts around a handler: MaxConns, Breaker, Shedding,      *)
(* Timeout and Recover, in this order.                                     *)
(*                                                                         *)
(* Timeout runs the handler in a goroutine of its own, with a buffering    *)
(* writer, and answers by itself when the context ends first; the handler  *)
(* goes on.  The handler is the user's: it writes, sets a status, flushes, *)
(* panics, returns or does none of these for ever.  Whether breaker and    *)
(* shedder drop a request is left open, their statistics are not modelled. *)
(* The connection (net/http) is external: the first status counts.  The    *)
(* error handler of httpx is the default one.                              *)
(***************************************************************************)
EXTENDS Integers, FiniteSets

CONSTANTS
    Reqs,       \* the requests
    MaxConns,   \* the n of MaxConnsHandler
    Codes       \* the statuses a handler may set

ASSUME CodeAssumption == Codes \subseteq 100..599
ASSUME MaxConnsAssumption == MaxConns \in Nat \ {0}
ASSUME ReqAssumption == IsFiniteSet(Reqs)

VARIABLES
    recovers,   \* is the Recover middleware configured?
    latch,      \* elements borrowed from the latch of MaxConns
    flying,     \* as.flying of the shedder
    pc,         \* where the goroutine that serves each request is
    hpc,        \* where the goroutine of each request's handler is
    ctx,        \* how the context of each request ended, if it has
    tw,         \* the timeoutWriter of each request
    code,       \* Code of the WithCodeResponseWriter all middlewares share
    wire,       \* what the client gets: status (0: none), bodies, cut off
    verdict,    \* the promises of breaker and shedder: how each was settled
    flushed,    \* history: the handler has flushed
    crashed,    \* history: the handler's panic was not recovered
    bare        \* history: it panicked before a status was set

vars == <<recovers, latch, flying, pc, hpc, ctx, tw, code, wire, verdict, flushed, crashed,
          bare>>

counters == <<latch, flying>>
history  == <<flushed, crashed, bare>>

OK                  == 200
ClientClosed        == 499
InternalServerError == 500
ServiceUnavailable  == 503

NewWriter == [locked |-> FALSE, timedOut |-> FALSE, wroteHeader |-> FALSE,
              code |-> OK, buffered |-> FALSE]

Init ==
    /\ recovers \in BOOLEAN
    /\ latch = 0
    /\ flying = 0
    /\ pc = [r \in Reqs |-> "arriving"]
    /\ hpc = [r \in Reqs |-> "none"]
    /\ ctx = [r \in Reqs |-> "live"]
    /\ tw = [r \in Reqs |-> NewWriter]
    /\ code = [r \in Reqs |-> OK]
    /\ wire = [r \in Reqs |-> [status |-> 0, bodies |-> {}]]
    /\ verdict = [r \in Reqs |-> [breaker |-> "none", shedder |-> "none"]]
    /\ flushed = {}
    /\ crashed = {}
    /\ bare = {}

-----------------------------------------------------------------------------
\* The connection: a header is written, a body is written.  A body without
\* header has status 200; of several headers the first counts.
WithHeader(x, c) == IF x.status = 0 THEN [x EXCEPT !.status = c] ELSE x
WithBody(x, b)   == [WithHeader(x, OK) EXCEPT !.bodies = @ \cup b]

\* WithCodeResponseWriter.WriteHeader: the last status is remembered.
WriteHeader(r, c) ==
    /\ wire' = [wire EXCEPT ![r] = WithHeader(@, c)]
    /\ code' = [code EXCEPT ![r] = c]

Goto(r, s) == pc' = [pc EXCEPT ![r] = s]

-----------------------------------------------------------------------------
\* Mutant: one connection more than allowed.
TryBorrowOneMore(r) ==
    /\ pc[r] = "arriving"
    /\ IF latch <= MaxConns
       THEN latch' = latch + 1 /\ Goto(r, "breaker") /\ UNCHANGED <<wire, code>>
       ELSE WriteHeader(r, ServiceUnavailable) /\ Goto(r, "done") /\ UNCHANGED latch
    /\ UNCHANGED <<recovers, flying, hpc, ctx, tw, verdict, history>>

\* MaxConnsHandler, Limit.TryBorrow.
TryBorrow(r) ==
    /\ pc[r] = "arriving"
    /\ IF latch < MaxConns
       THEN latch' = latch + 1 /\ Goto(r, "breaker") /\ UNCHANGED <<wire, code>>
       ELSE WriteHeader(r, ServiceUnavailable) /\ Goto(r, "done") /\ UNCHANGED latch
    /\ UNCHANGED <<recovers, flying, hpc, ctx, tw, verdict, history>>

\* Mutant: a dropped request does not return to MaxConns.
BreakerAllowForgets(r) ==
    /\ pc[r] = "breaker"
    /\ \/ Goto(r, "shedding") /\ UNCHANGED <<wire, code>>
       \/ WriteHeader(r, ServiceUnavailable) /\ Goto(r, "done")
    /\ UNCHANGED <<recovers, counters, hpc, ctx, tw, verdict, history>>

\* BreakerHandler, brk.Allow: a dropped request has no promise.
BreakerAllow(r) ==
    /\ pc[r] = "breaker"
    /\ \/ Goto(r, "shedding") /\ UNCHANGED <<wire, code>>
       \/ WriteHeader(r, ServiceUnavailable) /\ Goto(r, "latchEnd")
    /\ UNCHANGED <<recovers, counters, hpc, ctx, tw, verdict, history>>

\* SheddingHandler, shedder.Allow: a dropped request is a failure to the breaker.
ShedderAllow(r) ==
    /\ pc[r] = "shedding"
    /\ \/ flying' = flying + 1 /\ Goto(r, "timeout") /\ UNCHANGED <<wire, code>>
       \/ WriteHeader(r, ServiceUnavailable) /\ Goto(r, "breakerEnd") /\ UNCHANGED flying
    /\ UNCHANGED <<recovers, latch, hpc, ctx, tw, verdict, history>>

\* timeoutHandler.ServeHTTP: the handler is started.
StartHandler(r) ==
    /\ pc[r] = "timeout"
    /\ Goto(r, "select")
    /\ hpc' = [hpc EXCEPT ![r] = "running"]
    /\ UNCHANGED <<recovers, counters, ctx, tw, code, wire, verdict, history>>

\* ServeHTTP, case <-done: what is buffered is the answer.
SelectDone(r) ==
    LET body == IF tw[r].buffered THEN {"handler"} ELSE {}
        head == IF tw[r].code # OK THEN WithHeader(wire[r], tw[r].code) ELSE wire[r]
    IN /\ pc[r] = "select"
       /\ hpc[r] = "returned"
       /\ wire' = [wire EXCEPT ![r] = WithBody(head, body)]
       /\ code' = IF tw[r].code # OK THEN [code EXCEPT ![r] = tw[r].code] ELSE code
       /\ Goto(r, "shedderEnd")
       /\ UNCHANGED <<recovers, counters, hpc, ctx, tw, verdict, history>>

\* ServeHTTP, case p := <-panicChan: the panic goes on in this goroutine and
\* through the deferred functions of the middlewares.
SelectPanic(r) ==
    /\ pc[r] = "select"
    /\ hpc[r] = "panicked"
    /\ Goto(r, "shedderEnd")
    /\ crashed' = crashed \cup {r}
    /\ UNCHANGED <<recovers, counters, hpc, ctx, tw, code, wire, verdict, flushed, bare>>

\* Mutant: the handler is waited for.
SelectContextWaits(r) ==
    /\ pc[r] = "select"
    /\ ctx[r] # "live"
    /\ hpc[r] # "running"
    /\ tw' = [tw EXCEPT ![r].locked = TRUE]
    /\ WriteHeader(r, IF ctx[r] = "canceled" THEN ClientClosed ELSE ServiceUnavailable)
    /\ Goto(r, "answering")
    /\ UNCHANGED <<recovers, counters, hpc, ctx, verdict, history>>

\* ServeHTTP, case <-ctx.Done(): 499 or 503, under tw.mu.
SelectContext(r) ==
    /\ pc[r] = "select"
    /\ ctx[r] # "live"
    /\ tw' = [tw EXCEPT ![r].locked = TRUE]
    /\ WriteHeader(r, IF ctx[r] = "canceled" THEN ClientClosed ELSE ServiceUnavailable)
    /\ Goto(r, "answering")
    /\ UNCHANGED <<recovers, counters, hpc, ctx, verdict, history>>

\* ServeHTTP, case <-ctx.Done(): the body, timedOut, and the unlock.
TimedOut(r) ==
    /\ pc[r] = "answering"
    /\ wire' = [wire EXCEPT ![r] = WithBody(@, {"timeout"})]
    /\ tw' = [tw EXCEPT ![r].timedOut = TRUE, ![r].locked = FALSE]
    /\ Goto(r, "shedderEnd")
    /\ UNCHANGED <<recovers, counters, hpc, ctx, code, verdict, history>>

\* SheddingHandler, the deferred function: promise.Fail or Pass.
ShedderEnd(r) ==
    /\ pc[r] = "shedderEnd"
    /\ flying' = flying - 1
    /\ verdict' = [verdict EXCEPT
                     ![r].shedder = IF code[r] = ServiceUnavailable THEN "fail" ELSE "pass"]
    /\ Goto(r, "breakerEnd")
    /\ UNCHANGED <<recovers, latch, hpc, ctx, tw, code, wire, history>>

\* Mutant: an internal server error is no failure.
BreakerEndLenient(r) ==
    /\ pc[r] = "breakerEnd"
    /\ verdict' = [verdict EXCEPT
                     ![r].breaker = IF code[r] <= InternalServerError THEN "accept" ELSE "reject"]
    /\ Goto(r, "latchEnd")
    /\ UNCHANGED <<recovers, counters, hpc, ctx, tw, code, wire, history>>

\* BreakerHandler, the deferred function: promise.Accept or Reject.
BreakerEnd(r) ==
    /\ pc[r] = "breakerEnd"
    /\ verdict' = [verdict EXCEPT
                     ![r].breaker = IF code[r] < InternalServerError THEN "accept" ELSE "reject"]
    /\ Goto(r, "latchEnd")
    /\ UNCHANGED <<recovers, counters, hpc, ctx, tw, code, wire, history>>

\* MaxConnsHandler, the deferred function: Limit.Return, which refuses when
\* nothing is borrowed.
LatchEnd(r) ==
    /\ pc[r] = "latchEnd"
    /\ latch' = IF latch > 0 THEN latch - 1 ELSE latch
    /\ Goto(r, "done")
    /\ UNCHANGED <<recovers, flying, hpc, ctx, tw, code, wire, verdict, history>>

-----------------------------------------------------------------------------
\* timeoutWriter.writeHeaderLocked
HeaderLocked(w, c) ==
    IF w.timedOut \/ w.wroteHeader THEN w ELSE [w EXCEPT !.wroteHeader = TRUE, !.code = c]

\* timeoutWriter.Write by the handler: refused after the timeout.
HandlerWrite(r) ==
    /\ hpc[r] = "running"
    /\ ~tw[r].locked
    /\ ~tw[r].timedOut
    /\ tw' = [tw EXCEPT ![r] = [HeaderLocked(@, OK) EXCEPT !.buffered = TRUE]]
    /\ UNCHANGED <<recovers, counters, pc, hpc, ctx, code, wire, verdict, history>>

\* timeoutWriter.WriteHeader by the handler.
HandlerHeader(r, c) ==
    /\ hpc[r] = "running"
    /\ ~tw[r].locked
    /\ tw' = [tw EXCEPT ![r] = HeaderLocked(@, c)]
    /\ UNCHANGED <<recovers, counters, pc, hpc, ctx, code, wire, verdict, history>>

\* timeoutWriter.Flush by the handler: neither tw.mu nor timedOut is looked at,
\* and the status set by the handler is not sent.
HandlerFlush(r) ==
    /\ hpc[r] = "running"
    /\ wire' = [wire EXCEPT ![r] = WithBody(@, IF tw[r].buffered THEN {"handler"} ELSE {})]
    /\ tw' = [tw EXCEPT ![r].buffered = FALSE]
    /\ flushed' = flushed \cup {r}
    /\ UNCHANGED <<recovers, counters, pc, hpc, ctx, code, verdict, crashed, bare>>

\* The handler returns: done is closed.
HandlerReturn(r) ==
    /\ hpc[r] = "running"
    /\ hpc' = [hpc EXCEPT ![r] = "returned"]
    /\ UNCHANGED <<recovers, counters, pc, ctx, tw, code, wire, verdict, history>>

\* The handler panics.  panicChan has room for it, whoever still reads it.
HandlerPanic(r) ==
    /\ hpc[r] = "running"
    /\ hpc' = [hpc EXCEPT ![r] = IF recovers THEN "recovering" ELSE "panicked"]
    /\ bare' = IF tw[r].wroteHeader THEN bare ELSE bare \cup {r}
    /\ UNCHANGED <<recovers, counters, pc, ctx, tw, code, wire, verdict, flushed, crashed>>

\* Mutant: the panic is swallowed.
RecoverSwallows(r) ==
    /\ hpc[r] = "recovering"
    /\ hpc' = [hpc EXCEPT ![r] = "returned"]
    /\ UNCHANGED <<recovers, counters, pc, ctx, tw, code, wire, verdict, history>>

\* RecoverHandler, the deferred function: status 500, unless one is set.
Recover(r) ==
    /\ hpc[r] = "recovering"
    /\ ~tw[r].locked
    /\ tw' = [tw EXCEPT ![r] = HeaderLocked(@, InternalServerError)]
    /\ hpc' = [hpc EXCEPT ![r] = "returned"]
    /\ UNCHANGED <<recovers, counters, pc, ctx, code, wire, verdict, history>>

\* The context: the timer of WithTimeout fires, or the client goes away.
Deadline(r) ==
    /\ pc[r] = "select"
    /\ ctx[r] = "live"
    /\ ctx' = [ctx EXCEPT ![r] = "deadline"]
    /\ UNCHANGED <<recovers, counters, pc, hpc, tw, code, wire, verdict, history>>

ClientGone(r) ==
    /\ pc[r] # "done"
    /\ ctx[r] = "live"
    /\ ctx' = [ctx EXCEPT ![r] = "canceled"]
    /\ UNCHANGED <<recovers, counters, pc, hpc, tw, code, wire, verdict, history>>

Serve(r) ==
    \/ TryBorrow(r) \/ BreakerAllow(r) \/ ShedderAllow(r) \/ StartHandler(r)
    \/ SelectDone(r) \/ SelectPanic(r) \/ SelectContext(r) \/ TimedOut(r)
    \/ ShedderEnd(r) \/ BreakerEnd(r) \/ LatchEnd(r)

Handle(r) ==
    \/ HandlerWrite(r) \/ HandlerFlush(r) \/ HandlerReturn(r) \/ HandlerPanic(r)
    \/ \E c \in Codes : HandlerHeader(r, c)
    \/ Recover(r)

Next ==
    \E r \in Reqs : Serve(r) \/ Handle(r) \/ Deadline(r) \/ ClientGone(r)

Spec == Init /\ [][Next]_vars

\* Goroutines go on and timers fire.  A handler need not do anything.
Fairness == \A r \in Reqs : WF_vars(Serve(r)) /\ WF_vars(Deadline(r))

FairSpec == Spec /\ Fairness

-----------------------------------------------------------------------------
Statuses == {OK, ClientClosed, InternalServerError, ServiceUnavailable} \cup Codes

\* Every variable has its type; no more than MaxConns requests are admitted.
TypeOK ==
    /\ recovers \in BOOLEAN
    /\ latch \in 0..MaxConns
    /\ flying \in Nat
    /\ pc \in [Reqs -> {"arriving", "breaker", "shedding", "timeout", "select", "answering",
                        "shedderEnd", "breakerEnd", "latchEnd", "done"}]
    /\ hpc \in [Reqs -> {"none", "running", "recovering", "returned", "panicked"}]
    /\ ctx \in [Reqs -> {"live", "deadline", "canceled"}]
    /\ tw \in [Reqs -> [locked : BOOLEAN, timedOut : BOOLEAN, wroteHeader : BOOLEAN,
                        code : Statuses, buffered : BOOLEAN]]
    /\ code \in [Reqs -> Statuses]
    /\ wire \in [Reqs -> [status : Statuses \cup {0}, bodies : SUBSET {"handler", "timeout"}]]
    /\ verdict \in [Reqs -> [breaker : {"none", "accept", "reject"},
                             shedder : {"none", "fail", "pass"}]]
    /\ flushed \subseteq Reqs
    /\ crashed \subseteq Reqs
    /\ bare \subseteq Reqs

\* The latch and the flying count are the requests between their beginning and
\* their end in MaxConns and Shedding, on every way out: drop, answer, timeout
\* or panic.  Handlers that outlive their request do not count.
Borrowed == {r \in Reqs : pc[r] \notin {"arriving", "done"}}
InFlight == {r \in Reqs : pc[r] \in {"timeout", "select", "answering", "shedderEnd"}}

CountsExact ==
    /\ latch = Cardinality(Borrowed)
    /\ flying = Cardinality(InFlight)

\* Breaker and shedder learn what the client got: a request that reached the
\* end of Breaker with a promise was accepted iff the client's status is below
\* 500, and failed the shedder iff it is 503.  The exceptions are handlers that
\* flush (the status sent is 200 whatever they set, or what came after) and
\* panics that nothing recovers, which both take for a success.
VerdictMatches ==
    \A r \in Reqs :
        LET v == verdict[r]
            s == wire[r].status
        IN v.breaker # "none" =>
              IF r \in crashed
              THEN r \notin flushed => v = [breaker |-> "accept", shedder |-> "pass"] /\ s = 0
              ELSE r \notin flushed =>
                      /\ v.breaker = "accept" <=> s < InternalServerError
                      /\ v.shedder # "none" => (v.shedder = "fail" <=> s = ServiceUnavailable)

\* timeoutWriter, "Timeout and multiple header written are guarded": a client
\* whose handler does not flush gets one answer, the handler's status with its
\* body or the timeout's 503 or 499 with the timeout's body, and nothing of the
\* handler after it; a handler that panics before it sets a status is answered
\* with 500 if Recover is configured.
AnswerHonest ==
    \A r \in Reqs :
        pc[r] = "done" /\ hpc[r] # "none" /\ r \notin flushed \cup crashed =>
            IF tw[r].timedOut
            THEN /\ wire[r].bodies = {"timeout"}
                 /\ wire[r].status = IF ctx[r] = "canceled" THEN ClientClosed ELSE ServiceUnavailable
            ELSE /\ wire[r].bodies = IF tw[r].buffered THEN {"handler"} ELSE {}
                 /\ wire[r].status = tw[r].code
                 /\ hpc[r] = "returned"
                 /\ r \in bare => wire[r].status = InternalServerError

\* A request is answered whatever its handler does: also when it never returns.
EveryRequestAnswered ==
    \A r \in Reqs : <>(pc[r] = "done")
=============================================================================
