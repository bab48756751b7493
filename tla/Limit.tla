------------------------------- MODULE Limit -------------------------------
(***************************************************************************)
(* The limiters of core/limit over one redis.  A TokenLimiter takes tokens *)
(* from a bucket in redis by a script and turns to a limiter of its own    *)
(* process when redis fails, until a monitor goroutine finds redis alive.  *)
(* A PeriodLimit counts permits in a key that expires with the period.     *)
(*                                                                         *)
(* Redis runs a script as one step and is external.  The caller reads the  *)
(* time before the script runs, so scripts run late and out of order.  The *)
(* clock counts seconds; a key due in a second expires somewhere in it.    *)
(* The verdict of the rescue limiter (golang.org/x/time/rate) is open: no  *)
(* property depends on it.                                                 *)
(***************************************************************************)
EXTENDS Integers, FiniteSetsExt

CONSTANTS
    Procs,      \* processes; each has its own TokenLimiter for the same key
    Callers,    \* goroutines that call AllowN or Take
    Home,       \* Home[c]: the process of caller c
    Options,    \* the limiters that may be constructed
    Requests,   \* how many tokens a call may ask for
    MaxTime,    \* bound on the clock
    MaxCalls,   \* bound on the calls of one caller
    MaxDowns,   \* bound on the failures of redis
    Nil         \* no such key

ASSUME CallerAssumption == Home \in [Callers -> Procs]
ASSUME OptionAssumption ==
    Options \subseteq [limiter : {"token", "period"}, rate : Nat \ {0}, burst : Nat,
                       period : Nat \ {0}, quota : Nat \ {0}, align : BOOLEAN]
ASSUME BoundAssumption ==
    /\ Requests \subseteq Nat
    /\ MaxTime \in Nat /\ MaxCalls \in Nat /\ MaxDowns \in Nat
ASSUME NilAssumption == Nil \notin [tokens : Int, ts : Int, exp : Int] \cup [n : Int, exp : Int]

VARIABLES
    opt,            \* the limiter constructed, one of Options
    clock,          \* seconds
    up,             \* does redis answer?
    downs,          \* failures of redis so far
    bucket,         \* the tokens and ts keys with their expiry, or Nil
    counter,        \* the key of the PeriodLimit with its expiry, or Nil
    pc,             \* where each caller is
    now,            \* now[c]: the time c has read for its call to redis
    calls,          \* calls[c]: how many calls c has made
    redisAlive,     \* lim.redisAlive of each process
    monitorStarted, \* lim.monitorStarted of each process
    waiting,        \* waiting[p]: goroutines of p in the loop of waitForRedis
    leaving,        \* leaving[p]: goroutines of p between that loop and the end
    win,            \* history: tokens granted since the moment win was opened
    cal             \* history: permits of the current calendar period

vars == <<opt, clock, up, downs, bucket, counter, pc, now, calls, redisAlive,
          monitorStarted, waiting, leaving, win, cal>>

store   == <<bucket, counter>>
caller  == <<pc, now, calls>>
process == <<redisAlive, monitorStarted, waiting, leaving>>
redis   == <<clock, up, downs>>

Init ==
    /\ opt \in Options
    /\ clock = 0
    /\ up = TRUE
    /\ downs = 0
    /\ bucket = Nil
    /\ counter = Nil
    /\ pc = [c \in Callers |-> "idle"]
    /\ now = [c \in Callers |-> 0]
    /\ calls = [c \in Callers |-> 0]
    /\ redisAlive = [p \in Procs |-> 1]
    /\ monitorStarted = [p \in Procs |-> FALSE]
    /\ waiting = [p \in Procs |-> 0]
    /\ leaving = [p \in Procs |-> 0]
    /\ win = [open |-> FALSE, start |-> 0, granted |-> 0, slack |-> 0]
    /\ cal = [granted |-> 0, hits |-> 0, foreign |-> 0]

-----------------------------------------------------------------------------
\* The script of the token limiter: math.floor(fill_time*2).
Ttl == (2 * opt.burst) \div opt.rate

\* Mutant: the bucket overflows.
FilledUncapped(t) ==
    IF bucket = Nil THEN opt.burst
    ELSE bucket.tokens + Max({0, t - bucket.ts}) * opt.rate

\* The script: filled_tokens at time t.
Filled(t) ==
    LET last_tokens    == IF bucket = Nil THEN opt.burst ELSE bucket.tokens
        last_refreshed == IF bucket = Nil THEN 0 ELSE bucket.ts
        delta          == Max({0, t - last_refreshed})
    IN Min({opt.burst, last_tokens + delta * opt.rate})

\* The call to redis is over, with or without an error.
Leave(c, s) ==
    /\ pc' = [pc EXCEPT ![c] = s]
    /\ now' = [now EXCEPT ![c] = 0]

\* The call to redis begins.
Enter(c, s) ==
    /\ pc' = [pc EXCEPT ![c] = s]
    /\ now' = [now EXCEPT ![c] = clock]

\* reserveN: a process that takes redis for dead asks its rescue limiter.
AllowN(c) ==
    /\ opt.limiter = "token"
    /\ pc[c] = "idle"
    /\ calls[c] < MaxCalls
    /\ calls' = [calls EXCEPT ![c] = @ + 1]
    /\ IF redisAlive[Home[c]] = 0
       THEN UNCHANGED <<pc, now>>
       ELSE Enter(c, "script")
    /\ UNCHANGED <<opt, redis, store, process, win, cal>>

\* ScriptRunCtx with redis up: setex refuses a ttl of zero; otherwise the keys
\* are written and the verdict returned, or lost on the way back.
RunScript(c, requested, answered) ==
    LET filled  == Filled(now[c])
        allowed == filled >= requested
        tokens  == IF allowed THEN filled - requested ELSE filled
        got     == IF allowed /\ answered THEN requested ELSE 0
    IN /\ pc[c] = "script"
       /\ up
       /\ IF Ttl = 0
          THEN /\ ~answered
               /\ Leave(c, "failed")
               /\ UNCHANGED <<bucket, win>>
          ELSE /\ bucket' = [tokens |-> tokens, ts |-> now[c], exp |-> clock + Ttl]
               /\ IF answered
                  THEN Leave(c, "idle")
                  ELSE \/ Leave(c, "failed")
                       \/ Leave(c, "idle")     \* the context ended
               /\ win' = IF win.open
                         THEN [win EXCEPT !.granted = @ + got,
                                          !.slack = @ + (clock - now[c]) * opt.rate]
                         ELSE win
       /\ UNCHANGED <<opt, redis, counter, calls, process, cal>>

\* ScriptRunCtx fails before the script runs; an ended context is no reason to
\* doubt redis.
ScriptError(c) ==
    /\ pc[c] = "script"
    /\ \/ Leave(c, "failed")
       \/ Leave(c, "idle")
    /\ UNCHANGED <<opt, redis, store, calls, process, win, cal>>

\* Mutant: redis is declared dead although the monitor may be on its way out.
RescueAlways(c) ==
    LET p == Home[c] IN
    /\ pc[c] = "failed"
    /\ Leave(c, "idle")
    /\ redisAlive' = [redisAlive EXCEPT ![p] = 0]
    /\ IF monitorStarted[p]
       THEN UNCHANGED <<monitorStarted, waiting>>
       ELSE /\ monitorStarted' = [monitorStarted EXCEPT ![p] = TRUE]
            /\ waiting' = [waiting EXCEPT ![p] = @ + 1]
    /\ UNCHANGED <<opt, redis, store, calls, leaving, win, cal>>

\* Mutant: every failed call starts a monitor.
RescueUnguarded(c) ==
    LET p == Home[c] IN
    /\ pc[c] = "failed"
    /\ Leave(c, "idle")
    /\ redisAlive' = [redisAlive EXCEPT ![p] = 0]
    /\ monitorStarted' = [monitorStarted EXCEPT ![p] = TRUE]
    /\ waiting' = [waiting EXCEPT ![p] = @ + 1]
    /\ UNCHANGED <<opt, redis, store, calls, leaving, win, cal>>

\* startMonitor, under rescueLock, and the rescue limiter's answer.
Rescue(c) ==
    LET p == Home[c] IN
    /\ pc[c] = "failed"
    /\ Leave(c, "idle")
    /\ IF monitorStarted[p]
       THEN UNCHANGED <<redisAlive, monitorStarted, waiting>>
       ELSE /\ monitorStarted' = [monitorStarted EXCEPT ![p] = TRUE]
            /\ redisAlive' = [redisAlive EXCEPT ![p] = 0]
            /\ waiting' = [waiting EXCEPT ![p] = @ + 1]
    /\ UNCHANGED <<opt, redis, store, calls, leaving, win, cal>>

\* waitForRedis: a ping that is answered ends the loop.
Ping(p) ==
    /\ waiting[p] > 0
    /\ up
    /\ redisAlive' = [redisAlive EXCEPT ![p] = 1]
    /\ waiting' = [waiting EXCEPT ![p] = @ - 1]
    /\ leaving' = [leaving EXCEPT ![p] = @ + 1]
    /\ UNCHANGED <<opt, redis, store, caller, monitorStarted, win, cal>>

\* waitForRedis: the deferred function.
MonitorEnd(p) ==
    /\ leaving[p] > 0
    /\ monitorStarted' = [monitorStarted EXCEPT ![p] = FALSE]
    /\ leaving' = [leaving EXCEPT ![p] = @ - 1]
    /\ UNCHANGED <<opt, redis, store, caller, redisAlive, waiting, win, cal>>

-----------------------------------------------------------------------------
\* Mutant: the part of the period that is over, not the part that remains.
WindowElapsed(t) == IF opt.align THEN t % opt.period ELSE opt.period

\* calcExpireSeconds at time t, in the time zone of the calendar.
Window(t) == IF opt.align THEN opt.period - (t % opt.period) ELSE opt.period

\* TakeCtx: the window is computed by the caller.
Take(c) ==
    /\ opt.limiter = "period"
    /\ pc[c] = "idle"
    /\ calls[c] < MaxCalls
    /\ calls' = [calls EXCEPT ![c] = @ + 1]
    /\ Enter(c, "take")
    /\ UNCHANGED <<opt, redis, store, process, win, cal>>

\* The calendar period of time t.
Period(t) == t \div opt.period

\* periodScript: Allowed below the quota, HitQuota at it, OverQuota above;
\* nobody is told when the answer is lost.
TakeScript(c, answered) ==
    LET current == IF counter = Nil THEN 1 ELSE counter.n + 1
        expires == IF current = 1 THEN clock + Window(now[c]) ELSE counter.exp
        permit  == answered /\ current <= opt.quota
        hit     == answered /\ current = opt.quota
        foreign == current = 1 /\ Period(now[c]) # Period(clock)
        One(b)  == IF b THEN 1 ELSE 0
    IN /\ pc[c] = "take"
       /\ up
       /\ counter' = [n |-> current, exp |-> expires]
       /\ cal' = [granted |-> cal.granted + One(permit),
                  hits    |-> cal.hits + One(hit),
                  foreign |-> cal.foreign + One(foreign)]
       /\ Leave(c, "idle")
       /\ UNCHANGED <<opt, redis, bucket, calls, process, win>>

\* The script does not run: Take returns Unknown and the error.
TakeError(c) ==
    /\ pc[c] = "take"
    /\ Leave(c, "idle")
    /\ UNCHANGED <<opt, redis, store, calls, process, win, cal>>

-----------------------------------------------------------------------------
\* Redis: a key whose time has come is gone; redis fails, and comes back with
\* or without its data.
Expire ==
    /\ \/ /\ bucket # Nil /\ clock >= bucket.exp
          /\ bucket' = Nil /\ UNCHANGED counter
       \/ /\ counter # Nil /\ clock >= counter.exp
          /\ counter' = Nil /\ UNCHANGED bucket
    /\ UNCHANGED <<opt, redis, caller, process, win, cal>>

RedisDown ==
    /\ up
    /\ downs < MaxDowns
    /\ up' = FALSE
    /\ downs' = downs + 1
    /\ UNCHANGED <<opt, clock, store, caller, process, win, cal>>

RedisUp(lost) ==
    /\ ~up
    /\ up' = TRUE
    /\ IF lost
       THEN /\ bucket' = Nil /\ counter' = Nil
            /\ win' = IF win.open THEN [win EXCEPT !.slack = @ + opt.burst] ELSE win
            /\ cal' = IF counter = Nil THEN cal ELSE [cal EXCEPT !.foreign = @ + 1]
       ELSE UNCHANGED <<store, win, cal>>
    /\ UNCHANGED <<opt, clock, downs, caller, process>>

\* A second passes; no key outlives the second it expires in.  A counter that
\* lives on into the next calendar period is foreign there.
Tick ==
    /\ clock < MaxTime
    /\ bucket # Nil => clock < bucket.exp
    /\ counter # Nil => clock < counter.exp
    /\ clock' = clock + 1
    /\ cal' = IF Period(clock + 1) = Period(clock)
              THEN cal
              ELSE [granted |-> 0, hits |-> 0, foreign |-> IF counter = Nil THEN 0 ELSE 1]
    /\ UNCHANGED <<opt, up, downs, store, caller, process, win>>

\* History: from any one moment on the tokens granted are counted.
OpenWindow ==
    /\ opt.limiter = "token"
    /\ ~win.open
    /\ win' = [open |-> TRUE, start |-> clock, granted |-> 0, slack |-> 0]
    /\ UNCHANGED <<opt, redis, store, caller, process, cal>>

Next ==
    \/ \E c \in Callers : AllowN(c)
    \/ \E c \in Callers, n \in Requests, a \in BOOLEAN : RunScript(c, n, a)
    \/ \E c \in Callers : ScriptError(c)
    \/ \E c \in Callers : Rescue(c)
    \/ \E p \in Procs : Ping(p)
    \/ \E p \in Procs : MonitorEnd(p)
    \/ \E c \in Callers : Take(c)
    \/ \E c \in Callers, a \in BOOLEAN : TakeScript(c, a)
    \/ \E c \in Callers : TakeError(c)
    \/ Expire
    \/ RedisDown
    \/ \E lost \in BOOLEAN : RedisUp(lost)
    \/ Tick
    \/ OpenWindow

Spec == Init /\ [][Next]_vars

\* The monitor's ticker ticks and goroutines go on.  Redis need not come back.
Fairness ==
    /\ \A p \in Procs : WF_vars(Ping(p)) /\ WF_vars(MonitorEnd(p))
    /\ \A c \in Callers : WF_vars(Rescue(c))

FairSpec == Spec /\ Fairness

-----------------------------------------------------------------------------
\* Every variable has its type; in particular the tokens stay within the burst
\* and the time written with them is never in the future.
TypeOK ==
    /\ opt \in Options
    /\ clock \in 0..MaxTime
    /\ up \in BOOLEAN
    /\ downs \in 0..MaxDowns
    /\ \/ bucket = Nil
       \/ /\ bucket \in [tokens : Nat, ts : Nat, exp : Nat]
          /\ bucket.tokens <= opt.burst /\ bucket.ts <= clock
    /\ counter = Nil \/ counter \in [n : Nat, exp : Nat]
    /\ pc \in [Callers -> {"idle", "script", "failed", "take"}]
    /\ now \in [Callers -> 0..clock]
    /\ calls \in [Callers -> 0..MaxCalls]
    /\ redisAlive \in [Procs -> {0, 1}]
    /\ monitorStarted \in [Procs -> BOOLEAN]
    /\ waiting \in [Procs -> Nat]
    /\ leaving \in [Procs -> Nat]
    /\ win \in [open : BOOLEAN, start : 0..clock, granted : Nat, slack : Nat]
    /\ cal \in [granted : Nat, hits : Nat, foreign : Nat]

\* NewTokenLimiter "allows events up to rate and permits bursts of at most burst
\* tokens": in any stretch of time the processes together get from redis no more
\* than the burst and what the rate gives for the time passed, but for the
\* seconds by which scripts run later than the time they are given, and one burst
\* for each time redis loses its data.  A limiter whose burst is below half its
\* rate gets a ttl of zero and nothing from redis.
WindowBound ==
    win.granted <= IF Ttl = 0 THEN 0
                   ELSE opt.burst + (clock - win.start) * opt.rate + win.slack

\* Align: in a calendar period the quota is granted once, and the last permit
\* told once, for the counter of the period and for each counter of it that was
\* made with the window of an earlier one (or was lost by redis).
AlignedQuota ==
    opt.limiter = "period" /\ opt.align =>
        /\ cal.granted <= opt.quota * (1 + cal.foreign)
        /\ cal.hits <= 1 + cal.foreign

\* A process that takes redis for dead has exactly one goroutine that still
\* pings: otherwise it would use the rescue limiter for ever.  There is never
\* more than one monitor, and monitorStarted tells of it.
MonitorExact ==
    \A p \in Procs :
        /\ redisAlive[p] = 0 => waiting[p] = 1
        /\ waiting[p] + leaving[p] = IF monitorStarted[p] THEN 1 ELSE 0

\* When redis stays up every process comes back to it, whatever errors its
\* calls still met in the meantime.
BackToRedis ==
    <>[]up => \A p \in Procs : []<>(redisAlive[p] = 1)
=============================================================================
