----------------------------- MODULE LimitProofs -----------------------------
(***************************************************************************)
(* Theorems about Limit, for any processes, callers, limiters and bounds.  *)
(***************************************************************************)
EXTENDS Limit, TLAPS

\* The operators of the scripts.
LEMMA MaxOfTwo ==
    ASSUME NEW a \in Int, NEW b \in Int
    PROVE  Max({a, b}) = IF a >= b THEN a ELSE b
BY DEF Max

LEMMA MinOfTwo ==
    ASSUME NEW a \in Int, NEW b \in Int
    PROVE  Min({a, b}) = IF a <= b THEN a ELSE b
BY DEF Min

LEMMA Division ==
    ASSUME NEW a \in Nat, NEW b \in Nat \ {0}
    PROVE  /\ a \div b \in Nat
           /\ b * (a \div b) <= a
           /\ a < b * (a \div b) + b
BY SMT

LEMMA Remainder ==
    ASSUME NEW a \in Nat, NEW b \in Nat \ {0}
    PROVE  /\ a % b \in 0..(b - 1)
           /\ a = b * (a \div b) + (a % b)
BY SMT

LEMMA Times ==
    ASSUME NEW a \in Nat, NEW b \in Nat, NEW c \in Nat
    PROVE  /\ (a + b) * c = a * c + b * c
           /\ a * c \in Nat
           /\ a <= b => a * c <= b * c
BY SMT

LEMMA OneMore ==
    ASSUME NEW a \in Nat, NEW b \in Nat
    PROVE  a * b \in Nat /\ a * (b + 1) = a * b + a
BY SMT

-----------------------------------------------------------------------------
\* What the limiter could still grant at once, with what it has granted since
\* win was opened, is covered by the burst, the rate and the slack; the keys live
\* until the bucket is full again.
TokenInv ==
    /\ bucket # Nil => bucket.exp >= bucket.ts + Ttl
    /\ ~win.open => win.granted = 0
    /\ Ttl = 0 => win.granted = 0
    /\ win.open /\ Ttl # 0 =>
          win.granted + Filled(clock) <=
              opt.burst + (clock - win.start) * opt.rate + win.slack

\* What a counter that stands at n has granted at most, and how often it told
\* that the quota is hit.
Permits(n) == IF n <= opt.quota THEN n ELSE opt.quota
HitsOf(n)  == IF n >= opt.quota THEN 1 ELSE 0

\* The counters of the calendar period: all those that are gone were foreign,
\* and the current one, if any, is foreign or lives on to the end of the period.
NoCounter ==
    /\ counter = Nil
    /\ cal.granted <= opt.quota * cal.foreign
    /\ cal.hits <= cal.foreign

ForeignCounter ==
    /\ counter # Nil
    /\ cal.foreign >= 1
    /\ cal.granted <= opt.quota * (cal.foreign - 1) + Permits(counter.n)
    /\ cal.hits <= cal.foreign - 1 + HitsOf(counter.n)

OwnCounter ==
    /\ counter # Nil
    /\ counter.exp >= (Period(clock) + 1) * opt.period
    /\ cal.granted <= opt.quota * cal.foreign + Permits(counter.n)
    /\ cal.hits <= cal.foreign + HitsOf(counter.n)

PeriodInv ==
    /\ counter # Nil => counter.n >= 1
    /\ opt.align => NoCounter \/ ForeignCounter \/ OwnCounter

\* The inductive invariant.
IInv == TypeOK /\ MonitorExact /\ TokenInv /\ PeriodInv

-----------------------------------------------------------------------------
LEMMA OptFacts ==
    ASSUME opt \in Options
    PROVE  /\ opt.rate \in Nat /\ opt.rate >= 1
           /\ opt.burst \in Nat
           /\ opt.period \in Nat /\ opt.period >= 1
           /\ opt.quota \in Nat /\ opt.quota >= 1
           /\ opt.align \in BOOLEAN
BY OptionAssumption

LEMMA TtlFacts ==
    ASSUME opt \in Options
    PROVE  /\ Ttl \in Nat
           /\ Ttl # 0 => opt.burst <= Ttl * opt.rate
<1>1. opt.rate \in Nat \ {0} /\ opt.burst \in Nat /\ 2 * opt.burst \in Nat
  BY OptFacts
<1>2. /\ Ttl \in Nat
      /\ opt.rate * Ttl <= 2 * opt.burst
      /\ 2 * opt.burst < opt.rate * Ttl + opt.rate
  BY <1>1, Division DEF Ttl
<1>3. CASE opt.burst < opt.rate
  <2>1. Ttl # 0 => 1 * opt.rate <= Ttl * opt.rate
    BY <1>1, <1>2, Times
  <2> QED
    BY <1>1, <1>2, <1>3, <2>1
<1>4. CASE opt.burst >= opt.rate
  <2>1. opt.rate * Ttl = Ttl * opt.rate /\ Ttl * opt.rate \in Nat
    BY <1>1, <1>2, Times
  <2> QED
    BY <1>1, <1>2, <1>4, <2>1
<1> QED
  BY <1>1, <1>3, <1>4, <1>2

\* The bucket, if there is one.
Bucket ==
    \/ bucket = Nil
    \/ /\ bucket \in [tokens : Nat, ts : Nat, exp : Nat]
       /\ bucket.tokens <= opt.burst /\ bucket.ts <= clock

LEMMA FilledIs ==
    ASSUME opt \in Options, Bucket, NEW t \in Nat
    PROVE  /\ Filled(t) \in 0..opt.burst
           /\ bucket = Nil => Filled(t) = opt.burst
           /\ bucket # Nil =>
                 LET d    == IF bucket.ts <= t THEN t - bucket.ts ELSE 0
                     full == bucket.tokens + d * opt.rate
                 IN Filled(t) = IF opt.burst <= full THEN opt.burst ELSE full
<1>0. opt.rate \in Nat /\ opt.burst \in Nat
  BY OptFacts
<1>1. CASE bucket = Nil
  <2>1. Max({0, t - 0}) = t
    BY MaxOfTwo
  <2>2. t * opt.rate \in Nat
    BY <1>0, Times
  <2>3. Min({opt.burst, opt.burst + t * opt.rate}) = opt.burst
    BY <1>0, <2>2, MinOfTwo
  <2>4. Filled(t) = Min({opt.burst, opt.burst + Max({0, t - 0}) * opt.rate})
    <3> DEFINE tokens == IF bucket = Nil THEN opt.burst ELSE bucket.tokens
               ts     == IF bucket = Nil THEN 0 ELSE bucket.ts
    <3>1. Filled(t) = Min({opt.burst, tokens + Max({0, t - ts}) * opt.rate})
      BY Zenon DEF Filled
    <3>2. tokens = opt.burst /\ ts = 0
      BY <1>1
    <3> HIDE DEF tokens, ts
    <3> QED
      BY <3>1, <3>2, Zenon
  <2>5. Filled(t) = opt.burst
    BY <2>1, <2>3, <2>4, Zenon
  <2> QED
    BY <1>0, <1>1, <2>5
<1>2. CASE bucket # Nil
  <2> DEFINE d    == IF bucket.ts <= t THEN t - bucket.ts ELSE 0
             full == bucket.tokens + d * opt.rate
  <2>1. bucket.ts \in Nat /\ bucket.tokens \in Nat
    BY <1>2 DEF Bucket
  <2>2. Max({0, t - bucket.ts}) = d
    BY <2>1, MaxOfTwo
  <2>3. d \in Nat
    BY <2>1
  <2>4. d * opt.rate \in Nat
    <3> HIDE DEF d
    <3> QED
      BY <1>0, <2>3, Times
  <2>5. Filled(t) = Min({opt.burst, bucket.tokens + Max({0, t - bucket.ts}) * opt.rate})
    BY <1>2 DEF Filled
  <2>6. Filled(t) = Min({opt.burst, full})
    BY <2>2, <2>5
  <2>7. full \in Nat
    <3> HIDE DEF d
    <3> QED
      BY <2>1, <2>4
  <2>8. Min({opt.burst, full}) = IF opt.burst <= full THEN opt.burst ELSE full
    <3> HIDE DEF full
    <3> QED
      BY <1>0, <2>7, MinOfTwo
  <2>9. Filled(t) \in 0..opt.burst
    <3> HIDE DEF full
    <3> QED
      BY <1>0, <2>6, <2>7, <2>8
  <2> QED
    BY <1>2, <2>6, <2>8, <2>9
<1> QED
  BY <1>1, <1>2

\* Time fills the bucket, and no faster than the rate.
LEMMA FilledGrows ==
    ASSUME opt \in Options, Bucket, NEW t \in Nat, NEW u \in Nat, t <= u
    PROVE  /\ Filled(t) <= Filled(u)
           /\ Filled(u) <= Filled(t) + (u - t) * opt.rate
<1>0. opt.rate \in Nat /\ opt.burst \in Nat /\ u - t \in Nat
  BY OptFacts
<1>1. (u - t) * opt.rate \in Nat
  BY <1>0, Times
<1>2. CASE bucket = Nil
  BY <1>0, <1>1, <1>2, FilledIs
<1>3. CASE bucket # Nil
  <2> DEFINE D(x) == IF bucket.ts <= x THEN x - bucket.ts ELSE 0
             F(x) == bucket.tokens + D(x) * opt.rate
  <2>1. bucket.ts \in Nat /\ bucket.tokens \in Nat
    BY <1>3 DEF Bucket
  <2>2. D(t) \in Nat /\ D(u) \in Nat /\ D(t) <= D(u) /\ D(u) <= D(t) + (u - t)
    BY <2>1
  <2>3. /\ D(t) * opt.rate \in Nat /\ D(u) * opt.rate \in Nat
        /\ D(t) * opt.rate <= D(u) * opt.rate
        /\ D(u) * opt.rate <= D(t) * opt.rate + (u - t) * opt.rate
    <3> HIDE DEF D
    <3>1. D(t) + (u - t) \in Nat
      BY <1>0, <2>2
    <3>2. D(u) * opt.rate <= (D(t) + (u - t)) * opt.rate
      BY <1>0, <2>2, <3>1, Times
    <3>3. (D(t) + (u - t)) * opt.rate = D(t) * opt.rate + (u - t) * opt.rate
      BY <1>0, <2>2, Times
    <3> QED
      BY <1>0, <2>2, <3>2, <3>3, Times
  <2>4. /\ Filled(t) = IF opt.burst <= F(t) THEN opt.burst ELSE F(t)
        /\ Filled(u) = IF opt.burst <= F(u) THEN opt.burst ELSE F(u)
    BY <1>3, FilledIs
  <2> HIDE DEF D
  <2> QED
    BY <1>0, <1>1, <2>1, <2>3, <2>4
<1> QED
  BY <1>2, <1>3

-----------------------------------------------------------------------------
LEMMA InitTypes == Init => TypeOK
BY BoundAssumption DEF Init, TypeOK

\* The script writes a bucket with what is filled but for what is taken from
\* it, and grants no more than that.
LEMMA ScriptBucket ==
    ASSUME TypeOK, NEW c \in Callers, NEW n \in Requests, NEW a \in BOOLEAN,
           RunScript(c, n, a), Ttl # 0
    PROVE  \E k, got \in Nat :
              /\ bucket' = [tokens |-> k, ts |-> now[c], exp |-> clock + Ttl]
              /\ k + got <= Filled(now[c])
              /\ win' = IF win.open
                        THEN [win EXCEPT !.granted = @ + got,
                                         !.slack = @ + (clock - now[c]) * opt.rate]
                        ELSE win
<1>1. now[c] \in Nat /\ n \in Nat /\ opt \in Options /\ Bucket
  BY BoundAssumption DEF TypeOK, Bucket
<1>2. Filled(now[c]) \in 0..opt.burst /\ opt.burst \in Nat
  BY <1>1, FilledIs, OptFacts
<1> DEFINE k   == IF Filled(now[c]) >= n THEN Filled(now[c]) - n ELSE Filled(now[c])
           got == IF Filled(now[c]) >= n /\ a THEN n ELSE 0
<1>3. k \in Nat /\ got \in Nat /\ k + got <= Filled(now[c])
  BY <1>1, <1>2
<1>4. bucket' = [tokens |-> k, ts |-> now[c], exp |-> clock + Ttl]
  BY DEF RunScript
<1>5. win' = IF win.open
             THEN [win EXCEPT !.granted = @ + got, !.slack = @ + (clock - now[c]) * opt.rate]
             ELSE win
  BY DEF RunScript
<1> HIDE DEF k, got
<1> QED
  BY <1>3, <1>4, <1>5, Zenon

LEMMA NextTypes == TypeOK /\ [Next]_vars => TypeOK'
<1> SUFFICES ASSUME TypeOK, [Next]_vars PROVE TypeOK'
  OBVIOUS
<1> USE BoundAssumption DEF TypeOK, redis, store, caller, process, Leave, Enter
<1>1. ASSUME NEW c \in Callers, AllowN(c) PROVE TypeOK'
  BY <1>1 DEF AllowN
<1>2. ASSUME NEW c \in Callers, NEW n \in Requests, NEW a \in BOOLEAN, RunScript(c, n, a)
      PROVE TypeOK'
  <2>1. /\ UNCHANGED <<opt, redis, counter, calls, process, cal>>
        /\ \E s \in {"failed", "idle"} : Leave(c, s)
    BY <1>2 DEF RunScript
  <2>2. CASE Ttl = 0
    <3>1. UNCHANGED <<bucket, win>>
      BY <1>2, <2>2 DEF RunScript
    <3> QED
      BY <2>1, <3>1
  <2>3. CASE Ttl # 0
    <3>1. PICK k, got \in Nat :
              /\ bucket' = [tokens |-> k, ts |-> now[c], exp |-> clock + Ttl]
              /\ k + got <= Filled(now[c])
              /\ win' = IF win.open
                        THEN [win EXCEPT !.granted = @ + got,
                                         !.slack = @ + (clock - now[c]) * opt.rate]
                        ELSE win
      BY <1>2, <2>3, ScriptBucket
    <3>2. /\ clock - now[c] \in Nat /\ opt.rate \in Nat /\ Ttl \in Nat /\ now[c] \in Nat
          /\ opt.burst \in Nat
      BY OptFacts, TtlFacts
    <3>3. (clock - now[c]) * opt.rate \in Nat
      BY <3>2, Times
    <3>4. win' \in [open : BOOLEAN, start : 0..clock, granted : Nat, slack : Nat]
      <4> DEFINE late == (clock - now[c]) * opt.rate
      <4>1. win' = [win EXCEPT !.granted = @ + got, !.slack = @ + late] \/ win' = win
        BY <3>1, Zenon
      <4>2. late \in Nat
        BY <3>3
      <4> HIDE DEF late
      <4>3. win \in [open : BOOLEAN, start : 0..clock, granted : Nat, slack : Nat]
        OBVIOUS
      <4>4. win.granted + got \in Nat /\ win.slack + late \in Nat
        BY <4>2, <4>3
      <4>5. [win EXCEPT !.granted = win.granted + got, !.slack = win.slack + late]
               \in [open : BOOLEAN, start : 0..clock, granted : Nat, slack : Nat]
        BY <4>3, <4>4, Zenon
      <4> QED
        BY <4>1, <4>3, <4>5
    <3>5. Filled(now[c]) \in 0..opt.burst
      BY <3>2, FilledIs DEF Bucket
    <3>6. /\ bucket' \in [tokens : Nat, ts : Nat, exp : Nat]
          /\ bucket'.tokens <= opt.burst /\ bucket'.ts <= clock
      BY <3>1, <3>2, <3>5
    <3> QED
      BY <2>1, <3>4, <3>6
  <2> QED
    BY <2>2, <2>3
<1>3. ASSUME NEW c \in Callers, ScriptError(c) PROVE TypeOK'
  BY <1>3 DEF ScriptError
<1>4. ASSUME NEW c \in Callers, Rescue(c) PROVE TypeOK'
  <2>1. Home[c] \in Procs
    BY CallerAssumption
  <2>2. /\ redisAlive' \in [Procs -> {0, 1}]
        /\ monitorStarted' \in [Procs -> BOOLEAN]
        /\ waiting' \in [Procs -> Nat]
    <3>1. CASE monitorStarted[Home[c]]
      BY <1>4, <3>1 DEF Rescue
    <3>2. CASE ~monitorStarted[Home[c]]
      <4>1. /\ monitorStarted' = [monitorStarted EXCEPT ![Home[c]] = TRUE]
            /\ redisAlive' = [redisAlive EXCEPT ![Home[c]] = 0]
            /\ waiting' = [waiting EXCEPT ![Home[c]] = @ + 1]
        BY <1>4, <3>2 DEF Rescue
      <4> QED
        BY <2>1, <4>1
    <3> QED
      BY <3>1, <3>2
  <2> QED
    BY <1>4, <2>2 DEF Rescue
<1>5. ASSUME NEW p \in Procs, Ping(p) PROVE TypeOK'
  BY <1>5 DEF Ping
<1>6. ASSUME NEW p \in Procs, MonitorEnd(p) PROVE TypeOK'
  BY <1>6 DEF MonitorEnd
<1>7. ASSUME NEW c \in Callers, Take(c) PROVE TypeOK'
  BY <1>7 DEF Take
<1>8. ASSUME NEW c \in Callers, NEW a \in BOOLEAN, TakeScript(c, a) PROVE TypeOK'
  <2>1. Window(now[c]) \in Nat
    <3>1. opt.period \in Nat \ {0} /\ now[c] \in Nat
      BY OptFacts
    <3>2. now[c] % opt.period \in 0..(opt.period - 1)
      BY <3>1, Remainder
    <3> QED
      BY <3>1, <3>2 DEF Window
  <2>2. counter' \in [n : Nat, exp : Nat]
    BY <1>8, <2>1 DEF TakeScript
  <2>3. cal' \in [granted : Nat, hits : Nat, foreign : Nat]
    BY <1>8 DEF TakeScript
  <2>4. UNCHANGED <<opt, redis, bucket, calls, process, win>> /\ Leave(c, "idle")
    BY <1>8 DEF TakeScript
  <2> QED
    BY <2>2, <2>3, <2>4
<1>9. ASSUME NEW c \in Callers, TakeError(c) PROVE TypeOK'
  BY <1>9 DEF TakeError
<1>10. CASE Expire
  <2>1. /\ UNCHANGED <<opt, redis, caller, process, win, cal>>
        /\ bucket' = bucket \/ bucket' = Nil
        /\ counter' = counter \/ counter' = Nil
    BY <1>10 DEF Expire
  <2> QED
    BY <2>1
<1>11. CASE RedisDown
  <2>1. up' \in BOOLEAN
    BY <1>11, Zenon DEF RedisDown
  <2>2. downs < MaxDowns /\ downs' = downs + 1
    BY <1>11, Zenon DEF RedisDown
  <2>3. downs' \in 0..MaxDowns
    BY <2>2
  <2>4. UNCHANGED <<opt, clock, store, caller, process, win, cal>>
    BY <1>11 DEF RedisDown
  <2> QED
    BY <2>1, <2>3, <2>4
<1>12. ASSUME NEW lost \in BOOLEAN, RedisUp(lost) PROVE TypeOK'
  BY <1>12, OptFacts DEF RedisUp
<1>13. CASE Tick
  BY <1>13 DEF Tick
<1>14. CASE OpenWindow
  BY <1>14 DEF OpenWindow
<1>15. CASE UNCHANGED vars
  BY <1>15 DEF vars
<1> QED
  BY <1>1, <1>2, <1>3, <1>4, <1>5, <1>6, <1>7, <1>8, <1>9, <1>10, <1>11, <1>12, <1>13, <1>14,
     <1>15 DEF Next

-----------------------------------------------------------------------------
LEMMA NextMonitor == TypeOK /\ MonitorExact /\ [Next]_vars => MonitorExact'
<1> SUFFICES ASSUME TypeOK, MonitorExact, [Next]_vars PROVE MonitorExact'
  OBVIOUS
<1> USE DEF MonitorExact, process
<1>0. /\ redisAlive \in [Procs -> {0, 1}] /\ monitorStarted \in [Procs -> BOOLEAN]
      /\ waiting \in [Procs -> Nat] /\ leaving \in [Procs -> Nat]
  BY DEF TypeOK
<1>1. ASSUME NEW c \in Callers, Rescue(c) PROVE MonitorExact'
  <2>1. Home[c] \in Procs /\ UNCHANGED leaving
    BY <1>1, CallerAssumption DEF Rescue
  <2>2. CASE monitorStarted[Home[c]]
    BY <1>1, <2>1, <2>2 DEF Rescue
  <2>3. CASE ~monitorStarted[Home[c]]
    <3>1. /\ monitorStarted' = [monitorStarted EXCEPT ![Home[c]] = TRUE]
          /\ redisAlive' = [redisAlive EXCEPT ![Home[c]] = 0]
          /\ waiting' = [waiting EXCEPT ![Home[c]] = @ + 1]
      BY <1>1, <2>3 DEF Rescue
    <3> QED
      BY <1>0, <2>1, <2>3, <3>1
  <2> QED
    BY <2>2, <2>3
<1>2. ASSUME NEW p \in Procs, Ping(p) PROVE MonitorExact'
  <2>1. /\ waiting[p] > 0
        /\ redisAlive' = [redisAlive EXCEPT ![p] = 1]
        /\ waiting' = [waiting EXCEPT ![p] = @ - 1]
        /\ leaving' = [leaving EXCEPT ![p] = @ + 1]
        /\ UNCHANGED monitorStarted
    BY <1>2 DEF Ping
  <2> QED
    BY <1>0, <2>1
<1>3. ASSUME NEW p \in Procs, MonitorEnd(p) PROVE MonitorExact'
  <2>1. /\ leaving[p] > 0
        /\ monitorStarted' = [monitorStarted EXCEPT ![p] = FALSE]
        /\ leaving' = [leaving EXCEPT ![p] = @ - 1]
        /\ UNCHANGED <<redisAlive, waiting>>
    BY <1>3 DEF MonitorEnd
  <2> QED
    BY <1>0, <2>1
<1>4. CASE UNCHANGED process
  BY <1>4
<1> QED
  BY <1>1, <1>2, <1>3, <1>4 DEF Next, AllowN, RunScript, ScriptError, Take, TakeScript, TakeError,
     Expire, RedisDown, RedisUp, Tick, OpenWindow, vars

-----------------------------------------------------------------------------
\* What is filled depends on the limiter and the bucket only.
LEMMA SameBucket ==
    ASSUME UNCHANGED <<opt, bucket, clock>>
    PROVE  Ttl' = Ttl /\ Filled(clock)' = Filled(clock)
BY DEF Ttl, Filled

\* The script pays for what it grants: what is filled afterwards is less by the
\* grant, but for the time by which the script runs late.
LEMMA ScriptPays ==
    ASSUME TypeOK, NEW c \in Callers, NEW k \in Nat, NEW e,
           bucket' = [tokens |-> k, ts |-> now[c], exp |-> e],
           [tokens |-> k, ts |-> now[c], exp |-> e] # Nil,
           UNCHANGED <<opt, clock>>
    PROVE  Filled(clock)' <= k + (clock - now[c]) * opt.rate
<1>0. /\ now[c] \in Nat /\ clock \in Nat /\ now[c] <= clock
      /\ opt.rate \in Nat /\ opt.burst \in Nat
  BY OptFacts, BoundAssumption DEF TypeOK
<1>1. Max({0, clock - now[c]}) = clock - now[c]
  BY <1>0, MaxOfTwo
<1>2. (clock - now[c]) * opt.rate \in Nat
  BY <1>0, Times
<1>3. Filled(clock)' = Min({opt.burst, k + Max({0, clock - now[c]}) * opt.rate})
  BY Zenon DEF Filled
<1> DEFINE full == k + (clock - now[c]) * opt.rate
<1>4. Filled(clock)' = Min({opt.burst, full})
  BY <1>1, <1>3, Zenon
<1>5. full \in Nat
  BY <1>2
<1> HIDE DEF full
<1>6. Filled(clock)' <= full
  BY <1>0, <1>4, <1>5, MinOfTwo
<1> QED
  BY <1>6 DEF full

LEMMA FilledNow == TypeOK => Filled(clock) \in 0..opt.burst
<1> SUFFICES ASSUME TypeOK PROVE Filled(clock) \in 0..opt.burst
  OBVIOUS
<1>1. opt \in Options /\ Bucket /\ clock \in Nat
  BY BoundAssumption DEF TypeOK, Bucket
<1> QED
  BY <1>1, FilledIs

LEMMA NextToken == TypeOK /\ TypeOK' /\ TokenInv /\ [Next]_vars => TokenInv'
<1> SUFFICES ASSUME TypeOK, TypeOK', TokenInv, [Next]_vars PROVE TokenInv'
  OBVIOUS
<1> DEFINE earned == (clock - win.start) * opt.rate
<1>0. /\ opt \in Options /\ Bucket /\ clock \in Nat
      /\ opt.rate \in Nat /\ opt.burst \in Nat /\ Ttl \in Nat
      /\ win \in [open : BOOLEAN, start : 0..clock, granted : Nat, slack : Nat]
      /\ win.granted \in Nat /\ win.slack \in Nat /\ clock - win.start \in Nat
      /\ win.open \in BOOLEAN
  BY OptFacts, TtlFacts, BoundAssumption DEF TypeOK, Bucket
<1>1. Filled(clock) \in Nat /\ Filled(clock) <= opt.burst /\ earned \in Nat
  BY <1>0, FilledIs, Times
<1>2. Filled(clock)' \in 0..opt'.burst
  <2>1. TypeOK' => (Filled(clock) \in 0..opt.burst)'
    BY FilledNow, PTL
  <2> QED
    BY <2>1
<1>3. ASSUME UNCHANGED <<opt, bucket, clock, win>> PROVE TokenInv'
  BY <1>3, SameBucket DEF TokenInv
<1>4. ASSUME UNCHANGED opt PROVE Ttl' = Ttl
  BY <1>4 DEF Ttl
<1>5. ASSUME NEW c \in Callers, NEW n \in Requests, NEW a \in BOOLEAN, RunScript(c, n, a)
      PROVE TokenInv'
  <2>1. UNCHANGED <<opt, clock>> /\ Ttl' = Ttl
    BY <1>4, <1>5 DEF RunScript, redis
  <2>2. CASE Ttl = 0
    <3>1. UNCHANGED <<bucket, win>>
      BY <1>5, <2>2 DEF RunScript
    <3> QED
      BY <1>3, <2>1, <3>1
  <2>3. CASE Ttl # 0
    <3> DEFINE late == (clock - now[c]) * opt.rate
    <3>0. now[c] \in Nat /\ now[c] <= clock
      BY <1>0 DEF TypeOK
    <3>1. PICK k, got \in Nat :
              /\ bucket' = [tokens |-> k, ts |-> now[c], exp |-> clock + Ttl]
              /\ k + got <= Filled(now[c])
              /\ win' = IF win.open
                        THEN [win EXCEPT !.granted = @ + got, !.slack = @ + late]
                        ELSE win
      BY <1>5, <2>3, ScriptBucket
    <3>2. [tokens |-> k, ts |-> now[c], exp |-> clock + Ttl] # Nil
      BY <1>0, <3>0, NilAssumption
    <3>3. Filled(clock)' <= k + late
      BY <2>1, <3>1, <3>2, ScriptPays
    <3>4. Filled(now[c]) \in Nat /\ Filled(now[c]) <= Filled(clock)
      <4>1. Filled(now[c]) \in 0..opt.burst
        BY <1>0, <3>0, FilledIs
      <4>2. Filled(now[c]) <= Filled(clock)
        BY <1>0, <3>0, FilledGrows
      <4> QED
        BY <1>0, <4>1, <4>2
    <3>5. late \in Nat
      BY <1>0, <3>0, Times
    <3>6. bucket'.exp >= bucket'.ts + Ttl
      BY <1>0, <3>0, <3>1
    <3>7. Filled(clock)' \in Nat
      BY <1>0, <1>2, <2>1
    <3> HIDE DEF late
    <3>8. CASE ~win.open
      <4>1. UNCHANGED win
        BY <3>1, <3>8
      <4> QED
        BY <2>1, <2>3, <3>6, <3>8, <4>1 DEF TokenInv
    <3>9. CASE win.open
      <4>1. /\ win'.granted = win.granted + got /\ win'.slack = win.slack + late
            /\ win'.start = win.start /\ win'.open
        BY <1>0, <3>1, <3>9
      <4>2. win.granted + Filled(clock) <= opt.burst + earned + win.slack
        BY <2>3, <3>9 DEF TokenInv
      <4>3. earned' = earned
        BY <2>1, <4>1
      <4>4. win'.granted + Filled(clock)' <= opt.burst + earned + win'.slack
        <5> HIDE DEF earned
        <5> QED
          BY <1>0, <1>1, <3>1, <3>3, <3>4, <3>5, <3>7, <4>1, <4>2
      <4> QED
        BY <2>1, <2>3, <3>6, <4>1, <4>3, <4>4 DEF TokenInv
    <3> QED
      BY <3>8, <3>9
  <2> QED
    BY <2>2, <2>3
<1>6. CASE Expire
  <2>1. UNCHANGED <<opt, clock, win>> /\ Ttl' = Ttl
    BY <1>4, <1>6 DEF Expire, redis
  <2>2. CASE UNCHANGED bucket
    BY <1>3, <2>1, <2>2
  <2>3. CASE bucket # Nil /\ clock >= bucket.exp /\ bucket' = Nil
    <3>1. Ttl # 0 => Filled(clock) = opt.burst
      <4>1. bucket.ts \in Nat /\ bucket.exp \in Nat /\ bucket.tokens \in Nat
        BY <1>0, <2>3 DEF Bucket
      <4>2. clock - bucket.ts \in Nat /\ Ttl <= clock - bucket.ts
        BY <1>0, <2>3, <4>1 DEF TokenInv
      <4>3. Ttl * opt.rate <= (clock - bucket.ts) * opt.rate
        BY <1>0, <4>2, Times
      <4>4. Ttl * opt.rate \in Nat /\ (clock - bucket.ts) * opt.rate \in Nat
        BY <1>0, <4>2, Times
      <4>5. Ttl # 0 => opt.burst <= Ttl * opt.rate
        BY <1>0, TtlFacts
      <4> DEFINE full == bucket.tokens + (clock - bucket.ts) * opt.rate
      <4>6. Ttl # 0 => opt.burst <= full
        BY <1>0, <4>1, <4>3, <4>4, <4>5
      <4>7. Filled(clock) = IF opt.burst <= full THEN opt.burst ELSE full
        <5>1. bucket.ts <= clock
          BY <2>3 DEF TypeOK
        <5> QED
          BY <1>0, <2>3, <5>1, FilledIs
      <4> HIDE DEF full
      <4> QED
        BY <4>6, <4>7
    <3>2. Ttl # 0 => Filled(clock)' <= Filled(clock)
      BY <1>0, <1>2, <2>1, <3>1
    <3>3. Filled(clock)' \in Nat /\ earned' = earned
      BY <1>0, <1>2, <2>1
    <3>4. win.open /\ Ttl # 0 =>
             win.granted + Filled(clock)' <= opt.burst + earned + win.slack
      <4> HIDE DEF earned
      <4>1. win.open /\ Ttl # 0 =>
               win.granted + Filled(clock) <= opt.burst + earned + win.slack
        BY DEF TokenInv, earned
      <4> QED
        BY <1>0, <1>1, <3>2, <3>3, <4>1
    <3> QED
      BY <2>1, <2>3, <3>3, <3>4 DEF TokenInv
  <2> QED
    BY <1>6, <2>2, <2>3 DEF Expire
<1>7. ASSUME NEW lost \in BOOLEAN, RedisUp(lost) PROVE TokenInv'
  <2>1. UNCHANGED <<opt, clock>> /\ Ttl' = Ttl
    BY <1>4, <1>7 DEF RedisUp
  <2>2. CASE ~lost
    <3>1. UNCHANGED <<bucket, win>>
      BY <1>7, <2>2 DEF RedisUp, store
    <3> QED
      BY <1>3, <2>1, <3>1
  <2>3. CASE lost /\ ~win.open
    <3>1. UNCHANGED win /\ bucket' = Nil
      BY <1>7, <2>3 DEF RedisUp
    <3> QED
      BY <2>1, <2>3, <3>1 DEF TokenInv
  <2>4. CASE lost /\ win.open
    <3>1. win' = [win EXCEPT !.slack = @ + opt.burst] /\ bucket' = Nil
      BY <1>7, <2>4 DEF RedisUp
    <3>2. /\ win'.slack = win.slack + opt.burst /\ win'.granted = win.granted
          /\ win'.start = win.start /\ win'.open
      BY <1>0, <2>4, <3>1
    <3>3. Filled(clock)' \in 0..opt.burst /\ earned' = earned
      BY <1>2, <2>1, <3>2
    <3>4. Ttl # 0 => win'.granted + Filled(clock)' <= opt.burst + earned + win'.slack
      <4> HIDE DEF earned
      <4>1. Ttl # 0 => win.granted + Filled(clock) <= opt.burst + earned + win.slack
        BY <2>4 DEF TokenInv, earned
      <4> QED
        BY <1>0, <1>1, <3>2, <3>3, <4>1
    <3> QED
      BY <2>1, <3>1, <3>2, <3>3, <3>4 DEF TokenInv
  <2> QED
    BY <2>2, <2>3, <2>4
<1>8. CASE Tick
  <2>1. UNCHANGED <<opt, bucket, win>> /\ clock' = clock + 1 /\ Ttl' = Ttl
    BY <1>4, <1>8 DEF Tick, store
  <2>2. Filled(clock)' = Filled(clock + 1)
    BY <2>1 DEF Filled
  <2>3. Filled(clock + 1) \in Nat /\ Filled(clock + 1) <= Filled(clock) + opt.rate
    <3>1. Filled(clock + 1) <= Filled(clock) + ((clock + 1) - clock) * opt.rate
      BY <1>0, FilledGrows
    <3>2. ((clock + 1) - clock) * opt.rate = opt.rate
      BY <1>0
    <3> QED
      BY <1>0, <3>1, <3>2, FilledIs
  <2>4. earned' = earned + opt.rate
    <3>1. clock' - win'.start = (clock - win.start) + 1
      BY <1>0, <2>1
    <3>2. ((clock - win.start) + 1) * opt.rate = (clock - win.start) * opt.rate + 1 * opt.rate
      BY <1>0, Times
    <3> QED
      BY <1>0, <2>1, <3>1, <3>2
  <2>5. win.open /\ Ttl # 0 =>
           win.granted + Filled(clock)' <= opt.burst + earned' + win.slack
    <3>1. win.open /\ Ttl # 0 =>
             win.granted + Filled(clock) <= opt.burst + earned + win.slack
      BY DEF TokenInv
    <3> HIDE DEF earned
    <3> QED
      BY <1>0, <1>1, <2>2, <2>3, <2>4, <3>1
  <2> QED
    BY <2>1, <2>5 DEF TokenInv
<1>9. CASE OpenWindow
  <2>1. /\ UNCHANGED <<opt, bucket, clock>>
        /\ win' = [open |-> TRUE, start |-> clock, granted |-> 0, slack |-> 0]
    BY <1>9 DEF OpenWindow, redis, store
  <2>2. (clock - clock) * opt.rate = 0
    BY <1>0
  <2>3. 0 + Filled(clock) <= opt.burst + (clock - clock) * opt.rate + 0
    BY <1>0, <1>1, <2>2
  <2> QED
    BY <2>1, <2>3, SameBucket DEF TokenInv
<1>10. CASE RedisDown
  BY <1>3, <1>10 DEF RedisDown, store
<1>11. CASE UNCHANGED <<opt, redis, bucket, win>>
  BY <1>3, <1>11 DEF redis
<1> QED
  BY <1>5, <1>6, <1>7, <1>8, <1>9, <1>10, <1>11 DEF Next, AllowN, ScriptError, Rescue, Ping,
     MonitorEnd, Take, TakeScript, TakeError, vars, redis, store

-----------------------------------------------------------------------------
\* A counter made in the calendar period of its caller's time lives to the end
\* of it: calcExpireSeconds is what remains at that time, and the script runs no
\* earlier.
LEMMA OwnLives ==
    ASSUME opt \in Options, opt.align, NEW t \in Nat, NEW u \in Nat, t <= u, Period(t) = Period(u)
    PROVE  u + Window(t) >= (Period(u) + 1) * opt.period
<1>0. opt.period \in Nat \ {0}
  BY OptFacts
<1>1. /\ t % opt.period \in 0..(opt.period - 1)
      /\ t = opt.period * (t \div opt.period) + (t % opt.period)
      /\ t \div opt.period \in Nat
  BY <1>0, Division, Remainder
<1> DEFINE q == t \div opt.period
<1>2. (Period(u) + 1) * opt.period = opt.period * q + opt.period
  <2>1. Period(u) = q
    BY DEF Period
  <2>2. (q + 1) * opt.period = opt.period * q + opt.period
    BY <1>0, <1>1
  <2> QED
    BY <2>1, <2>2
<1>3. Window(t) = opt.period - (t % opt.period)
  BY DEF Window
<1>4. opt.period * q \in Nat
  BY <1>0, <1>1, Times
<1> QED
  BY <1>0, <1>1, <1>2, <1>3, <1>4

\* The calendar period of a moment ends after it.
LEMMA PeriodEnds ==
    ASSUME opt \in Options, NEW t \in Nat
    PROVE  t < (Period(t) + 1) * opt.period
<1>1. opt.period \in Nat \ {0}
  BY OptFacts
<1>2. t < opt.period * (t \div opt.period) + opt.period /\ t \div opt.period \in Nat
  BY <1>1, Division
<1>3. (Period(t) + 1) * opt.period = opt.period * (t \div opt.period) + opt.period
  BY <1>1, <1>2 DEF Period
<1> QED
  BY <1>2, <1>3

LEMMA NextPeriod == TypeOK /\ PeriodInv /\ [Next]_vars => PeriodInv'
<1> SUFFICES ASSUME TypeOK, PeriodInv, [Next]_vars PROVE PeriodInv'
  OBVIOUS
<1>0. /\ opt \in Options /\ clock \in Nat
      /\ opt.quota \in Nat /\ opt.quota >= 1
      /\ cal \in [granted : Nat, hits : Nat, foreign : Nat]
      /\ cal.granted \in Nat /\ cal.hits \in Nat /\ cal.foreign \in Nat
      /\ counter # Nil => counter.n \in Nat /\ counter.exp \in Nat /\ counter.n >= 1
  BY OptFacts, BoundAssumption DEF TypeOK, PeriodInv
<1>1. ASSUME UNCHANGED <<opt, clock, counter, cal>> PROVE PeriodInv'
  BY <1>1 DEF PeriodInv, NoCounter, ForeignCounter, OwnCounter, Permits, HitsOf, Period
<1>2. /\ opt.quota * cal.foreign \in Nat
      /\ opt.quota * (cal.foreign + 1) = opt.quota * cal.foreign + opt.quota
  BY <1>0, OneMore
<1>3. cal.foreign >= 1 =>
         /\ opt.quota * (cal.foreign - 1) \in Nat
         /\ opt.quota * cal.foreign = opt.quota * (cal.foreign - 1) + opt.quota
  BY <1>0
<1>4. ASSUME NEW c \in Callers, NEW a \in BOOLEAN, TakeScript(c, a) PROVE PeriodInv'
  <2> DEFINE current == IF counter = Nil THEN 1 ELSE counter.n + 1
             expires == IF current = 1 THEN clock + Window(now[c]) ELSE counter.exp
             permit  == a /\ current <= opt.quota
             hit     == a /\ current = opt.quota
             foreign == current = 1 /\ Period(now[c]) # Period(clock)
  <2>1. /\ UNCHANGED <<opt, clock>>
        /\ counter' = [n |-> current, exp |-> expires]
        /\ cal' = [granted |-> cal.granted + (IF permit THEN 1 ELSE 0),
                   hits    |-> cal.hits + (IF hit THEN 1 ELSE 0),
                   foreign |-> cal.foreign + (IF foreign THEN 1 ELSE 0)]
    BY <1>4 DEF TakeScript, redis
  <2>2. now[c] \in Nat /\ now[c] <= clock
    BY <1>0 DEF TypeOK
  <2>3. current \in Nat /\ current >= 1 /\ (current = 1 <=> counter = Nil)
    BY <1>0
  <2>4. expires \in Nat
    <3>1. Window(now[c]) \in Nat
      <4>1. opt.period \in Nat \ {0}
        BY <1>0, OptFacts
      <4>2. now[c] % opt.period \in 0..(opt.period - 1)
        BY <2>2, <4>1, Remainder
      <4> QED
        BY <4>1, <4>2 DEF Window
    <3> QED
      BY <1>0, <2>3, <3>1
  <2>5. counter' # Nil /\ counter'.n = current /\ counter'.exp = expires
    <3> HIDE DEF current, expires
    <3> QED
      BY <2>1, <2>3, <2>4, NilAssumption
  <2>6. /\ cal'.granted <= cal.granted + (IF current <= opt.quota THEN 1 ELSE 0)
        /\ cal'.hits <= cal.hits + (IF current = opt.quota THEN 1 ELSE 0)
        /\ cal'.granted \in Nat /\ cal'.hits \in Nat
        /\ cal'.foreign = cal.foreign + (IF foreign THEN 1 ELSE 0)
    <3> HIDE DEF current, foreign
    <3> QED
      BY <1>0, <2>1, <2>3
  <2>7. /\ opt'.quota = opt.quota /\ Period(clock)' = Period(clock) /\ opt'.period = opt.period
        /\ Permits(counter.n)' = Permits(current) /\ HitsOf(counter.n)' = HitsOf(current)
    BY <2>1, <2>5 DEF Permits, HitsOf, Period
  <2>8. CASE ~opt.align
    BY <2>1, <2>3, <2>5, <2>8 DEF PeriodInv
  <2>9. CASE opt.align /\ counter = Nil
    <3>1. current = 1 /\ Permits(current) = 1 /\ HitsOf(current) = IF 1 = opt.quota THEN 1 ELSE 0
      BY <1>0, <2>9 DEF Permits, HitsOf
    <3>2. cal.granted <= opt.quota * cal.foreign /\ cal.hits <= cal.foreign
      BY <2>9 DEF PeriodInv, NoCounter, ForeignCounter, OwnCounter
    <3>3. /\ cal'.granted <= opt.quota * cal.foreign + Permits(current)
          /\ cal'.hits <= cal.foreign + HitsOf(current)
      <4> HIDE DEF current, foreign
      <4> QED
        BY <1>0, <1>2, <2>6, <3>1, <3>2
    <3>4. CASE foreign
      <4>1. cal'.foreign = cal.foreign + 1 /\ cal'.foreign - 1 = cal.foreign /\ cal'.foreign >= 1
        BY <1>0, <2>6, <3>4
      <4>2. ForeignCounter'
        <5> HIDE DEF current, foreign
        <5> QED
          BY <2>5, <2>7, <3>3, <4>1 DEF ForeignCounter
      <4> QED
        BY <2>3, <2>5, <4>2 DEF PeriodInv
    <3>5. CASE ~foreign
      <4>1. cal'.foreign = cal.foreign
        BY <1>0, <2>6, <3>5
      <4>2. expires = clock + Window(now[c]) /\ Period(now[c]) = Period(clock)
        BY <3>1, <3>5
      <4>3. clock + Window(now[c]) >= (Period(clock) + 1) * opt.period
        BY <1>0, <2>2, <2>9, <4>2, OwnLives
      <4>4. OwnCounter'
        <5> HIDE DEF current, foreign, expires
        <5> QED
          BY <2>5, <2>7, <3>3, <4>1, <4>2, <4>3 DEF OwnCounter
      <4> QED
        BY <2>3, <2>5, <4>4 DEF PeriodInv
    <3> QED
      BY <3>4, <3>5
  <2>10. CASE opt.align /\ counter # Nil
    <3>1. /\ current = counter.n + 1 /\ expires = counter.exp /\ ~foreign
          /\ cal'.foreign = cal.foreign
      BY <1>0, <2>3, <2>6, <2>10
    <3>2. /\ Permits(current) = Permits(counter.n) + (IF current <= opt.quota THEN 1 ELSE 0)
          /\ HitsOf(current) = HitsOf(counter.n) + (IF current = opt.quota THEN 1 ELSE 0)
          /\ Permits(counter.n) \in Nat /\ HitsOf(counter.n) \in Nat
      BY <1>0, <2>10, <3>1 DEF Permits, HitsOf
    <3> HIDE DEF current, foreign, expires
    <3>3. CASE ForeignCounter
      <4>1. /\ cal'.granted <= opt.quota * (cal.foreign - 1) + Permits(current)
            /\ cal'.hits <= cal.foreign - 1 + HitsOf(current)
        BY <1>0, <1>3, <2>6, <3>2, <3>3 DEF ForeignCounter
      <4>2. ForeignCounter'
        BY <2>5, <2>7, <3>1, <3>3, <4>1 DEF ForeignCounter
      <4> QED
        BY <2>3, <2>5, <4>2 DEF PeriodInv
    <3>4. CASE OwnCounter
      <4>1. /\ cal'.granted <= opt.quota * cal.foreign + Permits(current)
            /\ cal'.hits <= cal.foreign + HitsOf(current)
        BY <1>0, <1>2, <2>6, <3>2, <3>4 DEF OwnCounter
      <4>2. OwnCounter'
        BY <2>5, <2>7, <3>1, <3>4, <4>1 DEF OwnCounter
      <4> QED
        BY <2>3, <2>5, <4>2 DEF PeriodInv
    <3> QED
      BY <2>10, <3>3, <3>4 DEF PeriodInv, NoCounter
  <2> QED
    BY <2>8, <2>9, <2>10
\* A counter that is gone leaves no more than its quota behind.
<1>5. /\ ForeignCounter => /\ cal.granted <= opt.quota * cal.foreign
                           /\ cal.hits <= cal.foreign
      /\ OwnCounter => /\ cal.granted <= opt.quota * (cal.foreign + 1)
                       /\ cal.hits <= cal.foreign + 1
  <2>1. counter # Nil => /\ Permits(counter.n) <= opt.quota /\ Permits(counter.n) \in Nat
                         /\ HitsOf(counter.n) <= 1 /\ HitsOf(counter.n) \in Nat
    BY <1>0 DEF Permits, HitsOf
  <2>2. ASSUME ForeignCounter
        PROVE  cal.granted <= opt.quota * cal.foreign /\ cal.hits <= cal.foreign
    BY <1>0, <1>3, <2>1, <2>2 DEF ForeignCounter
  <2>3. ASSUME OwnCounter
        PROVE  cal.granted <= opt.quota * (cal.foreign + 1) /\ cal.hits <= cal.foreign + 1
    BY <1>0, <1>2, <2>1, <2>3 DEF OwnCounter
  <2> QED
    BY <2>2, <2>3
<1>6. CASE Expire
  <2>1. UNCHANGED <<opt, clock, cal>>
    BY <1>6 DEF Expire, redis
  <2>2. CASE UNCHANGED counter
    BY <1>1, <2>1, <2>2
  <2>3. CASE counter # Nil /\ clock >= counter.exp /\ counter' = Nil
    <3>1. ~OwnCounter
      <4>1. clock < (Period(clock) + 1) * opt.period
        BY <1>0, PeriodEnds
      <4>2. Period(clock) \in Nat /\ opt.period \in Nat
        BY <1>0, OptFacts, Division DEF Period
      <4> DEFINE end == (Period(clock) + 1) * opt.period
      <4>3. end \in Nat
        BY <4>2, Times
      <4>4. OwnCounter => counter.exp >= end
        BY DEF OwnCounter
      <4> HIDE DEF end
      <4>5. clock < end
        BY <4>1 DEF end
      <4> QED
        BY <1>0, <2>3, <4>3, <4>4, <4>5
    <3>2. opt.align => ForeignCounter
      BY <2>3, <3>1 DEF PeriodInv, NoCounter
    <3>3. opt.align => NoCounter'
      BY <1>5, <2>1, <2>3, <3>2 DEF NoCounter
    <3> QED
      BY <2>1, <2>3, <3>3 DEF PeriodInv
  <2> QED
    BY <1>6, <2>2, <2>3 DEF Expire
<1>7. ASSUME NEW lost \in BOOLEAN, RedisUp(lost) PROVE PeriodInv'
  <2>1. UNCHANGED <<opt, clock>>
    BY <1>7 DEF RedisUp
  <2>2. CASE ~lost
    <3>1. UNCHANGED <<counter, cal>>
      BY <1>7, <2>2 DEF RedisUp, store
    <3> QED
      BY <1>1, <2>1, <3>1
  <2>3. CASE lost /\ counter = Nil
    <3>1. UNCHANGED <<counter, cal>>
      BY <1>7, <2>3 DEF RedisUp
    <3> QED
      BY <1>1, <2>1, <3>1
  <2>4. CASE lost /\ counter # Nil
    <3>1. counter' = Nil /\ cal' = [cal EXCEPT !.foreign = @ + 1]
      BY <1>7, <2>4 DEF RedisUp
    <3>2. /\ cal'.granted = cal.granted /\ cal'.hits = cal.hits
          /\ cal'.foreign = cal.foreign + 1
      BY <1>0, <3>1
    <3>3. opt.align => cal.granted <= opt.quota * (cal.foreign + 1) /\ cal.hits <= cal.foreign + 1
      BY <1>0, <1>2, <1>5, <2>4 DEF PeriodInv, NoCounter
    <3>4. opt.align => NoCounter'
      BY <2>1, <3>1, <3>2, <3>3 DEF NoCounter
    <3> QED
      BY <2>1, <3>1, <3>4 DEF PeriodInv
  <2> QED
    BY <2>2, <2>3, <2>4
<1>8. CASE Tick
  <2>1. UNCHANGED <<opt, counter>> /\ clock' = clock + 1 /\ Period(clock)' = Period(clock + 1)
    BY <1>8 DEF Tick, store, Period
  <2>2. CASE Period(clock + 1) = Period(clock)
    <3>1. UNCHANGED cal /\ Period(clock)' = Period(clock)
      BY <1>8, <2>1, <2>2 DEF Tick
    <3> QED
      BY <2>1, <3>1 DEF PeriodInv, NoCounter, ForeignCounter, OwnCounter, Permits, HitsOf
  <2>3. CASE Period(clock + 1) # Period(clock)
    <3>1. cal' = [granted |-> 0, hits |-> 0, foreign |-> IF counter = Nil THEN 0 ELSE 1]
      BY <1>8, <2>3 DEF Tick
    <3>2. cal'.granted = 0 /\ cal'.hits = 0 /\ cal'.foreign = IF counter = Nil THEN 0 ELSE 1
      BY <3>1
    <3>3. CASE counter = Nil
      <4>1. opt.quota * 0 = 0
        BY <1>0
      <4>2. NoCounter'
        BY <2>1, <3>2, <3>3, <4>1 DEF NoCounter
      <4> QED
        BY <2>1, <3>3, <4>2 DEF PeriodInv
    <3>4. CASE counter # Nil
      <4>1. opt.quota * (1 - 1) = 0
        BY <1>0
      <4>2. Permits(counter.n)' \in Nat /\ HitsOf(counter.n)' \in Nat
        BY <1>0, <2>1, <3>4 DEF Permits, HitsOf
      <4>3. ForeignCounter'
        BY <2>1, <3>2, <3>4, <4>1, <4>2 DEF ForeignCounter
      <4> QED
        BY <1>0, <2>1, <3>4, <4>3 DEF PeriodInv
    <3> QED
      BY <3>3, <3>4
  <2> QED
    BY <2>2, <2>3
<1>9. CASE RedisDown \/ OpenWindow
  BY <1>1, <1>9 DEF RedisDown, OpenWindow, store, redis
<1>10. CASE UNCHANGED <<opt, redis, counter, cal>>
  BY <1>1, <1>10 DEF redis
<1> QED
  BY <1>4, <1>6, <1>7, <1>8, <1>9, <1>10 DEF Next, AllowN, RunScript, ScriptError, Rescue, Ping,
     MonitorEnd, Take, TakeError, vars, redis, store

-----------------------------------------------------------------------------
LEMMA InitInv == Init => IInv
<1> SUFFICES ASSUME Init PROVE IInv
  OBVIOUS
<1>1. MonitorExact
  BY DEF Init, MonitorExact
<1>2. TokenInv
  BY DEF Init, TokenInv
<1>3. opt \in Options
  BY DEF Init
<1>4. opt.quota * 0 = 0
  BY <1>3, OptFacts
<1>5. PeriodInv
  BY <1>4 DEF Init, PeriodInv, NoCounter
<1> QED
  BY <1>1, <1>2, <1>5, InitTypes DEF IInv

LEMMA NextInv == IInv /\ [Next]_vars => IInv'
BY NextTypes, NextMonitor, NextToken, NextPeriod DEF IInv

LEMMA InvWindow == IInv => WindowBound
<1> SUFFICES ASSUME IInv PROVE WindowBound
  OBVIOUS
<1> DEFINE earned == (clock - win.start) * opt.rate
<1>0. /\ opt \in Options /\ Bucket /\ clock \in Nat
      /\ opt.rate \in Nat /\ opt.burst \in Nat
      /\ win.granted \in Nat /\ win.slack \in Nat /\ clock - win.start \in Nat
  BY OptFacts, BoundAssumption DEF IInv, TypeOK, Bucket
<1>1. Filled(clock) \in 0..opt.burst /\ earned \in Nat
  BY <1>0, FilledIs, Times
<1>2. ~win.open \/ Ttl = 0 => win.granted = 0
  BY DEF IInv, TokenInv
<1>3. win.open /\ Ttl # 0 => win.granted + Filled(clock) <= opt.burst + earned + win.slack
  BY DEF IInv, TokenInv
<1>4. Ttl # 0 => win.granted <= opt.burst + earned + win.slack
  <2> HIDE DEF earned
  <2> QED
    BY <1>0, <1>1, <1>2, <1>3
<1> QED
  BY <1>2, <1>4 DEF WindowBound

LEMMA InvQuota == IInv => AlignedQuota
<1> SUFFICES ASSUME IInv, opt.align
             PROVE  cal.granted <= opt.quota * (1 + cal.foreign) /\ cal.hits <= 1 + cal.foreign
  BY DEF AlignedQuota
<1>0. /\ opt.quota \in Nat /\ opt.quota >= 1
      /\ cal.granted \in Nat /\ cal.hits \in Nat /\ cal.foreign \in Nat
      /\ counter # Nil => counter.n \in Nat
  BY OptFacts DEF IInv, TypeOK
<1>1. /\ opt.quota * cal.foreign \in Nat
      /\ opt.quota * (1 + cal.foreign) = opt.quota * cal.foreign + opt.quota
      /\ cal.foreign >= 1 =>
            /\ opt.quota * (cal.foreign - 1) \in Nat
            /\ opt.quota * cal.foreign = opt.quota * (cal.foreign - 1) + opt.quota
  BY <1>0
<1>2. counter # Nil => /\ Permits(counter.n) <= opt.quota /\ Permits(counter.n) \in Nat
                       /\ HitsOf(counter.n) <= 1 /\ HitsOf(counter.n) \in Nat
  BY <1>0 DEF Permits, HitsOf
<1>3. CASE NoCounter
  BY <1>0, <1>1, <1>3 DEF NoCounter
<1>4. CASE ForeignCounter
  BY <1>0, <1>1, <1>2, <1>4 DEF ForeignCounter
<1>5. CASE OwnCounter
  BY <1>0, <1>1, <1>2, <1>5 DEF OwnCounter
<1> QED
  BY <1>3, <1>4, <1>5 DEF IInv, PeriodInv

\* Every variable has its type; in particular the script never writes more
\* tokens than the burst, or fewer than none, or a time in the future.
THEOREM LimitTypes == Spec => []TypeOK
<1>1. Spec => []IInv
  BY InitInv, NextInv, PTL DEF Spec
<1>2. IInv => TypeOK
  BY DEF IInv
<1> QED
  BY <1>1, <1>2, PTL

\* The processes together get from redis no more tokens in any stretch of time
\* than burst and rate allow, but for late scripts and lost data: in particular
\* the keys that expire by the ttl of the script never give a token away.
THEOREM TokensBounded == Spec => []WindowBound
<1>1. Spec => []IInv
  BY InitInv, NextInv, PTL DEF Spec
<1> QED
  BY <1>1, InvWindow, PTL

\* With Align the quota is granted, and HitQuota told, once in a calendar period
\* for its own counter and for each foreign one.
THEOREM QuotaAligned == Spec => []AlignedQuota
<1>1. Spec => []IInv
  BY InitInv, NextInv, PTL DEF Spec
<1> QED
  BY <1>1, InvQuota, PTL

\* A process that takes redis for dead has one goroutine in waitForRedis, and
\* never a second one, however startMonitor races its end.
THEOREM MonitorsExact == Spec => []MonitorExact
<1>1. Spec => []IInv
  BY InitInv, NextInv, PTL DEF Spec
<1>2. IInv => MonitorExact
  BY DEF IInv
<1> QED
  BY <1>1, <1>2, PTL
=============================================================================
