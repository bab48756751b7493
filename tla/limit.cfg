\* One process with two callers, every limiter of SomeLimiters.
SPECIFICATION FairSpec
CONSTANTS
    p1 = p1
    c1 = c1
    c2 = c2
    Nil = Nil
    Procs <- OneProc
    Callers <- TwoCallers
    Home <- OneHome
    Options <- SomeLimiters
    Requests = {1, 2}
    MaxTime = 3
    MaxCalls = 2
    MaxDowns = 1
INVARIANTS TypeOK WindowBound AlignedQuota MonitorExact
PROPERTIES BackToRedis
CHECK_DEADLOCK FALSE
