\* Two adders, a caller of Flush and Wait, two generations of the background
\* goroutine.
SPECIFICATION Spec
CONSTANTS
    t1 = t1
    t2 = t2
    t3 = t3
    a1 = a1
    a2 = a2
    b1 = b1
    b2 = b2
    c1 = c1
    Nobody = Nobody
    Tasks <- ThreeTasks
    Size <- SomeSizes
    MaxSize = 2
    Adders <- TwoAdders
    Callers <- OneCaller
    Flushers <- TwoFlushers
PROPERTY WaitWaits
