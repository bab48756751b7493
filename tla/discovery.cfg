\* Two subscribers join while servers come and go under one key
\* and with either of two values, streams break and the
\* connection is lost once.
SPECIFICATION Spec
CONSTANTS
    k1 = k1
    v1 = v1
    v2 = v2
    s1 = s1
    s2 = s2
    w1 = w1
    w2 = w2
    r1 = r1
    NoVal = NoVal
    Unlocked = Unlocked
    Keys <- OneKey
    Vals <- TwoVals
    Puts <- TwoServers
    Subs <- TwoSubs
    Exclusive <- NoSub
    Watchers <- TwoWatchers
    Reloaders <- OneReloader
    MaxRev = 2
    MaxReconnects = 1
SYMMETRY Symmetry
INVARIANTS TypeOK CacheConverges KeysComplete
CHECK_DEADLOCK FALSE
