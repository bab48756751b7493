\* One subscriber, and a server that comes while the connection is lost.
SPECIFICATION Spec
CONSTANTS
    k1 = k1
    v1 = v1
    v2 = v2
    s1 = s1
    s2 = s2
    w1 = w1
    w2 = w2
    r1 = r1
    NoVal = NoVal
    Unlocked = Unlocked
    Keys <- OneKey
    Vals <- OneVal
    Puts <- OneServer
    Subs <- OneSub
    Exclusive <- NoSub
    Watchers <- TwoWatchers
    Reloaders <- OneReloader
    MaxRev = 1
    MaxReconnects = 1
SYMMETRY Symmetry
INVARIANT ReloadNotBlocked
CHECK_DEADLOCK FALSE
