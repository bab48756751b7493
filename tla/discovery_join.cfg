\* Two subscribers join while a server comes; the connection is never lost.
SPECIFICATION Spec
CONSTANTS
    k1 = k1
    v1 = v1
    v2 = v2
    s1 = s1
    s2 = s2
    w1 = w1
    w2 = w2
    r1 = r1
    NoVal = NoVal
    Unlocked = Unlocked
    Keys <- OneKey
    Vals <- OneVal
    Puts <- OneServer
    Subs <- TwoSubs
    Exclusive <- NoSub
    Watchers <- TwoWatchers
    Reloaders <- OneReloader
    MaxRev = 1
    MaxReconnects = 0
SYMMETRY Symmetry
INVARIANT ValuesComplete
CHECK_DEADLOCK FALSE
