\* Clients set and move timers by whole ticks, and never drain.
SPECIFICATION Spec
CONSTANTS
    k1 = k1
    k2 = k2
    i1 = i1
    i2 = i2
    i3 = i3
    v1 = v1
    v2 = v2
    c1 = c1
    c2 = c2
    NoValue = NoValue
    NoItem = NoItem
    Ids <- ThreeIds
    Callbacks <- TwoCallbacks
    NumSlots = 3
    Keys <- TwoKeys
    Values <- TwoValues
    SetDelays <- WithinATurn
    MoveDelays <- WithinATurn
    ResetPending = TRUE
    Draining = FALSE
SYMMETRY Symmetry
PROPERTY OnSchedule
CHECK_DEADLOCK FALSE
