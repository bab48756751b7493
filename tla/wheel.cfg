\* Clients use every operation in every order.
SPECIFICATION Spec
CONSTANTS
    k1 = k1
    k2 = k2
    i1 = i1
    i2 = i2
    i3 = i3
    v1 = v1
    v2 = v2
    c1 = c1
    c2 = c2
    NoValue = NoValue
    NoItem = NoItem
    Ids <- ThreeIds
    Callbacks <- TwoCallbacks
    NumSlots = 2
    Keys <- TwoKeys
    Values <- TwoValues
    SetDelays <- SomeDelays
    MoveDelays <- SomeDelays
    ResetPending = TRUE
    Draining = TRUE
VIEW WheelState
SYMMETRY Symmetry
INVARIANTS TypeOK LiveIsCurrent ShiftLeavesSlot
PROPERTIES OnScheduleExcept LateArgs
CHECK_DEADLOCK FALSE
