\* Two items, two workers, a deadline, and user functions that do anything.
SPECIFICATION FairSpec
CONSTANTS
    i1 = i1
    i2 = i2
    Items <- TwoItems
    Caller = Caller
    Generator = Generator
    Executor = Executor
    Reducer = Reducer
    Workers = 2
    MaxWrites = 1
    MaxOutputs = 3
    Deadline = TRUE
INVARIANTS TypeOK PlacesExact ClosedAfterMappers CompleteUnlessCancelled NoOutputIsHonest PanicsReachCaller
PROPERTY EverybodyEnds
CHECK_DEADLOCK FALSE
