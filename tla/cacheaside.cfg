\* Two processes, two readers in the same or in different processes, one writer.
SPECIFICATION FairSpec
CONSTANTS
    p1 = p1
    p2 = p2
    r1 = r1
    r2 = r2
    w1 = w1
    Nobody = Nobody
    Procs <- TwoProcs
    Readers <- TwoReaders
    Writers <- OneWriter
    Homes <- SomeHomes
    MaxUpdates = 1
INVARIANTS TypeOK StaleHasReason FlightShared
PROPERTIES EverythingEnds
