SPECIFICATION FairSpec
CONSTANTS
    p1 = p1
    i1 = i1
    Nothing = Nothing
    Producers = {p1}
    Ids = {i1}
    IdOf <- UniqueIds
    Confirmers = {c1, c2}
    Aborters = {a1}
    Handoffs = {h1}
    Closers = {s1}
INVARIANT SpeculationInv
PROPERTIES FirstRecordingStands FailedReturns ShutdownDrains
CHECK_DEADLOCK FALSE
