SPECIFICATION FairSpec
CONSTANTS
    Ids = {a}
    Kinds = {"exact", "count"}
    Hosted = {"h"}
    Native = {"n"}
    Slots = 1
    MaxAdmissions = 1
    MaxSequence = 2
    MaxAdmitted = 2
    Closers = {z1, z2}
    MayPoison = TRUE
INVARIANT CloseInv
PROPERTIES ShutdownReturns
CHECK_DEADLOCK FALSE
