SPECIFICATION FairSpec
CONSTANTS
    Ids = {a, b}
    Lanes = {"foreground"}
    MaxNonce = 2
INVARIANTS CloseInv
PROPERTIES ClosedStays ShutdownReturns
CHECK_DEADLOCK FALSE
