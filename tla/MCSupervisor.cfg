SPECIFICATION FairSpec
CONSTANTS
    ReservedIds = {a}
    ExplicitIds = {b}
    Clients = {c1}
    Closers = {z1}
    MaxSequence = 2
    MaxInstances = 2
    HistoryCapacity = 0
    ProgressCapacity = 1
    SharedCalls = {"progress", "release"}
    MayPoison = FALSE
INVARIANTS RollbackOwnsEntry TypeOK IdentityHeld CancellationReaches TerminalTruth
PROPERTIES TerminalFinal ShutdownReturns WaitReturns
CHECK_DEADLOCK FALSE
