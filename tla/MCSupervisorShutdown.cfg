SPECIFICATION Spec
CONSTANTS
    ReservedIds = {a}
    ExplicitIds = {}
    Clients = {c1}
    Closers = {z1, z2}
    MaxSequence = 3
    MaxInstances = 2
    HistoryCapacity = 0
    ProgressCapacity = 1
    SharedCalls = {}
    MayPoison = TRUE
SYMMETRY Symmetry
INVARIANTS ReapInv ShutdownSound
PROPERTIES OutcomeFinal
CHECK_DEADLOCK FALSE
