SPECIFICATION FairSpec
CONSTANTS
    Ids = {a}
    WorkerIds = {w1}
    Waiters = {v1}
    MaxSequence = 4
    HistoryCapacity = 0
    ProgressCapacity = 1
INVARIANT SupervisorInv
PROPERTIES ImplementsContract CloseFinal ReleaseWakes
CHECK_DEADLOCK FALSE
