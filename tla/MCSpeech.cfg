SPECIFICATION FairSpec
CONSTANTS
    Ids = {a}
    Slots = 1
    MaxSequence = 2
    Callers = {z1, z2}
INVARIANT HostInv
PROPERTIES ImplementsContract StopEnds ShutdownReturns
CHECK_DEADLOCK FALSE
