SPECIFICATION FairSpec
CONSTANTS
    Ids = {a}
    Kinds = {"execute"}
    Hosted = {}
    Native = {"n"}
    Slots = 1
    MaxAdmissions = 2
    MaxSequence = 3
    MaxAdmitted = 2
    Closers = {z1}
    MayPoison = FALSE
INVARIANT GatewayInv
PROPERTIES ImplementsContract StopEnds
CHECK_DEADLOCK FALSE
