SPECIFICATION OpenSpec
SYMMETRY Symmetry
CONSTANTS
    Ids = {a, b}
    Lanes = {"foreground", "speculative"}
    MaxNonce = 3
INVARIANT RequestsInv
PROPERTIES ImplementsContract PreemptionMeasured
CHECK_DEADLOCK FALSE
