SPECIFICATION FairSpec
CONSTANTS
    Texts = {a, b, c}
    Found = {a, "absent"}
    MaxRevisions = 2
    MaxFaults = 1
    MaxEdits = 2
INVARIANTS EditSurvives StoreInv
PROPERTY CommandsSettle
CHECK_DEADLOCK FALSE
