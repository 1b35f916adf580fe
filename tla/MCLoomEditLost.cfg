SPECIFICATION Spec
CONSTANTS
    Texts = {a, b, c}
    Found = {a, "absent"}
    MaxRevisions = 2
    MaxFaults = 1
    MaxEdits = 2
INVARIANT CapturedBytesRetained
CHECK_DEADLOCK FALSE
