SPECIFICATION Spec
CONSTANTS
    Nodes = {"a", "b"}
    MaxPerDest = 2
    MaxTotal = 3
    MaxDelivered = 2
    MaxStored = 5
INVARIANTS
    TypeOK
    HandedOnce
CHECK_DEADLOCK FALSE
