SPECIFICATION FairSpec
CONSTANTS
    Nodes = {"a", "b", "c", "d"}
    QueueLimit = 1
    Slots = 1
    MaxAttempts = 2
    AirBudget = 2
    MaxHop = 2
    MaxLapses = 1
    Scenarios <- Floods
INVARIANTS
    TypeOK
    OnceEach
    ReachBounded
    TreeReached
    NeighbourhoodServed
PROPERTIES
    OneAtATime
    FloodEnds
CHECK_DEADLOCK FALSE
