SPECIFICATION FairSpec
CONSTANTS
    Nodes = {"a", "b"}
    QueueLimit = 1
    Slots = 1
    MaxAttempts = 2
    AirBudget = 2
    MaxHop = 2
    MaxLapses = 0
    Scenarios <- BusyChannel
PROPERTY
    QueueDrains
CHECK_DEADLOCK FALSE
