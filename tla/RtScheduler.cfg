SPECIFICATION FairSpec
CONSTANTS
    Threads = {"t1", "t2"}
    TxTurn = 2
    RxTurn = 2
    Tolerance = 4
    MaxSleep = 2
    MaxTime = 12
    Scenarios <- Everyday
INVARIANTS
    TypeOK
    Balanced
    NeverStuck
    FollowsTimetable
PROPERTIES
    LegalTransitions
    DueServed
    BurstEnds
CHECK_DEADLOCK FALSE
