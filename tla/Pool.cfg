SPECIFICATION FairSpec
CONSTANTS
    Threads = {t1, t2, t3}
    Requested = 2
    MaxCalls = 1
    HoldAndWait = FALSE
INVARIANTS
    TypeOK
    ExclusiveAccess
    BitmapExact
PROPERTY
    BlockingReturns
CHECK_DEADLOCK FALSE
