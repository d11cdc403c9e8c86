SPECIFICATION Spec
CONSTANTS
    Threads = {"t1"}
    TxTurn = 2
    RxTurn = 2
    Tolerance = 2
    MaxSleep = 2
    MaxTime = 12
    Scenarios <- Tdma
INVARIANT
    TdmaTransmitsInItsSlot
CHECK_DEADLOCK FALSE
