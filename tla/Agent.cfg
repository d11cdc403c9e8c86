SPECIFICATION FairSpec
CONSTANTS
    Desks = {"gui"}
    Shells = {"cli"}
    Asked = {"Status", "StartTx", "StartRx", "StopTx", "Shutdown"}
    Typed = {"StartTxShutdown", "StartRx", "Shutdown"}
    MaxSent = 3
    MaxChild = 2
    MaxCuts = 1
    Stays = FALSE
INVARIANTS
    TypeOK
    NoneLost
    LateByMissed
PROPERTIES
    ExitNoticed
    ShutdownEnds
CHECK_DEADLOCK FALSE
