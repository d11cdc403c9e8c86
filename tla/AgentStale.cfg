SPECIFICATION FairSpec
CONSTANTS
    Desks = {"gui"}
    Shells = {}
    Asked = {"Status", "StartTx", "StartRx", "StopTx", "Shutdown"}
    Typed = {}
    MaxSent = 3
    MaxChild = 2
    MaxCuts = 1
    Stays = TRUE
PROPERTY ExitNoticed
CHECK_DEADLOCK FALSE
