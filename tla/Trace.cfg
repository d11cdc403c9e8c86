SPECIFICATION FairSpec
CONSTANTS
    Nodes = {1, 2, 3, 4}
    Links <- Line
    Tracers = {1, 3}
    MaxHops = 2
    MaxTraces = 2
INVARIANTS
    TypeOK
    RouteIsWalk
PROPERTIES
    TraceEnds
CHECK_DEADLOCK FALSE
