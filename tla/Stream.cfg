SPECIFICATION FairSpec
CONSTANTS
    FileLen = 2
    Block = 1
    Window = 2
    MaxRecording = 2
    MaxBatch = 2
    MaxBlocks = 1
    MaxReceivers = 2
    MaxPackets = 1
INVARIANTS
    TypeOK
    ShowsLatest
    RecordingExact
    BindsUnlessTaken
PROPERTIES
    JoinReturns
CHECK_DEADLOCK FALSE
