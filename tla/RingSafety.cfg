SPECIFICATION FairSpec
CONSTANTS
    Requested = 3
    Width = 3
    MaxItems = 9
    MaxBatch = 5
    ProducerOps = {"push", "try_push", "push_slice", "push_slice_blocking"}
    ConsumerOps = {"pop", "pop_slice", "pop_slice_blocking"}
INVARIANTS
    TypeOK
    CountersAgree
    ConservativeViews
    UnreadIntact
    NoSlotRace
PROPERTIES
    ImplementsFifo
    BlockingCallsReturn
CHECK_DEADLOCK FALSE
