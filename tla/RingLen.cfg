SPECIFICATION LenSpec
CONSTANTS
    Requested = 2
    Width = 3
    MaxItems = 5
    MaxBatch = 2
    ProducerOps = {"push", "push_slice", "push_slice_blocking"}
    ConsumerOps = {"pop", "pop_slice", "pop_slice_blocking"}
INVARIANT
    LenIsACount
CHECK_DEADLOCK FALSE
