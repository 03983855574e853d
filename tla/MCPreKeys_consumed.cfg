\* Every call on the main thread, with restarts.
SPECIFICATION Spec
CONSTANTS
    Main = main
    Background = {}
    BatchSize = 1
    MaxPreKeyId = 3
    MaxBatches = 2
    Faults = {}
INVARIANTS
    ConsumedIsGone
CHECK_DEADLOCK FALSE
