\* Calls on the main thread and on one other.
SPECIFICATION Spec
CONSTANTS
    Main = main
    Background = {bg}
    BatchSize = 2
    MaxPreKeyId = 5
    MaxBatches = 2
    Faults = {}
INVARIANTS
    PublishedIsStored
CHECK_DEADLOCK FALSE
