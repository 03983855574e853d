\* Calls on the main thread and on one other; the third batch of two wraps;
\* counts that fail; the scheduling of the runtime and the delegate.
SPECIFICATION FairSpec
CONSTANTS
    Main = main
    Background = {bg}
    BatchSize = 2
    MaxPreKeyId = 5
    MaxBatches = 3
    Faults = {"count"}
INVARIANTS
    MemoryBackedByTable
    IdsAreDense
PROPERTIES
    SendingEnds
CHECK_DEADLOCK FALSE
