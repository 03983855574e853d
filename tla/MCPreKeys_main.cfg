\* Every call on the main thread, saves and loads that fail; five ids, so that the third
\* batch of two wraps.
SPECIFICATION Spec
CONSTANTS
    Main = main
    Background = {}
    BatchSize = 2
    MaxPreKeyId = 5
    MaxBatches = 3
    Faults = {"save", "load"}
INVARIANTS
    TypeOK
    MemoryBackedByTable
    IdsAreDense
    PublishedIsUsable
    SendingIsExact
PROPERTIES
    KeepsLedger
CHECK_DEADLOCK FALSE
