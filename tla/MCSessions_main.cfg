\* Two devices, one of which may be set up anew once; the scheduling of the
\* main thread and the delegate.
SPECIFICATION FairSpec
CONSTANTS
    Address = {a1, a2}
    Renewed = {a1}
    NoRow = NoRow
    NoBundle = NoBundle
    MaxInstalls = 2
INVARIANTS
    TypeOK
    SessionsBacked
    TrustMatchesSession
PROPERTIES
    BundleNeverReplaces
    KeepsTrust
    BundlesCompleted
CHECK_DEADLOCK FALSE
