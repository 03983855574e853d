\* One device, set up anew once.
SPECIFICATION Spec
CONSTANTS
    Address = {a1}
    Renewed = {a1}
    NoRow = NoRow
    NoBundle = NoBundle
    MaxInstalls = 2
PROPERTIES
    TrustOnFirstUse
CHECK_DEADLOCK FALSE
