\* Two users, and nothing fails.
SPECIFICATION Spec
CONSTANTS
    MaxSets = 2
    MaxCrashes = 0
    Faults = {}
INVARIANTS
    StoresAreOwn
CHECK_DEADLOCK FALSE
