\* Three sets of keys; the process dies twice; loads, saves and wipes may fail.
SPECIFICATION Spec
CONSTANTS
    MaxSets = 3
    MaxCrashes = 2
    Faults = {"load", "save", "wipe"}
INVARIANTS
    TypeOK
    IdentitySurvives
    KeysOfOneSet
    CleanHandover
PROPERTIES
    KeepsIdentity
CHECK_DEADLOCK FALSE
