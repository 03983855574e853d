\* Two sessions, three states to come about after the first.
SPECIFICATION Spec
CONSTANTS
    u = u
    v = v
    d = d
    e = e
    Address <- Addresses
    MaxStates = 4
    Faults = {"save", "fetch"}
SYMMETRY Exchange
INVARIANTS
    TypeOK
    TableIsUnused
    TableIsLatest
    StaleIsNoted
PROPERTIES
    TableAdvances
CHECK_DEADLOCK FALSE
