\* Keys generated twice.
SPECIFICATION Spec
CONSTANTS
    MaxDevices = 2
    MaxRequests = 2
    Other = {}
INVARIANTS
    RegisteredAfterShut
CHECK_DEADLOCK FALSE
