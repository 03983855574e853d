\* Keys generated twice; the first set is the other device.
SPECIFICATION FairSpec
CONSTANTS
    MaxDevices = 2
    MaxRequests = 2
    Other = {}
INVARIANTS
    TypeOK
    ProcessIsExact
    RegisteredIsTrue
    NoteIsKept
PROPERTIES
    RegistrationEnds
CHECK_DEADLOCK FALSE
