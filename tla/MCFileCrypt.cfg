\* Files below, at and above the chunk limit; blocks that chunks do not fill.
SPECIFICATION FairSpec
CONSTANTS
    Lengths <- ShortFiles
    ChunkLimit = 5
    BlockSize = 3
    TagSize = 4
INVARIANTS
    TypeOK
    NothingLost
    WholeFile
    MemoryIsBounded
PROPERTIES
    RoundsReadOn
    Terminates
CHECK_DEADLOCK FALSE
