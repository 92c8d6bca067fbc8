SPECIFICATION Spec
CONSTANTS
    Top = 8
    NALLOC = 2
    HDR = 2
    W = 16
    Requests <- MCRequests
INVARIANTS
    TypeOK
    NoOverlap
    NothingLost
    FreeListRight
PROPERTIES
    MoreOnlyWhenNeeded
    Terminates
