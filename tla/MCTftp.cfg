SPECIFICATION Spec
CONSTANTS
    SEG = 2
    Wire = 4
    Jobs <- MCJobs
    Sizes <- MCSizes
    Cap = 2
    MaxFaults = 2
INVARIANTS
    TypeOK
    ReadRight
    WriteRight
PROPERTIES
    GivesUpWithCause
    TransferEnds
CHECK_DEADLOCK FALSE
