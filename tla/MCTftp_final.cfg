SPECIFICATION Spec
CONSTANTS
    SEG = 2
    Wire = 4
    Jobs <- MCJobs
    Sizes <- MCSizes
    Cap = 2
    MaxFaults = 2
PROPERTY
    FinalAckAgain
CHECK_DEADLOCK FALSE
