SPECIFICATION Spec
CONSTANTS
    Blocks = 5
    W = 5
    Cap = 1
    Noise = {1, 3}
    MaxFaults = 2
    MaxTries = 1
CHECK_DEADLOCK FALSE
INVARIANTS
    StoredPrefix
    
    EndsWithCause
