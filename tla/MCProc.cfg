SPECIFICATION Spec
CONSTANTS
    NPROC = 2
    SigIntr = {}
    Depth = 8
    MaxCC = 2
INVARIANTS
    TypeOK
    NoPanic
    NothingLeftBehind
    NoLostWakeup
    PromptInterruptible
PROPERTIES
    TimeoutEnds
    SignalDelivered
