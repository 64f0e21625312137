SPECIFICATION Spec
CONSTANTS
    File <- OneChunk
    WindowSize = 1
    RetryLimit = 2
    MaxTimeouts = 2
    GraceAttempts = 1
    MaxCopies = 2
    Probes = 0
    LossBudget = 0
    TimerLag = 0
    Faults = {"earlyTimeout"}
INVARIANT SuccessMeansDelivered
