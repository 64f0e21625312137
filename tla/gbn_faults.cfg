SPECIFICATION FairSpec
CONSTANTS
    File <- TwoChunks
    WindowSize = 2
    RetryLimit = 2
    MaxTimeouts = 2
    GraceAttempts = 1
    MaxCopies = 1
    Probes = 1
    LossBudget = 0
    TimerLag = 0
    Faults = {"earlyTimeout", "corrupt", "cancel", "close", "source", "consumer"}
INVARIANTS
    RetriesExhaustedOnlyIfUnacked
PROPERTY BothEnd
