SPECIFICATION Spec
CONSTANTS
    File <- ThreeChunks
    WindowSize = 2
    RetryLimit = 2
    MaxTimeouts = 2
    GraceAttempts = 2
    MaxCopies = 2
    Probes = 1
    LossBudget = 0
    TimerLag = 0
    Faults = {"earlyTimeout", "duplicate", "mismatch"}
INVARIANTS
    DeliveredPrefix
    ReceiverCompleteHasFile
    SuccessMeansDelivered
    WindowIsUnacked
    MismatchDeliversNothing
    IInv
PROPERTY ImplementsReliableTransfer
