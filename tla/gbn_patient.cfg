SPECIFICATION FairSpec
CONSTANTS
    File <- FourChunks
    WindowSize = 3
    RetryLimit = 10
    MaxTimeouts = 10
    GraceAttempts = 3
    MaxCopies = 2
    Probes = 0
    LossBudget = 3
    TimerLag = 2
    Faults = {}
PROPERTY SurvivesLosses
