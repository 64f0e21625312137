SPECIFICATION FairSpec
CONSTANTS
    T1 = T1
    T2 = T2
    s1 = s1
    s2 = s2
    s3 = s3
    Transfers <- TwoTransfers
    Sockets <- ThreeSockets
    None = None
INVARIANTS
    CancelHitsOnlyAborted
    NeverStuckBusy
    NoSocketLeak
    AbortReachesTransfer
    IInv
PROPERTIES
    CommandsAnswered
    AbortedNeverCommits
    TransfersEnd
