SPECIFICATION FairSpec
CONSTANTS
    c1 = c1
    c2 = c2
    t1 = t1
    Clients <- TwoClients
    Stoppers <- OneStopper
    Acceptor = Acceptor
    None = None
INVARIANTS
    IInv
    NoneLeft
    NoGhost
    OpenIsAccounted
PROPERTIES
    StopReturns
    ClosedListenerEndsServer
    SessionsEnd
