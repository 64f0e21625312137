SPECIFICATION FairSpec
CONSTANTS
    t1 = t1
    t2 = t2
    t3 = t3
    l1 = l1
    l2 = l2
    l3 = l3
    Threads <- ThreeThreads
    Keys <- ThreeKeys
    Locks <- ThreeLocks
    Requests <- PathsAndPairs
    NoLock = NoLock
    NoFrame = NoFrame
INVARIANTS
    NoCircularWait
    IInv
PROPERTIES
    ImplementsPathMutex
    SomeCallReturns
