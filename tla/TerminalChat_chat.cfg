CONSTANTS
    r1 = r1
    r2 = r2
    t1 = t1
    t2 = t2
    NoThread = NoThread
    Requests <- TwoRequests
    Threads <- TwoThreads
    OldThreads <- OneThread
    MaxStreams = 1
    MaxCalls = 1
    CrashBudget = 1
SPECIFICATION Spec
INVARIANTS TypeOK PermitsAccounted CompletedIsStored PendingHasItsStream ActiveIsListed
CHECK_DEADLOCK FALSE
SYMMETRY RequestSymmetry
