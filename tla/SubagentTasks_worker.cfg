CONSTANTS
    t1 = t1
    w1 = w1
    NoRuntime = NoRuntime
    Runtimes <- OneRuntime
    Tasks <- TaskAndReview
    Asked <- OneTask
    MaxIterations = 2
    MaxLlmCalls = 2
    MaxToolCalls = 1
    MaxAttempts = 2
    Concurrency = 2
    RequestBudget = 1
    CrashBudget = 1
    FaultBudget = 1
SPECIFICATION FairSpec
INVARIANTS TypeOK OneRunPerResult SpendIsCounted ResultsAreReviewed
PROPERTIES RequestedTaskEnds ImplementsExclusiveWork
CHECK_DEADLOCK FALSE
