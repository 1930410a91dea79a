CONSTANTS
    m1 = m1
    Mail <- OneMail
    MaxAttempts <- SomeRetried
    MaxAnalysisAttempts = 2
    BackgroundSync = TRUE
    HeartbeatEnabled = TRUE
    ApplySettings <- EitherWay
    Unlocatable <- OneMail
    FaultBudget = 1
SPECIFICATION FairSpec
INVARIANTS PlannerCoalesces ExecutingRowIsProcessing
PROPERTIES MovesNeedOptIn NothingForgotten HeartbeatServed
