CONSTANTS
    m1 = m1
    Mail <- OneMail
    MaxAttempts <- OneAttempt
    MaxAnalysisAttempts = 2
    BackgroundSync = TRUE
    HeartbeatEnabled = FALSE
    ApplySettings <- NeverApply
    Unlocatable <- NoMail
    FaultBudget = 0
SPECIFICATION Spec
INVARIANTS OneActiveRowPerType
