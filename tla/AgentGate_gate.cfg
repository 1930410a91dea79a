CONSTANTS
    m1 = m1
    Mail <- OneMail
    MaxAttempts <- TwoAttempts
    MaxAnalysisAttempts = 2
    BackgroundSync = FALSE
    HeartbeatEnabled = FALSE
    ApplySettings <- NeverApply
    Unlocatable <- OneMail
    FaultBudget = 0
    StablePolls = 2
    RequestWork = TRUE
SPECIFICATION GateSpec
PROPERTIES OpensAtRest GateOpens
