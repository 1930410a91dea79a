CONSTANTS
    Core = core
    Mail <- TwoMails
    Commands = {c1}
    Answers <- OneAnswer
    AnalyzeLimit = 2
    Concurrency = 2
    MaxAttempts = 2
    FrontierMax = 1
    OldRows <- FirstMail
    OldActions <- FirstMail
    FaultBudget = 1
SPECIFICATION Spec
PROPERTIES CleanupFindsExpired
