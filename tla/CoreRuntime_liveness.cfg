\* Values for the MC module's names.
CONSTANTS
    r1 = r1
    r2 = r2
    r3 = r3
    sync = sync
    task1 = task1
    task2 = task2
    NoRuntime = NoRuntime
    Runtimes <- TwoRuntimes
    Pipeline <- OneSync
    Heartbeat <- NoItems
    Subagent <- NoItems
    SubagentConcurrency = 2
    MaxAttempts = 2
    AttemptBound = 4
    LeaseMayDrop = TRUE
SPECIFICATION FairSpec
PROPERTIES ProcessingEnds
