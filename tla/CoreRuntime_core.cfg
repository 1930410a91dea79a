\* Values for the MC module's names.
CONSTANTS
    r1 = r1
    r2 = r2
    r3 = r3
    sync = sync
    task1 = task1
    task2 = task2
    NoRuntime = NoRuntime
    Runtimes <- TwoRuntimes
    Pipeline <- NoItems
    Heartbeat <- NoItems
    Subagent <- TwoTasks
    SubagentConcurrency = 2
    MaxAttempts = 2
    AttemptBound = 9
    LeaseMayDrop = FALSE
SPECIFICATION Spec
INVARIANTS TypeOK ExclusiveExecution ExecutionOwnsRow NoOrphanInLoop AttemptsBounded
PROPERTIES OnlyExhaustedWorkDies ImplementsExclusiveWork
SYMMETRY Symmetry
