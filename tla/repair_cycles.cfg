SPECIFICATION Spec
CONSTANTS
    t1 = t1
    t2 = t2
    e1 = e1
    d1 = d1
    d2 = d2
    NoExecution = NoExecution
    Threads <- TwoThreads
    Executions <- OneExecution
    Ceiling = 3
    ProviderNodes = 2
    FirstStage = 1
    MaxOps = 1
    MaxCrashes = 0
    Defects <- TwoDefects
    Billed <- TwoDefects
    MaxRepairs = 2
    MaxIssues = 2
SYMMETRY ThreadsAlike
CHECK_DEADLOCK FALSE
INVARIANTS RepairsBounded RepairsAffordable
