SPECIFICATION FairSpec
CONSTANTS
    t1 = t1
    t2 = t2
    e1 = e1
    d1 = d1
    d2 = d2
    NoExecution = NoExecution
    Threads <- TwoThreads
    Executions <- OneExecution
    Ceiling = 1
    ProviderNodes = 0
    FirstStage = 0
    MaxOps = 2
    MaxCrashes = 1
    Defects <- OneDefect
    Billed = {}
    MaxRepairs = 1
    MaxIssues = 2
CHECK_DEADLOCK FALSE
INVARIANTS TypeOK RepairsBounded
PROPERTIES EndStands RunIsNoticed OrdersEnd
