SPECIFICATION Spec
CONSTANTS
    e1 = e1
    e2 = e2
    p1 = p1
    p2 = p2
    r1 = r1
    r2 = r2
    NoExecution = NoExecution
    Executions <- TwoRuns
    Projects <- OneProject
    ProjectOf <- AllInOne
    Requests <- TwoRequests
    Ops <- AllOps
    MaxWorkers = 1
    MaxCalls = 4
    MaxCrashes = 1
CHECK_DEADLOCK FALSE
SYMMETRY FullSymmetry
INVARIANTS TypeOK SlotsCovered WorkConserving NoOrphanRun OnlyApprovedResumes
VIEW LiveView
