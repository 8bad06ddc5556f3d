SPECIFICATION Spec
CONSTANTS
    Nodes = {1, 2, 3, 4}
    Workflows <- Parallel
    MaxWorkers = 2
    MaxResumes = 2
CHECK_DEADLOCK FALSE
INVARIANT GateHolds
