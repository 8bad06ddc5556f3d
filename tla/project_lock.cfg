SPECIFICATION FairSpec
CONSTANTS
    p1 = p1
    p2 = p2
    p3 = p3
    t1 = t1
    t2 = t2
    Pids <- ThreePids
    Threads <- TwoThreads
    MaxAlive = 2
    MaxFaulty = 1
CHECK_DEADLOCK FALSE
INVARIANTS TypeOK OnePerProcess FileHasOwner HeldHasOwner
PROPERTY StartupClears
