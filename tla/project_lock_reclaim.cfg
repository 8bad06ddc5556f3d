SPECIFICATION Spec
CONSTANTS
    p1 = p1
    p2 = p2
    p3 = p3
    t1 = t1
    t2 = t2
    Pids <- TwoPids
    Threads <- OneThread
    MaxAlive = 2
    MaxFaulty = 0
CHECK_DEADLOCK FALSE
INVARIANT OneHolder
