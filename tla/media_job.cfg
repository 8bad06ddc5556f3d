SPECIFICATION FairSpec
CONSTANTS
    NumUnits = 2
    Chains <- SmallChains
    MaxRungs = 2
    MAX_CONSECUTIVE_POLL_FAILURES = 2
    MaxPushes = 1
    MaxCrashes = 1
CHECK_DEADLOCK FALSE
INVARIANTS FallbackTypeOK ResultIsHonest DirectSuccessIsComplete RecordNeverAhead RecordSettled
PROPERTIES TerminalIsFinal UnitsFinal PromiseSpec EveryRunEnds
