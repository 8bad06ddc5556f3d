SPECIFICATION Spec
CONSTANTS
    NumUnits = 2
    Chains <- TwoDirect
    MaxRungs = 2
    MAX_CONSECUTIVE_POLL_FAILURES = 2
    MaxPushes = 0
    MaxCrashes = 0
CHECK_DEADLOCK FALSE
PROPERTY FallbackReplacesFailed
