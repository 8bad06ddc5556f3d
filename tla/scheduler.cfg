SPECIFICATION FairSpec
CONSTANTS
    Nodes = {1, 2, 3, 4}
    Workflows <- Shapes
    MaxWorkers = 2
    MaxResumes = 2
CHECK_DEADLOCK FALSE
INVARIANTS TypeOK LedgerExact InputsReady RunsAlone GateHolds SuccessIsComplete OnlyAskersRunOut
PROPERTIES SettledIsFinal RunEnds
