SPECIFICATION Spec
CONSTANTS
    Thread = {}
    DeferCloseCommits = FALSE
    MaxGroup = 2
    MaxSequence = 8
    MaxTransactions = 3
    MaxLog = 7
    MaxFaults = 1
    MaxRestarts = 1
INVARIANTS TypeOK AcknowledgedSurvive MarkedStays RefusedOnlyIfCut
CHECK_DEADLOCK FALSE
