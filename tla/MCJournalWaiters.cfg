SPECIFICATION Spec
CONSTANTS
    Thread = {t1, t2}
    DeferCloseCommits = TRUE
    MaxGroup = 1
    MaxSequence = 5
    MaxTransactions = 2
    MaxLog = 5
    MaxFaults = 1
    MaxRestarts = 1
INVARIANT AcknowledgedSurvive
PROPERTY WaitersAnswered
CHECK_DEADLOCK FALSE
