SPECIFICATION Spec
CONSTANTS
    Thread = {}
    DeferCloseCommits = TRUE
    MaxGroup = 1
    MaxSequence = 12
    MaxTransactions = 4
    MaxLog = 10
    MaxFaults = 0
    MaxRestarts = 1
INVARIANT CompactionKeepsValid
CHECK_DEADLOCK FALSE
