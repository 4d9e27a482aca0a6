SPECIFICATION Spec
CONSTANTS
    PollLimit = 2
    MaxFaults = 2
    MaxDamage = 1
INVARIANTS OldKept ReportedRestored FailedRollbackKeepsBoth
PROPERTY UpdateEnds
CHECK_DEADLOCK FALSE
