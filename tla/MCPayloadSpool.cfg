SPECIFICATION Spec
CONSTANTS
    MaxWrites = 4
    Threshold = 2
    Quota = 3
INVARIANTS
    PayloadKept
    RefusedOnlyIfUnaccepted
    NothingLeftBehind
