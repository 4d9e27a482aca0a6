SPECIFICATION Spec
CONSTANTS
    Volume = {v1}
    Direct = v1
    Caller = {c1, c2}
    Closing = {}
    Nobody = Nobody
    MaxCalls = 2
    MaxFaults = 1
INVARIANT FlushFinalizes
CHECK_DEADLOCK FALSE
