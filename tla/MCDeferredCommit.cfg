SPECIFICATION Spec
CONSTANTS
    Volume = {v1, v2}
    Direct = v1
    Caller = {c1, c2}
    Closing = {v1}
    Nobody = Nobody
    MaxCalls = 2
    MaxFaults = 1
INVARIANTS TypeOK FlushedIsPublished ExitClean
PROPERTIES GapStands CallbacksAnswered
CHECK_DEADLOCK FALSE
