CONSTANTS
    c1 = c1
    c2 = c2
    None = None
    Calls <- MCCalls
    Statuses <- MCStatuses
    MaxChunks = 1
SPECIFICATION Spec
CHECK_DEADLOCK FALSE
INVARIANT ServerFailureTyped
