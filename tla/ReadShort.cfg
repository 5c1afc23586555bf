SPECIFICATION Spec
CONSTANTS
    Requests <- MCRequests
    MaxRequests = 3
    ShortReads = TRUE
CHECK_DEADLOCK FALSE
INVARIANT HandledAsSent
