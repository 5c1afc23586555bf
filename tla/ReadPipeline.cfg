SPECIFICATION FairSpec
CONSTANTS
    Requests <- MCRequests
    MaxRequests = 3
    ShortReads = FALSE
INVARIANTS TypeOK HandledAsSent BufferOwned NextPreambleAwaited NotServedUngreeted
PROPERTIES ArrivedIsHandled TimedReadsEnd
CHECK_DEADLOCK FALSE
