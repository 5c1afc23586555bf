SPECIFICATION FairSpec
CONSTANTS
    Address = {p1, p2}
    Key <- MCKey
    Val = {v1, v2}
    Hash <- MCHash
    NoObject = NoObject
    ReuseAddress = FALSE
    MaxConnections = 2
    MaxCloses = 2
    MaxRequests = 3
INVARIANTS TypeOK InUseIsRegistered NoticesCurrent CopyComplete
PROPERTY GoneIsRemoved
CHECK_DEADLOCK FALSE
