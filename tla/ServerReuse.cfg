SPECIFICATION Spec
CONSTANTS
    Address = {p1, p2}
    Key <- MCKey
    Val = {v1, v2}
    Hash <- MCHash
    NoObject = NoObject
    ReuseAddress = TRUE
    MaxConnections = 2
    MaxCloses = 2
    MaxRequests = 1
INVARIANT InUseIsRegistered
CHECK_DEADLOCK FALSE
