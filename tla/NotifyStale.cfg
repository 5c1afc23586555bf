SPECIFICATION StateDBSpec
CONSTANTS
    Kinds = {"pong", "pair", "value"}
    MaxMessages = 3
    ShortWrites = FALSE
    QueuedTimed = {TRUE}
    Buckets = {{k1}, {k2}}
    Val = {v1, v2, v3}
    NoValue = NoValue
INVARIANT CopyIsCurrent
CHECK_DEADLOCK FALSE
