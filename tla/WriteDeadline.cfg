SPECIFICATION FairSpec
CONSTANTS
    Kinds = {"pong", "pair", "value"}
    MaxMessages = 3
    ShortWrites = FALSE
    QueuedTimed = {TRUE, FALSE}
PROPERTY Settles
CHECK_DEADLOCK FALSE
