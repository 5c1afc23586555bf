SPECIFICATION FairSpec
CONSTANTS
    Kinds = {"pong", "pair", "value"}
    MaxMessages = 3
    ShortWrites = TRUE
    QueuedTimed = {TRUE}
INVARIANTS TypeOK NoStall EachChunkPlaced ValueFramed InOrderWithoutValues
PROPERTIES Settles ClosedComesToRest
CHECK_DEADLOCK FALSE
