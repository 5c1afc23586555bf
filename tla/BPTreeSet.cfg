SPECIFICATION Spec
CONSTANTS
    Key = {1, 2, 3, 4, 5, 6, 7, 8}
    Val = {v}
    NoValue = NoValue
    MaxNodes = 50
    ORDER = 3
    SizeMod = 16
    Uninit = {0}
    Calls = {"set"}
INVARIANTS TypeOK IterationSorted IterationAgrees SizesHonest Serves
PROPERTY LookupImplementsStore
