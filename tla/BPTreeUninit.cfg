SPECIFICATION Spec
CONSTANTS
    Key = {1, 2, 3, 4, 5}
    Val = {v, w}
    NoValue = NoValue
    MaxNodes = 7
    ORDER = 3
    SizeMod = 16
    Uninit = {0, 5}
    Calls = {"set"}
CHECK_DEADLOCK FALSE
INVARIANT Serves
