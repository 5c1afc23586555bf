SPECIFICATION Spec
CONSTANTS
    MagicSize = 3
    FieldsSize = 14
    MINIMAL_HEADER_SIZE = 20
    MaxSize = 23
INVARIANTS TypeOK RestartNotRefused
PROPERTY LargeFileUntouched
