SPECIFICATION Spec
CONSTANTS
    Any = Any
    None = None
    Universe <- AllObjects
    Commands <- AllLines
    Faults = TRUE
    MaxTouched = 3
INVARIANT TypeOK
INVARIANT Complete
INVARIANT Sound
INVARIANT Selective
CHECK_DEADLOCK FALSE
