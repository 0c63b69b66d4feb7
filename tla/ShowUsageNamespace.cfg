SPECIFICATION Spec
CONSTANTS
    Any = Any
    None = None
    Universe <- Profiles
    Commands <- InNamespace
    Faults = FALSE
    MaxTouched = 0
INVARIANT NamespaceOnly
CHECK_DEADLOCK FALSE
