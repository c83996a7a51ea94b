SPECIFICATION Spec
CONSTANTS
    TaskIds = {"t1"}
    Owners <- TwoOwners
    NoPrincipal = "none"
    Requests = {"r1"}
    Versions = {"v1"}
    UnscopedAllowed = FALSE
    Strict = FALSE
    MaxEntries = 1
    Unscoped = Unscoped
    None = None
PROPERTIES
    TerminalIsFinal
CHECK_DEADLOCK FALSE
