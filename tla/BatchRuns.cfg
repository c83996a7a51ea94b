SPECIFICATION Spec
CONSTANTS
    Requests = {"r1", "r2", "r3", "r4"}
    Families = {"anthropic", "openai"}
    FamilyOf <- TwoFamilies
    Workers = 2
    MaxAttempts = 2
    None = None
INVARIANTS
    TypeOK
    NeverRerun
    MeteredAsReturned
PROPERTIES
    RunEnds
CHECK_DEADLOCK FALSE
