SPECIFICATION Spec
CONSTANTS
    TaskIds = {"t1", "t2"}
    Owners <- ThreeOwners
    NoPrincipal = "none"
    Requests = {"r1", "r2", "r3"}
    Versions = {"0.3", "v1"}
    UnscopedAllowed = TRUE
    Strict = TRUE
    MaxEntries = 1
    Unscoped = Unscoped
    None = None
INVARIANTS
    TypeOK
    RunOwnsRecord
    WorkingIsWorkedOn
    BodyAgrees
    RegistryBounded
PROPERTIES
    OwnerStable
    WorkingSettles
CHECK_DEADLOCK FALSE
