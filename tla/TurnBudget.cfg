\* Two sessions of a tenant, two loops each, two windows, one failure of the store.
SPECIFICATION Spec
CONSTANTS
    Sessions = {s1, s2}
    s1 = s1
    s2 = s2
    Slots = {w1, w2}
    w1 = w1
    w2 = w2
    Scopes = {"turn", "session", "tenant"}
    Limit = 2
    Costs = {1}
    MaxCost = 1
    MaxIter = 2
    MaxHops = 2
    MaxTurns = 1
    MaxWindow = 2
    MaxFaults = 1
SYMMETRY Interchangeable
INVARIANTS
    TypeOK
    TurnCapped
    TenantCapped
PROPERTIES
    CutOffStays
\* The sessions' turns end.
CHECK_DEADLOCK FALSE
