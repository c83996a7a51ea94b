SPECIFICATION Spec
CONSTANTS
    TaskIds = {1, 2, 3, 4}
    PageSize = 2
    MaxTime = 4
    ClockSteps = {0, 1}
INVARIANTS
    UntouchedListedOnce
PROPERTIES
    ListingEnds
CHECK_DEADLOCK FALSE
