\* Two turns on one thread, three orders, two at a time, with a token budget.
SPECIFICATION FairSpec
CONSTANTS
    MaxOrders = 3
    MaxTurns = 2
    SwarmSize = 0
    MaxSwarm = 2
    ParallelMax = 2
    ParallelEnabled = TRUE
    MaxRounds = 2
    Budget = 2
INVARIANTS
    TypeOK
    RoundsBounded
    NoOrderLost
    LatestWins
PROPERTIES
    NeverTwice
    TurnEnds
\* The turns of the thread end.
CHECK_DEADLOCK FALSE
