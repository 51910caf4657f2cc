SPECIFICATION FairSpec
CONSTANTS
    InitialPrice = 1000
    TickSize = 5
    Moves <- MCMoves
    Shocks <- MCShocks
    Durations = {2}
    Unit = 5
    Lag = 1
    MaxNow = 2
    FeedCap = 1
    MaxChanges = 3
INVARIANTS
    TypeOK
    DriftCountsTimeOnce
    DriftFollowsEffects
    DrainedMeansCurrent
PROPERTIES
    ViewCatchesUp
    PortfolioCatchesUp
