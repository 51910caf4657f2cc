SPECIFICATION FairSpec
CONSTANTS
    Players = {alice, bob}
    Intervals = {1, 3}
    Lead = 2
    LateBuyers = {TRUE, FALSE}
    MaxEvents = 4
    MaxPaid = 2
INVARIANTS
    TypeOK
    PurchasesHonoured
    EarlyBuyersPreviewed
PROPERTIES
    EveryBuyerIsServed
CHECK_DEADLOCK FALSE
