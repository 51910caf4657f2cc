SPECIFICATION Spec
CONSTANTS
    OrderIds = {a, b}
    Players = {alice}
    Prices <- MCPrices
    Quantities = {1, 2}
    OpeningPrice = 2
    MaxOrders = 4
INVARIANTS
    TypeOK
    IndexMatchesLevels
    RestingOrdersAreLive
    NeverCrossed
    TimePriority
    QuantityConserved
PROPERTIES
    LoopMakesProgress
    PriceTimePriority
SYMMETRY IdSymmetry
