SPECIFICATION Spec
CONSTANTS
    OrderIds = {a, b}
    Players = {alice}
    Prices <- MCPrices
    Quantities <- MCQuantities
    OpeningPrice = 2
    MaxOrders = 2
INVARIANTS
    PlacedOnce
