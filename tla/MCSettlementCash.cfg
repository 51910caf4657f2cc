SPECIFICATION Spec
CONSTANTS
    OrderIds = {1, 2, 3}
    Players = {alice, bob}
    Prices = {3, 4}
    Quantities = {1, 2}
    OpeningPrice = 4
    MaxOrders = 3
    OpeningCash <- MCOpeningCash
    OpeningShares <- MCOpeningShares
    Quotes = {3}
    Faults = {}
    MaxFaults = 0
INVARIANTS
    CashReservationsInSync
SYMMETRY PlayerSymmetry
CHECK_DEADLOCK FALSE
