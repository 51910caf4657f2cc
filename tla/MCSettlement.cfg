SPECIFICATION Spec
CONSTANTS
    OrderIds = {1, 2, 3, 4}
    Players = {alice, bob}
    Prices = {3, 4}
    Quantities = {1, 2}
    OpeningPrice = 4
    MaxOrders = 4
    OpeningCash <- MCOpeningCash
    OpeningShares <- MCOpeningShares
    Quotes = {3}
    Faults = {"cache", "write", "crash"}
    MaxFaults = 2
INVARIANTS
    TypeOK
    OpenOrdersMirrorBook
    ShareReservationsInSync
    ReservedSharesBacked
    CashReservationsBounded
    SharesConserved
    LotsWithinHoldings
PROPERTIES
    NoMoneyCreated
SYMMETRY PlayerSymmetry
CHECK_DEADLOCK FALSE
