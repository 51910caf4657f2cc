SPECIFICATION Spec
CONSTANTS
    Players = {alice, bob}
    Intervals = {3}
    Lead = 2
    LateBuyers = {TRUE}
    MaxEvents = 4
    MaxPaid = 2
INVARIANTS
    PreviewBeforePublication
SYMMETRY PlayerSymmetry
CHECK_DEADLOCK FALSE
