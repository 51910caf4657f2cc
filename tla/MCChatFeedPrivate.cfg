SPECIFICATION Spec
CONSTANTS
    alice = alice
    bob = bob
    s1 = s1
    s2 = s2
    Players <- MCPlayers
    Streams <- MCOneStream
    Owner <- MCOwner
    GlobalLimit = 2
    PrivateLimit = 2
    StoreLimit = 3
    BufferSize = 1
    MaxMessages = 2
    MaxRequests = 1
    MaxFailures = 0
    MaxCrashes = 0
INVARIANTS
    PrivateReachesStream
CHECK_DEADLOCK FALSE
