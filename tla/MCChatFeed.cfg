SPECIFICATION Spec
CONSTANTS
    alice = alice
    bob = bob
    s1 = s1
    s2 = s2
    Players <- MCPlayers
    Streams <- MCOneStream
    Owner <- MCOwner
    GlobalLimit = 2
    PrivateLimit = 2
    StoreLimit = 2
    BufferSize = 1
    MaxMessages = 3
    MaxRequests = 2
    MaxFailures = 1
    MaxCrashes = 1
INVARIANTS
    TypeOK
    ChatReachesStream
    DirectBacklog
    AcknowledgedSurvives
CHECK_DEADLOCK FALSE
