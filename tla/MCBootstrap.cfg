SPECIFICATION FairSpec
CONSTANTS
    Users = {ann, ben}
    TTL = 1
    MaxAttempts = 2
    MaxNow = 1
    MaxFaults = 2
INVARIANTS
    TypeOK
    RolesBalanced
    AnsweredPlayersSurvive
    TokensAreOneTime
PROPERTIES
    EveryoneGetsIn
CHECK_DEADLOCK FALSE
