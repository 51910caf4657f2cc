SPECIFICATION FairSpec
CONSTANTS
    reader = reader
    sleeper = sleeper
    Tickers = {"TECH"}
    Clients = {reader, sleeper}
    Slow = {sleeper}
    HistoryLimit = 2
    LimitOf <- MCLimitOf
    ChanCap = 2
    OutCap = 1
    MaxSubs = 2
    MaxTicks = 2
PROPERTY EmitsPeriodicSnapshots
CHECK_DEADLOCK FALSE
