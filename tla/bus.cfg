SPECIFICATION FairSpec
CONSTANTS
    MaxHistory = 2
    ChanSize = 1
    MaxEvents = 3
    Clients = {c1}
    SendBuffer = 3
    HistoryLimit = 1
INVARIANTS HubInv NoPanic NoGap OnceAfterJoin
PROPERTIES ImplementsFeed Served HandlerReturns CleanedUp
CHECK_DEADLOCK FALSE
