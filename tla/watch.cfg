SPECIFICATION FairWatch
CONSTANTS
    Nodes = {n1, n2}
    Uuid = {u1, u2}
    Amounts = {1}
    MaxAttempts = 1
    BatchLimit = 2
    Backend = "sqlite"
    Faulty = {"revive"}
    MaxFaults = 2
    MaxCalls = 1
    MaxRestarts = 0
    MaxSwitches = 1
    Enabled = FALSE
    NoOp = NoOp
INVARIANTS WatchInv ReportsTrue LastNodeKept OneLateCrash
PROPERTIES DeathReported
