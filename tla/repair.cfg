SPECIFICATION FairSpec
CONSTANTS
    Nodes = {n1, n2}
    Uuid = {u1, u2}
    Amounts = {1}
    MaxAttempts = 2
    BatchLimit = 1
    Backend = "sqlite"
    Faulty = {}
    MaxFaults = 0
    MaxCalls = 1
    MaxRestarts = 0
    Enabled = TRUE
    NoOp = NoOp
INVARIANTS DetectorInv RepairComplete
PROPERTIES DetectorExact Complete Delivery
