SPECIFICATION FairSpec
CONSTANTS
    Nodes = {n1}
    Uuid = {u1}
    Amounts = {1}
    MaxAttempts = 2
    BatchLimit = 1
    Backend = "sqlite"
    Faulty = {"coord", "dlq"}
    MaxFaults = 3
    MaxCalls = 0
    MaxRestarts = 0
    Enabled = TRUE
    NoOp = NoOp
PROPERTIES PillsLeave
