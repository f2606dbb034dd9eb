SPECIFICATION FairSpec
CONSTANTS
    Nodes = {n1}
    Uuid = {u1}
    Amounts = {1}
    MaxAttempts = 2
    BatchLimit = 1
    Backend = "sqlite"
    Faulty = {"coord", "reply", "node", "mark", "dlq", "reload"}
    MaxFaults = 3
    MaxCalls = 2
    MaxRestarts = 1
    Enabled = TRUE
    NoOp = NoOp
PROPERTIES Converge DeliveredOrPoisoned
