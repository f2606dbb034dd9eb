SPECIFICATION FairPipeline
CONSTANTS
    Nodes = {n1}
    Uuid = {u1}
    Amounts = {1}
    MaxAttempts = 1
    BatchLimit = 1
    Backend = "postgres"
    Faulty = {}
    MaxFaults = 0
    MaxCalls = 0
    MaxRestarts = 1
    Enabled = FALSE
    Partitions = {p1}
    NoOp = NoOp
PROPERTIES Delivery
