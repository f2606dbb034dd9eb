SPECIFICATION FairSpec
CONSTANTS
    Nodes = {n1}
    Uuid = {u1}
    Amounts = {1}
    MaxAttempts = 2
    BatchLimit = 1
    Backend = "postgres"
    Faulty = {}
    MaxFaults = 0
    MaxCalls = 1
    MaxRestarts = 0
    Enabled = TRUE
    NoOp = NoOp
PROPERTIES Converge
