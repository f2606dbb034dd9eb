SPECIFICATION FairWatch
CONSTANTS
    Nodes = {n1}
    Uuid = {u1}
    Amounts = {1}
    MaxAttempts = 1
    BatchLimit = 1
    Backend = "sqlite"
    Faulty = {}
    MaxFaults = 0
    MaxCalls = 1
    MaxRestarts = 0
    MaxSwitches = 0
    Enabled = FALSE
    NoOp = NoOp
PROPERTIES CrashReported
