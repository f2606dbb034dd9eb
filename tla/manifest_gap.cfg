SPECIFICATION ManifestSpec
CONSTANTS
    Nodes = {n1}
    Uuid = {u1, u2}
    Amounts = {1}
    MaxAttempts = 1
    BatchLimit = 2
    Backend = "sqlite"
    Faulty = {}
    MaxFaults = 0
    MaxCalls = 2
    MaxRestarts = 0
    MaxManifests = 1
    Enabled = FALSE
    NoOp = NoOp
INVARIANTS CompleteShowsNoGap
