SPECIFICATION FairPipeline
CONSTANTS
    Nodes = {n1}
    Uuid = {u1, u2}
    Amounts = {1}
    MaxAttempts = 1
    BatchLimit = 2
    Backend = "postgres"
    Faulty = {"coord", "publish", "reply", "mark"}
    MaxFaults = 1
    MaxCalls = 0
    MaxRestarts = 1
    Enabled = FALSE
    Partitions = {p1, p2}
    NoOp = NoOp
INVARIANTS PipelineInv OneLossPerFailure OneCopyPerFailure
PROPERTIES ImplementsTopicLedger Drains
