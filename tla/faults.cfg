SPECIFICATION Spec
CONSTANTS
    Nodes = {n1}
    Uuid = {u1, u2}
    Amounts = {1}
    MaxAttempts = 1
    BatchLimit = 2
    Backend = "sqlite"
    Faulty = {"coord", "reply", "node", "mark", "dlq", "revive"}
    MaxFaults = 2
    MaxCalls = 2
    MaxRestarts = 1
    Enabled = FALSE
    NoOp = NoOp
SYMMETRY Symmetry
INVARIANTS TypeOK IndInv Durable OneContribution UniqueStamps CoherentAtRest
PROPERTIES FreshIncarnation ImplementsLedger
