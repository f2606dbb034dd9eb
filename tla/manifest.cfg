SPECIFICATION ManifestSpec
CONSTANTS
    Nodes = {n1}
    Uuid = {u1, u2, u3}
    Amounts = {1}
    MaxAttempts = 1
    BatchLimit = 3
    Backend = "sqlite"
    Faulty = {"node"}
    MaxFaults = 1
    MaxCalls = 1
    MaxRestarts = 1
    MaxManifests = 1
    Enabled = FALSE
    NoOp = NoOp
SYMMETRY Symmetry
INVARIANTS ManifestInv RangesExact GapIsEvidence OneEpochExact EpochCovers
