CONSTANTS
    Datasets = {d1}
    Workers = {w1, w2}
    Requests = {r1, r2}
    Kinds <- SomeKinds
    MaxVersions = 1
    MaxRows = 2
    MaxModels = 4
    Seeds = 2
    MaxClaims = 3
    MaxWork = 7
SPECIFICATION LiveSpec
INVARIANTS
    DigestIsOfFile
    OneActivePerPurpose
PROPERTIES
    EveryJobEnds
CHECK_DEADLOCK FALSE
