CONSTANTS
    Users = {u1, u2}
    SuperAdmin = SuperAdmin
    Roles = {staff}
    Requests = {r1, r2}
    MaxFailures = 2
    MaxTokens = 3
    MaxEdits = 2
    MaxWork = 4
SPECIFICATION Spec
SYMMETRY Symmetry
INVARIANTS
    OneSuccessor
PROPERTIES
    RefreshOfEnabled
    NoLostUpdate
CHECK_DEADLOCK FALSE
