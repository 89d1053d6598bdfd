CONSTANTS
    Users = {u1, u2, u3}
    Items = {i1, i2}
    NoItem = NoItem
    MaxClaims = 2
    MaxItemCases = 1
    MaxItemEdits = 1
SPECIFICATION ItemSpec
SYMMETRY Symmetry
INVARIANTS
    ActiveClaimKeepsItem
CHECK_DEADLOCK FALSE
