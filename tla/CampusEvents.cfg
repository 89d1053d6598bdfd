CONSTANTS
    Users = {u1, u2, u3}
    MaxCapacity = 2
    MaxEventCases = 2
    MaxEventEdits = 2
SPECIFICATION EventSpec
SYMMETRY UserSymmetry
INVARIANTS
    CountIsExact
    NoSeatBeyondCapacity
    ReviewHasCase
CHECK_DEADLOCK FALSE
