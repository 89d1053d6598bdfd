SPECIFICATION Spec
CONSTANTS
    Keys = {k1, k2, k3, k4, k5}
    Requests = {r1, r2}
    MaxNo = 2
    MaxWork = 5
SYMMETRY Symmetry
INVARIANTS
    NumbersInOrder
    TimelineFits
PROPERTIES
    EachKeyOnce
CHECK_DEADLOCK FALSE
