SPECIFICATION GatewaySpec
CONSTANTS
    r1 = r1
    r2 = r2
    k1 = k1
    k2 = k2
    Runs <- MCRuns
    Keys <- MCKeys
    Amounts <- MCAmounts
    Simulated = 3
    MaxWork = 5
SYMMETRY Symmetry
INVARIANTS
    PaidByApproval
    SuccessIsPaid
PROPERTIES
    ClosedRunIsQuiet
CHECK_DEADLOCK FALSE
