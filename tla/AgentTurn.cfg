SPECIFICATION LiveSpec
CONSTANTS
    Goals <- MCGoals
    Suggested <- MCSuggested
    Offered <- MCOffered
    Replies <- MCReplies
    Misses <- MCMisses
    Permitted <- MCPermitted
    MaxSteps = 3
    MaxAttempts = 2
INVARIANTS
    DoneMeansDone
    NoEmptyClaim
    WaitIsBacked
PROPERTIES
    EveryTurnEnds
CHECK_DEADLOCK FALSE
