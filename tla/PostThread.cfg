SPECIFICATION ThreadSpec
CONSTANTS
    t1 = t1
    t2 = t2
    u1 = u1
    s1 = s1
    s2 = s2
    Topics <- MCTopics
    Users <- MCUsers
    Sessions <- MCSessions
    Comments <- MCComments
    MaxWork = 5
SYMMETRY Symmetry
INVARIANTS
    CountsAreExact
    NoPostInDeletedTopic
    OnlyThesePairsDeadlock
CHECK_DEADLOCK FALSE
