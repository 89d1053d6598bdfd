SPECIFICATION Spec
CONSTANTS
    Bases = {b1}
    Docs = {d1, d2}
    Workers = {w1, w2}
    Requests = {r1, r2}
    MaxAttempts = 2
    MaxRuns = 2
    MaxAnswers = 1
    MaxWork = 5
SYMMETRY Symmetry
INVARIANTS
    CitedChunksStay
    PublishedIsSearchable
CHECK_DEADLOCK FALSE
