\* One run and two workers: every interleaving of a run's own actors.  The
\* proofs cover several runs, larger batches and more faults.
CONSTANTS
    Runs = {r1}
    Workers = {w1, w2}
    MaxSteps = 2
    MaxTasks = 1
    MaxAttempts = 2
    BatchSize = 1
    MaxFaults = 1
SPECIFICATION LiveSpec
INVARIANTS
    ClosedByOneEvent
    EffectConsumesApproval
    NoRunLeftBehind
PROPERTIES
    EffectOnlyWhenApproved
    KeepsContract
    EveryCommandEnds
    EveryRunMoves
