SPECIFICATION BlankSpec
CONSTANTS
    MaxImages = 2
    MaxBatch = 2
INVARIANTS
    ScoredWhereRun
