SPECIFICATION FairSpec
CONSTANTS
    N = 5
    Chunk = 3
    Warmup = 1
    NoEval = FALSE
    HeapLife = 2
    SetupMayFail = TRUE
    BadImages <- OneBadImage
INVARIANTS
    EveryImageOnce
    CountersAddUp
    WorkerBound
    AbortNamesCulprit
PROPERTIES
    SettledIsFinal
    Terminates
    Implements
