SPECIFICATION MCSpec
CONSTANTS
    Calls = 4
    Warmup = 1
INVARIANTS
    ReleasedOnce
    OwnOutputs
    CleanExit
