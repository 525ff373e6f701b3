SPECIFICATION MCSpec
CONSTANTS
    MaxImages = 4
    MaxBatch = 3
INVARIANTS
    HandedOverBeforeNextCall
    TimedMeasuredOnce
    PredictedOnce
    OwnRowOwnLetterbox
    PublishedComplete
PROPERTIES
    CleanRunPublishes
