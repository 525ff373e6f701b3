SPECIFICATION MCSpec
CONSTANTS
    Anchors = {1, 2, 3}
    Classes = {1, 2}
    MaxScore = 4
    TopK = 3
    MaxNms = 3
    MaxDet = 2
    MaxOrig = 9
    Input <- InputSize
    Edges <- HalfPixels
INVARIANTS
    KeptByDefinition
    LimitsCutTheTail
    RecordsOfKept
    MaskFollowsBox
