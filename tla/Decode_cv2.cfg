SPECIFICATION MCSpec
CONSTANTS
    Anchors = {1, 2, 3}
    Classes = {1, 2}
    MaxScore = 4
    TopK = 3
    MaxNms = 4
    MaxDet = 2
INVARIANTS
    IdenticalKeptSet
