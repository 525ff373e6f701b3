SPECIFICATION MCSpec
CONSTANTS
    RowCounts = {21, 300, 1025, 8400}
    ClassCounts = {1, 80, 100}
    CoeffCounts = {0, 32}
    MaxCols = 64
    MaxRows = 1024
    FewRows = 300
    ManyAnchors = 1025
    MapSize = 80
    Frames = 3
    Calls = 3
    MaxOutputs = 2
    MayRefuse = TRUE
    MayFault = TRUE
INVARIANTS
    ReadsOwnColumns
    PartsAsAsked
    PhasesAreOwn
    AnswersAreOwn
PROPERTIES
    ServesProtocol
