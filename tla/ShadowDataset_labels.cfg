SPECIFICATION Spec
CONSTANTS
    NImages = 3
    Annotated <- FewAnnotated
    SubsetSize = 2
    Calls <- BenchmarkCalls
    MaxCrashes = 1
INVARIANTS
    LabelsComplete
