SPECIFICATION Spec
CONSTANTS
    NImages = 3
    Annotated <- FewAnnotated
    SubsetSize = 2
    Calls <- AnyCall
    MaxCrashes = 2
INVARIANTS
    MarkerLast
    CleanBuildComplete
    ForcedRebuildComplete
PROPERTIES
    BuiltStaysUntouched
