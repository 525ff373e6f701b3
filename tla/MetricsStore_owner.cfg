SPECIFICATION CoremlSpec
CONSTANTS
    Labels <- MCLabels
    NmsFree <- MCNmsFree
    Model <- MCModel
    MaxRuns = 1
    Sessions <- MCSessions
    Catalogs <- MCCatalogs
    Contents <- MCContents
    MaxCompares = 2
INVARIANT
    FiledOnce
