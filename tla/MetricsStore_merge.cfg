SPECIFICATION MergeSpec
CONSTANTS
    Labels <- MCLabels
    NmsFree <- MCNmsFree
    Model <- MCModel
    MaxRuns = 3
    Sessions <- MCSessions
    Catalogs <- MCCatalogs
    Contents <- MCContents
    MaxCompares = 2
INVARIANTS
    LastNormalizeOwns
    AggregateNewest
    ComparesClassicHead
    LinesAreOwn
PROPERTIES
    CacheEntriesStand
