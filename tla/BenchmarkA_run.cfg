SPECIFICATION MCSpec
CHECK_DEADLOCK FALSE
CONSTANTS
    Models <- MCModels
    EndToEnd <- MCEndToEnd
    MaxFaults = 2
INVARIANTS
    Accounted
    FaultContained
    ReportFaithful
    CacheWhole
PROPERTIES
    NoPoisonedStart
    Ends
