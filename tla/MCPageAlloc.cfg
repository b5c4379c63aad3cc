SPECIFICATION FairSpec
CONSTANTS
    NPages = 12
    MaxOrder = 2
    HighStart = 8
    Regions <- TwoZones
    MaxAfter = 3
INVARIANTS TypeOK Partition ListsExact
PROPERTY OperationEnds
CHECK_DEADLOCK FALSE
