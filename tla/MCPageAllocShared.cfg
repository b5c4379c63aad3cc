SPECIFICATION Spec
CONSTANTS
    NPages = 12
    MaxOrder = 2
    HighStart = 12
    Regions <- Edge
    MaxAfter = 6
INVARIANT NoSharedPage
CHECK_DEADLOCK FALSE
