SPECIFICATION Spec
CONSTANTS
    MIN_SIZE = 2
    MAX_ORDER = 2
    KMEM_CACHE_MAX_ORDER = 1
    PAGE_SIZE = 8
    NPages = 2
    Sizes <- Whole
    MaxLive = 3
INVARIANTS ChunksTile ChunksTight EarlyCoalesces
CHECK_DEADLOCK FALSE
