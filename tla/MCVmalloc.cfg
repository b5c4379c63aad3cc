SPECIFICATION Spec
CONSTANTS
    PER_TABLE = 2
    TABLES = 4
    VMALLOC_END = 8
    MAX_VMA_ORDER = 3
    High = {1, 2, 3, 4, 5}
    Normal = {6, 7, 8, 9, 10}
    APS = 2
    Sizes = {1, 2, 3}
INVARIANTS AreasTile ListedExact MapExact
CHECK_DEADLOCK FALSE
