SPECIFICATION MCSpec
CONSTANTS
    Value = {"a", "b"}
    Junk = "junk"
    MIN_CAPACITY = 2
    MaxCapacity = 8
    Size = 4
    MaxSent = 9
    STRING_MIN_SIZE = 2
    VECTOR_MIN = 2
    MaxText = 5
    Bits = 8
INVARIANT NoSpill
CHECK_DEADLOCK FALSE
