SPECIFICATION Spec
CONSTANTS
    TICK_NUM = 2
    MSECS = 20
    SIXTY = 2
    U32 = 11
    Budgets <- Limits
INVARIANTS NoStuckModifier TypedIsRead ClockExact
PROPERTY InputArrives
CHECK_DEADLOCK FALSE
