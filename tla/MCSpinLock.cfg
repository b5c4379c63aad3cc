SPECIFICATION FairSpec
CONSTANTS
    c1 = c1
    c2 = c2
    c3 = c3
    CPU = {c1, c2, c3}
INVARIANTS MutualExclusion
PROPERTIES LockIsReleased LockIsTaken
CHECK_DEADLOCK FALSE
