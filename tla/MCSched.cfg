SPECIFICATION Spec
CONSTANTS
    CPU <- Three
    Up <- Two
    MaxTid = 6
INVARIANTS OnePlace ProcExact DirectoryLives ShellLives
PROPERTY TakeTurns
CHECK_DEADLOCK FALSE
