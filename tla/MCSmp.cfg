SPECIFICATION Spec
CONSTANTS
    MAX_CPU = 4
    Tables <- Machines
    EarlyIds <- Bytes
    NoMem <- Shortages
INVARIANTS OwnStack LowMapped UserAfterBoot
PROPERTY BootEnds
CHECK_DEADLOCK FALSE
