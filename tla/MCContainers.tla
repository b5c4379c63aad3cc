--------------------------- MODULE MCContainers ---------------------------
(* The containers of libs/ for TLC, one of them exercised in a behaviour:   *)
(* a queue that grows twice, a fifo that wraps twice and more, strings that *)
(* grow from 2 bytes, lines of the shell with vectors that grow from 2      *)
(* pieces, numbers of 8 bits.                                               *)
EXTENDS Queue, Fifo, Strings

VARIABLE lib

MCInit ==
    /\ Init /\ FifoInit /\ StringsInit
    /\ \/ lib \in {"queue", "fifo", "string", "shell"} /\ arg = NoArg
       \/ lib = "convert" /\ arg \in Args

MCNext ==
    /\ \/ lib = "queue" /\ Next /\ UNCHANGED <<fifoVars, string, shell>>
       \/ lib = "fifo" /\ FifoNext /\ UNCHANGED <<vars, string, shell>>
       \/ lib = "string" /\ StringNext /\ UNCHANGED <<vars, fifoVars, shell>>
       \/ lib = "shell" /\ ShellNext /\ UNCHANGED <<vars, fifoVars, string>>
    /\ UNCHANGED <<lib, arg>>

MCSpec == MCInit /\ [][MCNext]_<<vars, fifoVars, string, shell, lib, arg>>
=============================================================================
