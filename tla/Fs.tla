--------------------------------- MODULE Fs ---------------------------------
(***************************************************************************)
(* The directory tree of fs/fs.c and the way the shell walks through it    *)
(* (usr/fs.c).  A tree is a function from its directories to their         *)
(* parents: the links of dir_list and node follow from it.  A directory is *)
(* a number: a fixed one, or t for /proc/<t>, thread t's.                  *)
(*                                                                         *)
(* Files come and go with their directory: bin holds the commands from     *)
(* usr_init on, /proc/<t> holds "state", whose read looks into thread t.   *)
(***************************************************************************)
EXTENDS Integers, FiniteSets

NoDir == -2     \* NULL, the parent of the root
Root == -3
Bin == -4
Proc == -5
Sys == -6

create_directory(fs, d, parent) ==
    [x \in DOMAIN fs \cup {d} |-> IF x = d THEN parent ELSE fs[x]]

\* fs_init
fs_init == [d \in {Root, Bin, Proc, Sys} |-> IF d = Root THEN NoDir ELSE Root]

\* d and everything below it, level by level
Below(fs, d) ==
    LET level[n \in 0 .. Cardinality(DOMAIN fs)] ==
            IF n = 0 THEN {d}
            ELSE LET above == level[n - 1]
                 IN  above \cup {x \in DOMAIN fs : fs[x] \in above}
    IN  level[Cardinality(DOMAIN fs)]

remove_directory(fs, d) == [x \in DOMAIN fs \ Below(fs, d) |-> fs[x]]

\* dir_find_dir for any name: the directories it can return
dir_find_dir(fs, d) == {x \in DOMAIN fs : fs[x] = d}

\* "cd .." in directory d: the root has no parent and stays
ParentOf(fs, d) == IF fs[d] = NoDir THEN d ELSE fs[d]
=============================================================================
