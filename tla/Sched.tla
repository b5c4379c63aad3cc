------------------------------- MODULE Sched -------------------------------
(***************************************************************************)
(* Threads and run queues: schedule/schedule.c, the fault path of          *)
(* kernel/irq.c, start_new_shell of usr/init.c, and the shell's walk       *)
(* through the directories (usr/fs.c), those of the threads among them.    *)
(*                                                                         *)
(* Scheduling is cooperative and only CPU 0 does any: start_kernel loops   *)
(* over schedule(), the CPUs started later halt in start_secondary and     *)
(* never call it, and timer_irq_handler calls it only when its 32-bit tick *)
(* counter wraps.  So one thread acts at a time, the one CPU 0 runs, and   *)
(* an operation is a step.  kmalloc may fail in any of them.               *)
(***************************************************************************)
EXTENDS Fs, Sequences

CONSTANTS
    CPU,        \* 0 .. MAX_CPU - 1
    Up,         \* the CPUs that were started
    MaxTid      \* bound: threads ever created

ASSUME CpuAssumption == CPU \subseteq Nat /\ Up \subseteq CPU /\ 0 \in Up
ASSUME TidAssumption == MaxTid \in Nat /\ IsFiniteSet(Up) /\ Cardinality(Up) <= MaxTid

Tid == 0 .. MaxTid
NoThread == -1
Job == {"idle", "shell", "yield", "work"}   \* what a thread's function does:
        \* the loop of start_kernel, run_shell, test_thread (a loop over
        \* schedule()), or a function that returns

VARIABLES
    rq,         \* rqs[cpu].head
    current,    \* current of CPU 0
    state,      \* thread->state; "none": not allocated or freed
    job,        \* the function a thread runs
    fs,         \* the directory tree; thread t's directory is t, in /proc
    current_dir,    \* the shell's; one for all shells
    g_thread_id,
    sched_lock, \* per CPU
    shell,      \* the thread that counts as the shell
    pc,         \* CPU 0: "run", "spin" at a lock, "wild" after it switched to
                \* a thread that was freed, "stale" when it walks through a
                \* directory that was freed and whose memory has another use
    failed      \* history: create_thread_procfs failed for a queued thread

vars == <<rq, current, state, job, fs, current_dir, g_thread_id, sched_lock,
          shell, pc, failed>>

\* the directories of threads, and the threads of schedule_init
Dirs == Tid \cap DOMAIN fs
Idles == {t \in Tid : t < Cardinality(Up)}

Queued(c) == {rq[c][i] : i \in 1 .. Len(rq[c])}

\* schedule_init on each started CPU, in order, and usr_init: start_kernel is
\* about to enter its loop.
Init ==
    LET n == Cardinality(Up) IN
    /\ rq = [c \in CPU |-> IF c = 0 THEN <<n>> ELSE <<>>]
    /\ current = 0
    /\ state = [t \in Tid |-> IF t < n THEN "running"
                              ELSE IF t = n THEN "runnable" ELSE "none"]
    /\ job = [t \in Tid |-> IF t = n THEN "shell" ELSE "idle"]
    /\ fs = [d \in DOMAIN fs_init \cup (0 .. n) |-> IF d \in 0 .. n THEN Proc ELSE fs_init[d]]
    /\ current_dir = Root
    /\ g_thread_id = n + 1
    /\ sched_lock = [c \in CPU |-> 0]
    /\ shell = n
    /\ pc = "run" /\ failed = FALSE

Runs(j) == pc = "run" /\ job[current] \in j

\* thread_run(fn, arg, cpu) up to its return: the new thread goes to the front
\* of the queue, then gets its directory.
thread_run(j, c) ==
    /\ g_thread_id <= MaxTid
    /\ g_thread_id' = g_thread_id + 1
    /\ rq' = [rq EXCEPT ![c] = <<g_thread_id>> \o @]
    /\ state' = [state EXCEPT ![g_thread_id] = "runnable"]
    /\ job' = [job EXCEPT ![g_thread_id] = j]
    /\ fs' = create_directory(fs, g_thread_id, Proc)

\* The shell runs a command that creates a thread (thread_test, fifo_test).
ThreadRun(j, c) ==
    /\ Runs({"shell"}) /\ c \in Up /\ sched_lock[c] = 0
    /\ thread_run(j, c)
    /\ UNCHANGED <<current, current_dir, sched_lock, shell, pc, failed>>

\* the same when create_thread_procfs fails: the thread and its stack are
\* freed, the queue keeps the thread
ThreadRunNoProc(j, c) ==
    /\ Runs({"shell"}) /\ c \in Up /\ sched_lock[c] = 0
    /\ g_thread_id <= MaxTid
    /\ g_thread_id' = g_thread_id + 1
    /\ rq' = [rq EXCEPT ![c] = <<g_thread_id>> \o @]
    /\ failed' = TRUE
    /\ UNCHANGED <<current, state, job, fs, current_dir, sched_lock, shell, pc>>

\* the same for a lock nobody will release
ThreadRunSpin(c) ==
    /\ Runs({"shell"}) /\ sched_lock[c] = 1
    /\ pc' = "spin"
    /\ UNCHANGED <<rq, current, state, job, fs, current_dir, g_thread_id, sched_lock,
                   shell, failed>>

\* Switch to n, with threads in states st; a freed thread's context is garbage.
Goto(n, st) ==
    /\ current' = n
    /\ pc' = IF st[n] = "none" THEN "wild" ELSE "run"

\* mutant of Yield: prev is put in front of the queue
YieldToFront ==
    /\ Runs({"idle", "yield"}) /\ rq[0] # <<>>
    /\ Goto(Head(rq[0]), state)
    /\ rq' = [rq EXCEPT ![0] = <<current>> \o Tail(@)]
    /\ state' = [state EXCEPT ![current] = "runnable",
                              ![Head(rq[0])] = IF @ = "none" THEN @ ELSE "running"]
    /\ UNCHANGED <<job, fs, current_dir, g_thread_id, sched_lock, shell, failed>>

\* mutant of Yield: next stays in the queue
YieldKeepsNext ==
    /\ Runs({"idle", "yield"}) /\ rq[0] # <<>>
    /\ Goto(Head(rq[0]), state)
    /\ rq' = [rq EXCEPT ![0] = Append(@, current)]
    /\ state' = [state EXCEPT ![current] = "runnable",
                              ![Head(rq[0])] = IF @ = "none" THEN @ ELSE "running"]
    /\ UNCHANGED <<job, fs, current_dir, g_thread_id, sched_lock, shell, failed>>

\* schedule() called by a thread that goes on
Yield ==
    /\ Runs({"idle", "yield"}) /\ rq[0] # <<>>
    /\ Goto(Head(rq[0]), state)
    /\ rq' = [rq EXCEPT ![0] = Append(Tail(@), current)]
    /\ state' = [state EXCEPT ![current] = "runnable",
                              ![Head(rq[0])] = IF @ = "none" THEN @ ELSE "running"]
    /\ UNCHANGED <<job, fs, current_dir, g_thread_id, sched_lock, shell, failed>>

\* mutant of Die: the directory in /proc stays
DieKeepsDir(q, st, tree) ==
    /\ q # <<>>
    /\ Goto(Head(q), st)
    /\ rq' = [rq EXCEPT ![0] = Tail(q)]
    /\ state' = [st EXCEPT ![current] = "none"]
    /\ fs' = tree

\* thread_exit and schedule(): the thread's directory, stack and structure are
\* freed and the CPU switches to the next thread, whose state is left as it is.
\* q, st and tree are queue, states and directories before.
Die(q, st, tree) ==
    /\ q # <<>>
    /\ Goto(Head(q), st)
    /\ rq' = [rq EXCEPT ![0] = Tail(q)]
    /\ state' = [st EXCEPT ![current] = "none"]
    /\ fs' = remove_directory(tree, current)

\* The thread's function returns.
Exit ==
    /\ Runs({"work"})
    /\ Die(rq[0], state, fs)
    /\ UNCHANGED <<job, current_dir, g_thread_id, sched_lock, shell, failed>>

\* irq_handler: a fault in current, not in the shell, ends it.
Fault ==
    /\ Runs({"work", "yield"}) /\ current # shell
    /\ Die(rq[0], state, fs)
    /\ UNCHANGED <<job, current_dir, g_thread_id, sched_lock, shell, failed>>

\* mutant of ShellFault: the dead thread stays the shell
ShellFaultForgets(c) ==
    /\ Runs({"shell"}) /\ current = shell
    /\ c \in CPU \ Up => sched_lock[c] = 0
    /\ sched_lock' = [sched_lock EXCEPT ![c] = IF c \in Up THEN @ ELSE 1]
    /\ LET t == g_thread_id + (IF c \in Up THEN 0 ELSE 1) IN
        /\ t <= MaxTid
        /\ g_thread_id' = t + 1
        /\ job' = [job EXCEPT ![t] = "shell"]
        /\ Die(<<t>> \o rq[0], [state EXCEPT ![t] = "runnable"],
               create_directory(fs, t, Proc))
    /\ UNCHANGED <<shell, current_dir, failed>>

\* mutant of ShellFault: the new shell waits behind the other threads
ShellFaultLast(c) ==
    /\ Runs({"shell"}) /\ current = shell
    /\ c \in CPU \ Up => sched_lock[c] = 0
    /\ sched_lock' = [sched_lock EXCEPT ![c] = IF c \in Up THEN @ ELSE 1]
    /\ LET t == g_thread_id + (IF c \in Up THEN 0 ELSE 1) IN
        /\ t <= MaxTid
        /\ g_thread_id' = t + 1
        /\ job' = [job EXCEPT ![t] = "shell"]
        /\ shell' = t
        /\ Die(Append(rq[0], t), [state EXCEPT ![t] = "runnable"],
               create_directory(fs, t, Proc))
    /\ UNCHANGED <<current_dir, failed>>

\* A fault in the shell: start_new_shell, then the old one ends.  The fault may
\* be thread_run's own: for a CPU c that is not up it takes sched_lock[c] and
\* reads current_threads[c]->proc through NULL, after it took a thread id.
ShellFault(c) ==
    /\ Runs({"shell"}) /\ current = shell
    /\ c \in CPU \ Up => sched_lock[c] = 0
    /\ sched_lock' = [sched_lock EXCEPT ![c] = IF c \in Up THEN @ ELSE 1]
    /\ LET t == g_thread_id + (IF c \in Up THEN 0 ELSE 1) IN
        /\ t <= MaxTid
        /\ g_thread_id' = t + 1
        /\ job' = [job EXCEPT ![t] = "shell"]
        /\ shell' = t
        /\ Die(<<t>> \o rq[0], [state EXCEPT ![t] = "runnable"],
               create_directory(fs, t, Proc))
    /\ UNCHANGED <<current_dir, failed>>

\* the same when there is no memory for the new shell's thread
ShellFaultNoMemory ==
    /\ Runs({"shell"}) /\ current = shell
    /\ shell' = NoThread
    /\ Die(rq[0], state, fs)
    /\ UNCHANGED <<job, current_dir, g_thread_id, sched_lock, failed>>

\* the same when there is memory for the thread and none for its directory: the
\* new shell is freed and queued, and the CPU switches to it
ShellFaultNoProc ==
    /\ Runs({"shell"}) /\ current = shell /\ g_thread_id <= MaxTid
    /\ g_thread_id' = g_thread_id + 1
    /\ shell' = NoThread
    /\ failed' = TRUE
    /\ Die(<<g_thread_id>> \o rq[0], state, fs)
    /\ UNCHANGED <<job, current_dir, sched_lock>>

\* A command of the shell goes to directory d.
Goes(d) ==
    /\ Runs({"shell"})
    /\ current_dir' = d
    /\ UNCHANGED <<rq, current, state, job, fs, g_thread_id, sched_lock, shell, pc, failed>>

\* do_cd: no argument or "~"; ".."; the name of a directory.  A name that is not
\* there, ".", ls and cat change nothing.
CdRoot == Goes(Root)
CdUp == current_dir \in DOMAIN fs /\ Goes(ParentOf(fs, current_dir))
Cd(d) == current_dir \in DOMAIN fs /\ d \in dir_find_dir(fs, current_dir) /\ Goes(d)

\* cd, ls or cat in a directory that was freed: kfree leaves the memory as it
\* is, with its parent and empty lists, until it is given out again
CdUpFreed == current_dir \notin DOMAIN fs /\ Goes(Proc)
ReadFreed ==
    /\ Runs({"shell"}) /\ current_dir \notin DOMAIN fs
    /\ pc' = "stale"
    /\ UNCHANGED <<rq, current, state, job, fs, current_dir, g_thread_id, sched_lock,
                   shell, failed>>

Next ==
    \/ Yield \/ Exit \/ Fault \/ ShellFaultNoMemory \/ ShellFaultNoProc
    \/ CdRoot \/ CdUp \/ CdUpFreed \/ ReadFreed
    \/ \E d \in DOMAIN fs : Cd(d)
    \/ \E c \in CPU : ShellFault(c) \/ ThreadRunSpin(c)
    \/ \E c \in CPU, j \in {"yield", "work"} : ThreadRun(j, c) \/ ThreadRunNoProc(j, c)

\* A CPU goes on: a loop over schedule() calls it again and again.  Nothing is
\* assumed of the shell, which waits for input, or of other functions.
Spec == Init /\ [][Next]_vars /\ WF_vars(Yield)

----------------------------------------------------------------------------
(* Properties *)

\* Every variable keeps its type; thread ids are not used twice.
TypeOK ==
    /\ rq \in [CPU -> Seq(Tid)] /\ current \in Tid
    /\ state \in [Tid -> {"none", "runnable", "running"}]
    /\ job \in [Tid -> Job]
    /\ fs_init = [d \in DOMAIN fs \ Tid |-> fs[d]]
    /\ \A d \in Dirs : fs[d] = Proc
    /\ current_dir \in DOMAIN fs_init \cup Tid
    /\ g_thread_id \in 0 .. MaxTid + 1
    /\ \A t \in Tid : t >= g_thread_id => state[t] = "none" /\ t \notin Dirs
    /\ sched_lock \in [CPU -> {0, 1}]
    /\ shell \in Tid \cup {NoThread}
    /\ pc \in {"run", "spin", "wild", "stale"} /\ failed \in BOOLEAN

Alive == {t \in Tid : state[t] # "none"}

\* Until create_thread_procfs fails, each thread is in one place: it runs, or it
\* waits in one queue, once; no queue holds a thread that schedule() has freed,
\* so context_switch never loads a freed context.
OnePlace == ~failed =>
    LET All == UNION {Queued(c) : c \in CPU}
        Idle == Idles \ {0}
    IN  /\ Alive = {current} \cup Idle \cup All
        /\ current \notin All /\ Idle \cap All = {}
        /\ \A c \in CPU : Cardinality(Queued(c)) = Len(rq[c])
        /\ \A c, d \in CPU : c # d => Queued(c) \cap Queued(d) = {}
        /\ pc # "wild"

\* /proc has a directory for each thread that lives, and remove_directory in
\* schedule() takes it away with the thread: reading "state" in one never looks
\* into a thread that was freed.
ProcExact == TypeOK /\ Dirs = Alive

\* current_dir outlives shells and nothing resets it, yet the one directory the
\* shell can be left in after it was freed is its own: a shell that fails is
\* followed at once by the next, so no other thread ends while a shell is there.
DirectoryLives ==
    shell # NoThread /\ ~failed =>
        current_dir \in DOMAIN fs \/ (job[current_dir] = "shell" /\ current_dir < shell)

\* Whatever the shells before it ran into, there is one that runs or is queued on
\* CPU 0, unless memory ran out when it should have been started again.  It need
\* not answer: one that called thread_run for a CPU that is not up, after another
\* shell faulted there, waits for sched_lock for ever (pc = "spin").
ShellLives ==
    shell # NoThread /\ ~failed =>
        job[shell] = "shell" /\ (shell = current \/ shell \in Queued(0))

\* Threads that call schedule() take turns: who waits on CPU 0 runs, unless CPU 0
\* is with a thread that does not call it (the shell never does).
TakeTurns ==
    \A t \in Tid :
        (t \in Queued(0) /\ ~failed)
            ~> (current = t \/ job[current] \in {"shell", "work"} \/ failed)
=============================================================================
