-------------------------------- MODULE Smp --------------------------------
(***************************************************************************)
(* How the CPUs come up: the entry code of kernel/entry.S, start_kernel of *)
(* kernel/init.c, smp_init, cpu_up and start_secondary of kernel/smp.c,    *)
(* start_paging of mm/memory.c, schedule_init of schedule/schedule.c.      *)
(*                                                                         *)
(* None of the state the CPUs touch on their way is locked: the count of   *)
(* entries that picks a boot stack, the entry of the page directory that   *)
(* start_paging borrows, the thread id and the list of threads in          *)
(* schedule_init.  What protects them is the order of the start-up: a CPU  *)
(* that has started the next one waits until that one is done.  Each read  *)
(* and write of this state is a step of its own, to see whether it does.   *)
(*                                                                         *)
(* The kernel is built without optimisation (Makefile, CFLAGS), so the     *)
(* loop in cpu_up reads c->started at every turn.                          *)
(***************************************************************************)
EXTENDS Integers, Sequences, FiniteSets

CONSTANTS
    MAX_CPU,
    Tables,     \* the MP tables of the machines considered; a table is a
                \* sequence of entries, no table is NoTable
    EarlyIds,   \* what cpu_id() may return before a CPU has its segments
    NoMem       \* sets of CPUs for which schedule_init may find no memory
CPU == 0 .. MAX_CPU - 1
NoTable == <<[type |-> "none"]>>

ASSUME MaxAssumption == MAX_CPU \in Nat \ {0}
\* A processor has an id and a flag that says whether it can be used; the boot
\* CPU is the one with id 0, which schedule_init(0) in start_kernel relies on.
ASSUME TablesAssumption ==
    \A t \in Tables :
        /\ Len(t) \in Nat /\ DOMAIN t = 1 .. Len(t)
        /\ \A i \in DOMAIN t :
            t[i].type = "processor" => t[i].lapic_id \in Nat /\ t[i].cpu_en \in BOOLEAN
ASSUME NoMemAssumption == NoMem \subseteq SUBSET CPU

VARIABLES
    table,          \* the MP table of this machine
    early_id,       \* the top byte of the RAM at lapic + ID - KERNEL_VIRT_BASE
    no_mem,         \* the CPUs whose kmalloc in schedule_init fails
    pos,            \* scan_mp_entry: the entry p points to
    init, started,  \* cpus[].init, cpus[].started
    pc,             \* where each CPU is
    entry_cnt,      \* __entry_cnt
    stack,          \* the boot stack a CPU took, -1 before
    low,            \* pgdir[0] is set
    g_thread_id,
    tid,            \* schedule_init: the id read for the idle thread, -1 before
    group,          \* init_proc.thread_group
    os_start

vars == <<table, early_id, no_mem, pos, init, started, pc, entry_cnt, stack, low, g_thread_id, tid, group, os_start>>
shared == <<entry_cnt, stack, low, g_thread_id, tid, group>>
machine == <<table, early_id, no_mem>>
scan == <<machine, pos, init>>

At(c, l) == pc[c] = l
Goto(c, l) == pc' = [pc EXCEPT ![c] = l]

\* The boot loader has jumped to kern_entry on CPU 0; .bss is zero.
Init ==
    /\ table \in Tables /\ early_id \in EarlyIds /\ no_mem \in NoMem
    /\ pos = 1
    /\ init = [c \in CPU |-> FALSE] /\ started = [c \in CPU |-> FALSE]
    /\ pc = [c \in CPU |-> IF c = 0 THEN "entry" ELSE "off"]
    /\ entry_cnt = 0 /\ stack = [c \in CPU |-> -1]
    /\ low = FALSE
    /\ g_thread_id = 0 /\ tid = [c \in CPU |-> -1] /\ group = {}
    /\ os_start = FALSE

----------------------------------------------------------------------------
(* kernel/entry.S: every CPU runs kern_entry *)

\* relocated: esp is the end of boot stack number __entry_cnt
EntryStack(c) ==
    /\ At(c, "entry")
    /\ stack' = [stack EXCEPT ![c] = entry_cnt]
    /\ Goto(c, "count")
    /\ UNCHANGED <<scan, started, entry_cnt, low, g_thread_id, tid, group, os_start>>

EntryCount(c) ==
    /\ At(c, "count")
    /\ entry_cnt' = entry_cnt + 1
    /\ Goto(c, "branch")
    /\ UNCHANGED <<scan, started, stack, low, g_thread_id, tid, group, os_start>>

\* cmp $1, (__entry_cnt): the first to come calls start_kernel, others
\* start_secondary; both begin with start_paging (memory_init of start_kernel)
EntryBranch(c) ==
    /\ At(c, "branch")
    /\ Goto(c, IF entry_cnt = 1 THEN "boot_map" ELSE "ap_map")
    /\ UNCHANGED <<scan, started, shared, os_start>>

----------------------------------------------------------------------------
(* start_paging *)

\* mutant of PagingMap: the entry is not set
PagingNoMap(c, from, to) ==
    /\ At(c, from)
    /\ Goto(c, to)
    /\ UNCHANGED <<scan, started, shared, os_start>>

\* pgdir[0] = pgdir[pde_index(KERNEL_VIRT_BASE)]
PagingMap(c, from, to) ==
    /\ At(c, from)
    /\ low' = TRUE
    /\ Goto(c, to)
    /\ UNCHANGED <<scan, started, entry_cnt, stack, g_thread_id, tid, group, os_start>>

\* enable_paging, gdt_init and pgdir[0] = 0: up to the last assignment the CPU
\* fetches its instructions through pgdir[0]
PagingUnmap(c, from, to) ==
    /\ At(c, from)
    /\ low' = FALSE
    /\ Goto(c, to)
    /\ UNCHANGED <<scan, started, entry_cnt, stack, g_thread_id, tid, group, os_start>>

\* start_paging(current->proc->mm->pgdir) of start_secondary: the segments still
\* take KERNEL_VIRT_BASE off every address, so that cpu_id() reads RAM where it
\* means the LAPIC.  All idle threads have the same pgdir, but there must be one
\* of the CPU that early_id names.
HasCurrent == early_id \in CPU /\ tid[early_id] \in group

\* a page directory from nowhere: the CPU does not come back from enable_paging
PagingLost(c) ==
    /\ At(c, "ap_map") /\ ~HasCurrent
    /\ Goto(c, "lost")
    /\ UNCHANGED <<scan, started, shared, os_start>>

----------------------------------------------------------------------------
(* smp_init *)

\* No MP table, or one with a wrong signature: smp_init returns an error, which
\* start_kernel ignores.
NoMp ==
    /\ At(0, "scan") /\ table = NoTable
    /\ Goto(0, "boot_sched_read")
    /\ UNCHANGED <<scan, started, shared, os_start>>

Entry == table[pos]
More == At(0, "scan") /\ table # NoTable /\ pos <= Len(table)

\* scan_mp_entry, a turn of its loop
ScanProcessor ==
    /\ More /\ Entry.type = "processor" /\ Entry.lapic_id < MAX_CPU
    /\ init' = [init EXCEPT ![Entry.lapic_id] = TRUE]
    /\ started' = [started EXCEPT ![Entry.lapic_id] = FALSE]
    /\ pos' = pos + 1
    /\ UNCHANGED <<machine, pc, shared, os_start>>

\* a processor beyond MAX_CPU: "continue" without p += sizeof(*processor), so
\* that the loop stays at this entry for good
ScanSpin ==
    /\ More /\ Entry.type = "processor" /\ Entry.lapic_id >= MAX_CPU
    /\ Goto(0, "spin")
    /\ UNCHANGED <<scan, started, shared, os_start>>

\* bus, ioapic, iointr, lintr
ScanOther ==
    /\ More /\ Entry.type = "other"
    /\ pos' = pos + 1
    /\ UNCHANGED <<machine, init, started, pc, shared, os_start>>

\* an unknown type ends the scan, at the end of the table so does the loop
ScanEnd ==
    /\ At(0, "scan") /\ table # NoTable
    /\ pos <= Len(table) => Entry.type = "unknown"
    /\ Goto(0, "boot_sched_read")
    /\ UNCHANGED <<scan, started, shared, os_start>>

----------------------------------------------------------------------------
(* schedule_init *)

\* No memory for the idle thread: -ENOMEM, which nobody looks at.  CPU 0 then
\* faults at current->proc, before there is an IDT; another CPU goes on and never
\* gets a thread.
SchedNoMem(c, from, to) ==
    /\ At(c, from) /\ c \in no_mem
    /\ Goto(c, to)
    /\ UNCHANGED <<scan, started, shared, os_start>>

\* g_thread_id++ reads ...
SchedRead(c, from, to) ==
    /\ At(c, from) /\ c \notin no_mem
    /\ tid' = [tid EXCEPT ![c] = g_thread_id]
    /\ Goto(c, to)
    /\ UNCHANGED <<scan, started, entry_cnt, stack, low, g_thread_id, group, os_start>>

\* ... and writes; list_insert of the idle thread into init_proc.thread_group
SchedWrite(c, from, to) ==
    /\ At(c, from)
    /\ g_thread_id' = tid[c] + 1
    /\ group' = group \cup {tid[c]}
    /\ Goto(c, to)
    /\ UNCHANGED <<scan, started, entry_cnt, stack, low, tid, os_start>>

----------------------------------------------------------------------------
(* cpu_up *)

\* cpu_up(n) sends the startup IPI ... (n is not usable: nothing happens, nor
\* does it when n already runs)
CpuUp(c, n, from, wait) ==
    /\ At(c, from) /\ n < MAX_CPU /\ init[n]
    /\ Goto(c, wait)
    /\ UNCHANGED <<scan, started, shared, os_start>>

\* mutant of CpuUpDone: the loop over c->started is left out
CpuUpNoWait(c, n, wait, to) ==
    /\ At(c, wait)
    /\ Goto(c, to)
    /\ UNCHANGED <<scan, started, shared, os_start>>

\* ... and waits until start_secondary of n is through
CpuUpDone(c, n, wait, to) ==
    /\ At(c, wait) /\ started[n]
    /\ Goto(c, to)
    /\ UNCHANGED <<scan, started, shared, os_start>>

\* there is no CPU n to start
CpuUpNone(c, n, from, to) ==
    /\ At(c, from) /\ (n < MAX_CPU => ~init[n])
    /\ Goto(c, to)
    /\ UNCHANGED <<scan, started, shared, os_start>>

\* Hardware: the CPUs that work.
Usable(n) == \E i \in DOMAIN table :
    table[i].type = "processor" /\ table[i].lapic_id = n /\ table[i].cpu_en

\* mutant of Startup: the IPI goes to all CPUs instead of the one of apic_id
StartupAll(n) ==
    /\ n > 0 /\ At(n, "off") /\ Usable(n)
    /\ \E m \in CPU : pc[m] \in {"boot_wait", "ap_wait"}
    /\ Goto(n, "real")
    /\ UNCHANGED <<scan, started, shared, os_start>>

\* lapic_startap: INIT, then STARTUP twice, to the CPU n that n - 1 starts; one
\* that works begins in real mode, and does not take the second STARTUP
Startup(n) ==
    /\ n > 0 /\ At(n, "off") /\ Usable(n)
    /\ pc[n - 1] \in {"boot_wait", "ap_wait"}
    /\ Goto(n, "real")
    /\ UNCHANGED <<scan, started, shared, os_start>>

\* boot/entryother: into protected mode, and to the entry point of the kernel's
\* ELF header
Trampoline(n) ==
    /\ At(n, "real")
    /\ Goto(n, "entry")
    /\ UNCHANGED <<scan, started, shared, os_start>>

----------------------------------------------------------------------------
(* the end of start_secondary and of start_kernel *)

\* mutant of StartSecondaryEnd: the CPU does not report
StartSecondarySilent(c) ==
    /\ At(c, "ap_started")
    /\ Goto(c, "halt")
    /\ UNCHANGED <<scan, started, shared, os_start>>

\* this_cpu()->started = true, then halt() for ever
StartSecondaryEnd(c) ==
    /\ At(c, "ap_started")
    /\ started' = [started EXCEPT ![c] = TRUE]
    /\ Goto(c, "halt")
    /\ UNCHANGED <<scan, shared, os_start>>

\* this_cpu()->started = true, os_start = true, and usr_init: the shell may
\* create threads from now on
StartKernelEnd ==
    /\ At(0, "boot_started") /\ table # NoTable
    /\ started' = [started EXCEPT ![0] = TRUE]
    /\ os_start' = TRUE
    /\ Goto(0, "idle")
    /\ UNCHANGED <<scan, shared>>

\* without smp_init, this_cpu() is NULL: a page fault before os_start, on which
\* irq_handler halts with interrupts off
StartKernelFault ==
    /\ At(0, "boot_started") /\ table = NoTable
    /\ Goto(0, "dead")
    /\ UNCHANGED <<scan, started, shared, os_start>>

\* start_kernel, in the order of its calls
StartKernel ==
    \/ PagingMap(0, "boot_map", "boot_paging")
    \/ PagingUnmap(0, "boot_paging", "scan")
    \/ NoMp \/ ScanProcessor \/ ScanSpin \/ ScanOther \/ ScanEnd
    \/ SchedNoMem(0, "boot_sched_read", "lost")
    \/ SchedRead(0, "boot_sched_read", "boot_sched")
    \/ SchedWrite(0, "boot_sched", "boot_up")
    \/ CpuUp(0, 1, "boot_up", "boot_wait")
    \/ CpuUpDone(0, 1, "boot_wait", "boot_started")
    \/ CpuUpNone(0, 1, "boot_up", "boot_started")
    \/ StartKernelEnd \/ StartKernelFault

\* start_secondary, in the order of its calls
StartSecondary(c) ==
    \/ HasCurrent /\ PagingMap(c, "ap_map", "ap_paging")
    \/ PagingLost(c)
    \/ PagingUnmap(c, "ap_paging", "ap_sched_read")
    \/ SchedNoMem(c, "ap_sched_read", "ap_up")
    \/ SchedRead(c, "ap_sched_read", "ap_sched")
    \/ SchedWrite(c, "ap_sched", "ap_up")
    \/ CpuUp(c, c + 1, "ap_up", "ap_wait")
    \/ CpuUpDone(c, c + 1, "ap_wait", "ap_started")
    \/ CpuUpNone(c, c + 1, "ap_up", "ap_started")
    \/ StartSecondaryEnd(c)

KernEntry(c) == EntryStack(c) \/ EntryCount(c) \/ EntryBranch(c)

Run(c) == Trampoline(c) \/ KernEntry(c) \/ StartSecondary(c) \/ (c = 0 /\ StartKernel)

Next == \E c \in CPU : Run(c) \/ Startup(c)

\* A CPU that can go on does, and a working CPU answers the IPI.
Spec == Init /\ [][Next]_vars /\ \A c \in CPU : WF_vars(Run(c)) /\ WF_vars(Startup(c))

----------------------------------------------------------------------------
(* Properties *)

Entered == {c \in CPU : stack[c] # -1}

\* Every variable keeps its type.
TypeOK ==
    /\ table \in Tables /\ early_id \in EarlyIds /\ no_mem \in NoMem
    /\ pos \in 1 .. Len(table) + 1
    /\ init \in [CPU -> BOOLEAN] /\ started \in [CPU -> BOOLEAN]
    /\ entry_cnt \in 0 .. MAX_CPU /\ g_thread_id \in 0 .. MAX_CPU
    /\ stack \in [CPU -> -1 .. MAX_CPU - 1] /\ tid \in [CPU -> -1 .. MAX_CPU - 1]
    /\ group \subseteq 0 .. MAX_CPU - 1
    /\ low \in BOOLEAN /\ os_start \in BOOLEAN

\* Every variable has its type; no two CPUs run on one boot stack and none runs
\* beyond the boot stacks; idle threads have different ids, and those of all CPUs
\* that had memory for one are in the list of threads.  Nothing of this is locked.
OwnStack ==
    /\ TypeOK
    /\ \A c, d \in Entered : c # d => stack[c] # stack[d]
    /\ \A c, d \in CPU : c # d /\ tid[c] # -1 => tid[c] # tid[d]
    /\ \A c \in CPU \ no_mem : pc[c] \in {"ap_up", "ap_wait", "ap_started", "halt"} => tid[c] \in group

\* A CPU that runs through pgdir[0] finds it set: no other CPU clears it between
\* the two assignments of start_paging.
LowMapped == \A c \in CPU : pc[c] \in {"boot_paging", "ap_paging"} => low

\* When the shell starts and thread_run uses g_thread_id and the list of threads,
\* no other CPU is still in start_secondary.
UserAfterBoot == os_start => \A c \in CPU \ {0} : pc[c] \in {"off", "halt"}

Processors == {table[i].lapic_id : i \in {j \in DOMAIN table : table[j].type = "processor"}}
Good ==
    /\ early_id = 0 /\ 0 \notin no_mem
    /\ table # NoTable /\ Processors \subseteq CPU
    /\ \A n \in Processors : Usable(n)
    /\ \A i \in DOMAIN table : table[i].type # "unknown"

\* On a machine whose processors all work and fit into cpus[], start_kernel gets
\* to usr_init, and every CPU whose predecessors exist is started: no CPU
\* waits for ever in cpu_up, also if another one got no idle thread.  Two more
\* conditions: CPU 0 has memory for its thread, and the RAM that cpu_id() reads
\* too early holds 0, as it does under QEMU.
BootEnds ==
    Good ~> os_start /\ \A n \in CPU : 0 .. n \subseteq Processors => started[n]
=============================================================================
