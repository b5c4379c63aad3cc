# Verification of oh-my-os

TLA+ models of the kernel in `src/`, checked with TLC on small instances and, for
all of the modelled components but the interval tree, proved with TLAPS for every value of the constants. `PROJECT.json` maps each
definition to the lines it models and lists runs, mutants, findings, hazards and theorems.

## The system

A 32-bit x86 kernel: a boot loader, physical and virtual memory, interrupts, SMP bring-up,
threads, a virtual file system and a shell. There is no user mode and no disk.

| component | state | operations | interacts with | what makes it correct |
|---|---|---|---|---|
| page allocator (`mm/page.c`) | `pages[]` (order, flags, list node), free lists of two zones | `init_free_pages`, `alloc_pages`, `free_pages` under `page_lock` | slab, kmalloc, page tables, vmalloc | blocks tile the RAM, lists hold exactly the free blocks |
| slab (`mm/slab.c`) | per cache: partial and full pages; per page a stack of free indices | `kmem_cache_create/alloc/free` under `cache->lock` | page allocator, kmalloc | no object given out twice, pages where they belong |
| kmalloc (`mm/kmalloc.c`) | early buddy heap, `init_kmem_cache` | `kmalloc`, `kfree`, `kmalloc_init` | slab, page allocator, everybody | chunk large enough, freed where it came from |
| vmalloc (`mm/vmalloc.c`) | free areas, vm areas, `vma_lock` | `vmalloc`, `vfree`, `vmap`, `vunmap` | page tables, page allocator | areas disjoint, pages returned, lock released |
| page tables (`mm/page_table.c`) | page directory and tables | `page_map`, `page_unmap` | page allocator | a mapping is what was asked for, others untouched |
| spinlock (`libs/lock.c`) | `counter` | `spin_lock`, `spin_unlock` | everybody, interrupts | exclusion, no livelock |
| fifo (`libs/fifo.c`) | bytes, `in`, `out` | `fifo_in`, `fifo_out`, `fifo_skip`, no lock | producer and consumer threads | bytes intact and in order |
| queue (`libs/queue.c`) | growing ring | `enqueue`, `dequeue` | keyboard, `readchar` | a queue, also across growth |
| interval tree (`libs/rb_tree.c`) | red-black tree | insert, remove, search | debug symbols, vmalloc | balanced, search exact |
| scheduler (`schedule/schedule.c`) | run queue per CPU, thread states, `/proc` directories | `thread_run`, `schedule`, `thread_exit` | kmalloc, file system, interrupts, shell | a thread in one place, turns, a shell lives |
| timer (`kernel/timer.c`) | ticks, clock, timers | interrupt, `msleep` (no caller) | scheduler, `readchar` | the clock agrees with the ticks; who halts is woken |
| interrupts (`kernel/irq.c`, `entry.S`, lapic, ioapic, pic) | handler table | dispatch, fault path | scheduler, keyboard, timer | handlers run, faults end the thread |
| SMP (`kernel/smp.c`, `entry.S`) | `cpus[]`, `started`, entry count, boot stacks | MP table scan, `cpu_up`, `start_secondary` | scheduler, paging | all CPUs come up, one after the other, and share no boot state meanwhile |
| keyboard, console (`kernel/keyboard.c`, `stdio.c`, `serial.c`) | modifier bits, queue, print buffers | scan codes, `readchar`, print | queue, shell, spinlock | keys arrive, no modifier sticks |
| file system (`fs/fs.c`) | tree of directories and files | create, remove, find | scheduler, shell | no dangling entries |
| shell (`usr/*`) | current directory | commands | file system, scheduler | survives faults |
| strings, vectors (`libs/string.c`, `vector.c`) | growing buffers | append, convert | everybody | text kept, nothing lost or leaked; room for the terminating zero (which is violated, `string_end`) |

Hard behaviours: `spin_lock` leaves interrupts on; `assert` prints, halts until the next
interrupt and goes on, so no action of the models is guarded by an assert; out-of-memory
paths; faults that end the running thread wherever it is; lock-free access to the fifo;
intrusive lists that corrupt each other after a double insertion; sizes at their limits.

## Modules

| module | models | abstracts |
|---|---|---|
| `PageAlloc` | `mm/page.c`, `include/list.h`: links of every list node, orders, flags, each turn of the boot, split and merge loops an action | the printed dumps |
| `Slab` | `mm/slab.c`: one cache, its pages, the stacks of byte indices | page contents |
| `Kmalloc` | `mm/kmalloc.c`, `fls`, `ilog2_roundup`: early heap, routing of `kmalloc` and `kfree` | slab and page allocator by their promise: any chunk of the right size that is free |
| `PageTable`, `Vmalloc` | `mm/page_table.c` as operators on a two-level table, whose directory starts with whatever its page held; `mm/vmalloc.c`: list of areas, lists of free areas by order, tree of areas, retry of `vmalloc`, failures of each allocation; `start_paging` of the other processors, which clears entry 0 of the directory | a call is one step (it holds `vma_lock`); `start_paging` is one (processor 0, the only one to call `vmalloc` by then, waits in `cpu_up`); translation buffers; the tree by `IntervalSet`; addresses in pages; which of the free frames are given (one fixed choice, `Pages`) |
| `SpinLock` | `libs/lock.c`, `include/lock.h`, `cmpxchg`: read and cmpxchg are separate steps, on each CPU a thread and a handler on top of it | what is done under the lock |
| `FifoSpec`, `Fifo` | `libs/fifo.c`: check, byte-wise copy and publication of the index are separate steps of producer and consumer | byte values, by the position in the stream |
| `QueueSpec`, `Queue` | `libs/queue.c` | element size |
| `IntervalSet`, `RbTree` | `libs/rb_tree.c`: each turn of the fixup loops an action; the two mirrored halves of the code share a `d \in {"left", "right"}` | the value a node carries |
| `Strings` | `libs/string.c`, `libs/vector.c`: growth byte by byte, what is written past the memory (`spill`), `kssplit` in the loop of `run_shell` with the number of live blocks and the NULL it pushes when `ksalloc` fails, conversions, `memmove` | three kinds of bytes; ints of 8 bits |
| `Fs`, `Sched` | the directory tree of `fs/fs.c`; `schedule/schedule.c`, the fault path of `irq_handler`, `start_new_shell`, and `cd`, `ls`, `cat` of `usr/fs.c` | registers and stacks; a thread is what its function does: loops over `schedule()`, returns, or is the shell; files, which live and die with their directory |
| `Smp` | `kernel/entry.S`, `start_paging`, the MP table scan, `schedule_init`, `cpu_up`, `start_secondary`, the calls of `start_kernel` around them: each read and each write of shared boot state is a step; `schedule_init` without memory; `current` before a CPU has its segments | the contents of table entries but type, id and `cpu_en`; device set-up between the steps |
| `Console` | `kernel/keyboard.c`, receiver of `kernel/serial.c`, `readchar` and `readline`, `timer_irq_handler` and the clock | eleven keys, which repeat when held; the queue by `QueueSpec`; the time constants and 2^32 are parameters |

Each has a module `MC...` with its instances; `MCContainers` holds `Queue`, `Fifo` and `Strings`,
`MCSched` and `MCVmalloc` the modules they build on. `FifoSpec`, `QueueSpec` and
`IntervalSet` say what a component promises; the detailed module is checked to implement
them, and `Console` and `Vmalloc` use the promise in place of the detail. Definitions whose comment
begins with "mutant of" change a definition the way a bug would; they are not used, and are
named in `PROJECT.json`: replacing the definition by its mutant must break the property.

How the state corresponds. Variables have the names of the code's where there is one
(`g_thread_id`, `sched_lock`, `current_dir`, `free_lists`, `shift`, `entry_cnt`); `pc` is the place
in the code of the one thread or CPU concerned; `held` of `Console`, the keys that are down, belongs to the
user. Variables declared as history (`mixed`, `short`, `failed`, `unlisted`, `untracked`, `lost`, `twice`,
`repeated`, `dropped`, `caps`, `wanted`, `got`, `text`) record what happened and guard nothing, with three exceptions, each a
place where a model follows the code no further: `Strings` reads no line after one with a failed
`kmalloc`; `Kmalloc` calls `kmalloc_early` and `kfree_early` no more after a merge of unequal blocks
(`Intact`: a free list may then hold a block twice and is no sequence any more; `PageAlloc`, which has the links of
the same algorithm, does go on), while slab caches and pages go on; and `PageAlloc` begins at most `MaxAfter`
operations after such a merge.

Interrupts in `Console`. `pic_init(false)` masks the PIC, `ioapic_init` masks every entry of the
I/O APIC, and `keyboard_init` enables `ioapic_enable(IRQ_KEYBD, 0)` with the vector number 33 where
the pin number 1 is meant, an entry that a PC's I/O APIC does not have. So the model has
one interrupt, the local timer's; keys are read by `keyboard_init` only.

Order in `Smp`. The only thing that keeps two CPUs from the same boot stack, the same thread id or
from clearing `pgdir[0]` under each other is that `cpu_up` waits for `started`. The CPUs are
started in a chain, each one by its predecessor; the model has every access unprotected
and the run shows that the waiting suffices. The kernel is compiled without optimisation,
so the loop reads the flag each time. An AP finds the page directory through `current`, before it has flat
segments: the segment base is then -`KERNEL_VIRT_BASE`, so `cpu_id()` reads the RAM at `0x3EE00020` and not the
local APIC at `0xFEE00020`. `early_id` is the top byte found there. If it names a CPU that has its idle thread the
AP goes on, since all threads share one directory; otherwise it is lost (`PagingLost`). Without memory in `schedule_init`,
CPU 0 faults at `current->proc` and an AP goes on without a thread (`SchedNoMem`).

## Runs

| run | instance | shows |
|---|---|---|
| `page_alloc` | 12 frames, largest block 4, RAM over the zones' border | tiling, exact lists, loops end |
| `page_shared` | RAM that begins inside a block | **violated**: two owners of a page |
| `slab` | three pages of few objects, lack of memory | free stacks exact, pages accounted, distinct objects |
| `kmalloc` | units of 2 bytes, 4 units of early heap, caches of 2 and 4 bytes, 2 pages of 8 | tiling, routing, sizes, coalescing; later chunks lie apart also after an unequal merge in the early heap |
| `vmalloc` | 7 pages of addresses, tables of 2 entries, 5 frames in each zone, requests of 1 to 3 pages, directories with and without entries left in them, 2 processors still to start | areas tile, lists exact; every address translates to its page until a processor clears entry 0 over it, and no frame has two uses |
| `spinlock` | three CPUs, interrupts at any time, handlers that may take the lock | exclusion, no livelock, release unless a handler waits for its own thread's lock |
| `containers` | queue from 2 to 8, a fifo of 4 bytes that wraps several times, strings from 2 bytes up to 5, vectors from 2, all lines up to 5 bytes, all ints of 8 bits, all moves in 6 bytes | `Queue` implements `QueueSpec` and `Fifo` `FifoSpec`; bytes of the stream intact; text kept; split loses nothing; no leak; conversions there and back |
| `string_end` | the same | **violated**: at length = capacity the terminating zero is written past the memory |
| `rb_tree` | intervals over eight points | balance, exact search, implements `IntervalSet`, fixups end |
| `sched` | CPUs 0 and 1 up, 2 not, up to 7 threads | one place, `/proc`, the shell's directory, a shell lives, turns |
| `smp` | up to 4 CPUs; tables in and out of order, with gaps, unusable or too many processors, unknown entries, no table; four values of `early_id`, lack of memory for none, the first, the second or the last two CPUs | boot state never shared, shell after boot, boot ends on working machines |
| `console` | eleven keys, a few events, typematic repeat; or serial bytes with the clock until ticks wraps | modifiers, typed is read, clock, input arrives |

Bounds. The buddy allocators have every kind of split and merge with three orders; a
second zone needs one page only. Slab pages are symmetric, two of them give all moves between
lists. In `Fifo` the indices run over more than two laps. Trees of up to eight
nodes reach all cases of both fixups. In `Vmalloc` seven pages over four tables make areas that cross a
table, share one, or fit exactly, and five frames run out in either zone. A string of 5 bytes grows
twice from 2. In `Console` a minute has 2 seconds and an hour 2 minutes, so that every carry happens before
ticks wraps at `U32` = 11, where milliseconds wrap too, before ticks as in the code (in the code after 49.7 and 497 days). `APS` = 2 processors
clear entry 0 of the directory before, between and after the calls. `MaxTid`, `MaxLive`, `MaxCapacity`, `MaxText`, `Budgets` and `MaxAfter`
bound threads, owned chunks, growth, texts, input and the operations after an unequal merge. Runs that end
at such a bound, or in a state the program really stops in, do not check for deadlock; `rb_tree` does.

Fairness. A CPU inside an allocator or a fixup loop goes on (`WF` of the loop's steps): there
nothing waits. In `SpinLock` the steps of a context are strongly fair, because an interrupt
disables the thread's step again and again but always returns, and the bus does not
starve one CPU's locked instruction; calling `spin_lock` is not fair. In `Sched` only a
loop over `schedule()` is fair; nothing is assumed of the shell or of functions that may not return.
In `Smp` every CPU executes, and a working one answers the startup IPI. In `Console` the CPU
executes and the periodic timer keeps interrupting; nothing is assumed of the user.

Conditions under which the passing properties hold, which the code does not guarantee:

* `mixed`: no merge of unequal buddies in `free_pages` and `free_blocks` (the run
  `page_shared` shows what follows from one).
* `short`: no early chunk cut short. `kmalloc_early` (`mm/kmalloc.c:114`) divides the size rounding
  down, where `kmalloc` (line 160) rounds up.
* At most as many objects on a slab page as a byte can name. The 8-byte cache of `kmalloc` has
  448, so its entries repeat (`mm/slab.c:41`).
* `failed`: no failure of `create_thread_procfs`, after which the run queue holds a freed thread.
* `SelfDeadlock`: no handler that takes its own thread's lock.
* `unlisted`, `untracked`: no failed `kmalloc` in vmalloc or its tree; `free_vma` lists the area nowhere.
* `lost`: `MapExact` is about addresses whose directory entry no processor has cleared since. `start_paging`
  (`mm/memory.c:182`, `193`) sets and clears `pgdir[0]`, the entry of the first 4 MB and so of the first areas of `vmalloc`
  (`VMALLOC_START` is one page): what was mapped there before `cpu_up` stops translating, though translation
  buffers may hide it for a while; what is mapped later gets a new table.
* `Stale`: `memory_init` takes the directory from `alloc_page` and clears nothing of it but entry 0
  (`mm/memory.c:226`). An entry that happens to have the present bit is followed by `get_pte`; the model has directories
  with any set of such entries, a call that meets one ends in `status = "wild"`, and `MapExact` does not claim
  that addresses under one that nobody has used do not translate.
* `twice`, `repeated`, `dropped`: both keys of a modifier are not down together; Caps Lock is not held until its code
  repeats, since every repetition toggles the flag (`kernel/keyboard.c:150`); the input queue could grow.
* `ClockExact`: hours, minutes, seconds and milliseconds are those of the ticks until ticks wraps; `time_ms`
  adds them up in 32 bits (`kernel/timer.c:143`) and is the time since boot for 49.7 days only, then modulo 2^32.
* `DirectoryLives` allows the directory of a former shell, which died in its own `/proc` entry.
* `BootEnds` is about machines whose processors work, have ids below `MAX_CPU` and whose table
  has no entry of an unknown type; for a larger id the scan does not advance (`kernel/smp.c:96`). Further, that
  `schedule_init` of CPU 0 has memory, and that the top byte of the RAM at `0x3EE00020` is 0 (see the order in `Smp`), as under
  QEMU, where nothing has used that page by then.
* `ShellLives` says that a shell runs or is queued, not that it answers: it may wait in `thread_run` for ever
  (`Sched!ThreadRunSpin`).

The models also have the steps after which the program cannot go on: `Slab!AllocFault` (no
page, `cache->lock` held), `Sched!ShellFault` for a CPU that is not up and then `ThreadRunSpin`,
`Sched!ReadFreed`, `Vmalloc!Vfree` (`find_vma` takes `vma_lock` twice), `VmallocWild`, `VmallocNoPages`
and `VmallocFault` (unset pointers), `Smp!ScanSpin`, `Smp!StartKernelFault` (no MP table), `Smp!PagingLost`, `Smp!SchedNoMem`
of CPU 0, `Strings!NullFault` (the shell; `Sched` starts the next) and `Console!TimerIrqWrap`. Threads queued on CPUs other than 0 stay there: `start_secondary` never
calls `schedule()`, though `usr/thread.c:77` puts threads on CPUs 1 and 2.

## Proofs

Each `M_proofs` extends the module `M` and proves its theorems for every value of the constants
the assumptions of `M` allow; `Libs_proofs` has those of `SpinLock`, `Fifo`, `Queue` and `Strings`, whose
definitions therefore have names of their own (`LockSpec`, `FifoRingSpec`, `Spec`, `StringsSpec`). The last steps combine `Init => I`, `I /\ [Next]_vars => I'` and
`I => property` for an inductive invariant `I`.

| theorem | establishes | argument |
|---|---|---|
| `PageAlloc_proofs!TypeCorrect` | `[]TypeOK` | `TypeInv`: the loops keep `cur` aligned to its order, so that the buddy of a page is a page; arrays end at a multiple of the largest block (`PowerAssumption`) |
| `PartitionCorrect`, `ListsCorrect` | `[]Partition`, `[]ListsExact` | `PartInv`, below; if the RAM ranges do not overlap |
| `Slab_proofs!SlabCorrect`, `SlabObjects`, `SlabPages` | `[]` of `FreeStackExact` and the asserts, `[]DistinctObjects`, `[]PagesAccounted` | `SlabInv`: the entries of a page's stack from `active` up and the objects owned partition the page, and `active` is the number of those owned; if a page has no more objects than a byte can count |
| `Libs_proofs!LockExcludes` | `[]MutualExclusion` | `LockInv`: the counter is 1 exactly when one context is inside |
| `Libs_proofs!FifoCorrect` | `[]StreamIntact`, no overrun | `FifoInv`: each side's snapshot of the other's index is conservative; the cells between are the bytes sent |
| `FifoImplements` | the refinement of `FifoSpec` | `RefInv`: the bytes published and not taken are the abstract queue; only the steps that publish an index change it |
| `Libs_proofs!QueueImplements` | the refinement of `QueueSpec` | `RingInv`; the sequence read from `front` round the ring is the same before and after `queue_expand`, in each position of `front` and `rear` |
| `Libs_proofs!TextKeptCorrect`, `SplitRejoinsCorrect`, `NoLeakCorrect` | `[]` of `TextKept`, `SplitRejoins`, `NoLeak` | `StringsInv`: a string is as long as the text and inside its memory; the pieces pushed with the one in the making, joined, are the part of the line read so far; there are two live blocks for every piece |
| `Kmalloc_proofs!ChunksTileCorrect`, `ChunksTightCorrect`, `EarlyCoalescesCorrect` | `[]` of `ChunksTile`, `ChunksTight`, `EarlyCoalesces` | `KmallocInv`, below |
| `Vmalloc_proofs!AreasTileCorrect`, `ListedExactCorrect`, `MapExactCorrect` | `[]` of `AreasTile`, `ListedExact`, `MapExact` | `VmallocInv`, below |
| `Smp_proofs!OwnStackCorrect`, `LowMappedCorrect`, `UserAfterBootCorrect` | `[]OwnStack`, `[]LowMapped`, `[]UserAfterBoot` | `SmpInv`: the CPUs started so far form a chain in which at most one is between its entry and `started`; `entry_cnt` counts its links, and thread ids ascend along it, below `g_thread_id`, one for each CPU that had memory |
| `Sched_proofs!OnePlaceCorrect`, `ProcExactCorrect`, `DirectoryLivesCorrect`, `ShellLivesCorrect` | `[]` of `OnePlace`, `ProcExact`, `DirectoryLives`, `ShellLives` | `SchedInv`: the queues, the running thread and the idle threads are disjoint and without repetition, ids in them are below `g_thread_id`; only the newest shell lives, and it has CPU 0 as long as its directory is a thread's |
| `Console_proofs!ClockCorrect` | `[]ClockExact` | `ClockInv`: `msecs` is that of the ticks since the last full second, whether or not `TICK_NUM` divides the width of `ticks`, and what the parts of the clock stand for is ten times the ticks; `time_ms` follows modulo the width |
| `ModifiersCorrect`, `TypedCorrect` | `[]NoStuckModifier`, `[]TypedIsRead` | `InputInv`: a run of `getc` over the bytes not read yet ends with the flags of the keys that are down and the text that was meant |

The page allocator. `Partition` is not inductive. `PartInv` says, as long as no unequal buddies
were merged: the blocks on the lists, the owned ones and the one at hand tile the pages that were
added (`BlocksInv`); an owned block has the order it was given out with and is not flagged free
(`OwnersInv`); `next` and `prev` are inverse to each other on the nodes that are linked, and neighbours
belong to the same head (`LinksInv`, a local statement that every splice keeps); the zone flag is the
side of the border (`ZonesInv`); and while booting, what is still to be added is disjoint from what was
(`BootInv`). That a list walked from its head meets every block of its order and zone and no other
then follows: a walk that left a block out would close up too early, since `prev` is a function. The
hypothesis `RangesApart(Regions)` is that of the e820 map; `page.c` adds each range
as it comes and never looks whether a page was added before.

The early heap. `KmallocInv` says that the later chunks are objects of a slab page or runs of pages, and lie apart
(`LateInv`), and, as long as no unequal buddies were merged (`HeapInv`): the blocks that are listed,
owned or being merged tile `block_buffer`, each aligned to its order; a list has each block once and with
its order; no two listed blocks are halves of one (`NoBuddies`). `NoBuddies` is what makes `EarlyCoalesces` more than a
matter of luck: if nothing is owned and two blocks are listed, the smallest of them has its buddy listed too.
`ChunksTight` holds without conditions: `fls` is shown to find the highest bit by its five halvings.

Areas and their pages. `find_vma` takes `vma_lock` twice, so `vfree` and `vunmap` never return, and every
area is cut from the front of the last one: `VmallocInv` says that only the last area is free and that it is the
one listed area, if any is, in the list of its order. So the proof holds for `mm/vmalloc.c` as it is; a repaired
`vfree` would need another invariant. For the tables there is a map `m` from addresses to pages, the
mappings made so far, cleared ones included (`MapInv`): a slot of the directory has a frame of its own, every
address of an area in use has its page in `m` and no other address has one, no two addresses have
the same, and the frames are mapped, tables or free, each one of these; and the tables agree with `m` at every
address but those in `lost`, where they have nothing. `MapAll`
follows `map_vm_area` page by page: if the tables that are missing at the beginning do not outnumber the free
frames, that stays so after each page, so that `get_pte` always finds one.

What is read later. In `Console` the flags and the queue lag behind the user by the bytes in the
controller, so no relation between the two is inductive by itself. `Leads` describes the reading still
to come as a run: two functions, the flags and the text after each byte. Hitting or releasing a key
extends the run at its end, `keyboard_read_all_buffer` takes its first step off. The run also says that
text is only ever appended to, from which a reboot that happened is one that was meant.

Assumptions. The modules assume that sizes are positive, the page array aligned, the entries of the MP table
well formed and CPU 0 up; that the zones are disjoint and the areas fit the directory; that no size asked
for is above 2^30 bytes in `Kmalloc`, more than the linear map has, or 2^20 pages in `Vmalloc`, all that
32 bits address (`MaxPower`); and, since the provers know nothing of exponentiation, the laws of powers of two up to
there (`PowerAssumption`, which TLC evaluates). Besides these there are two hypotheses of theorems, named above:
`RangesApart(Regions)` and that indices of a slab page fit a byte. The conditions `mixed`, `short`, `failed`, `lost`,
`twice`, `repeated` and `dropped` are parts of the properties.

Recursion and sequences. Where an argument needs induction (the walk of a list, the chain of blocks),
it is by a least counterexample of a set of naturals. Lemmas about sequences are stated with the
library's `SeqEqual`, `ConcatProperties` and `HeadTailProperties`.

Only model-checked:

* liveness (`OperationEnds`, `LockIsReleased`, `LockIsTaken`, `FixupEnds`, `TakeTurns`, `InputArrives`,
  `BootEnds`), which is out of the prover's reach;
* `RbTree`: searches and paths to the root are recursive functions, and what a rotation does to
  the black nodes of all paths needs induction over the shape of the tree;
* `ConversionsExact` of `Strings`: that `strtol` and `hex_to_value` read back what `to_str` and `to_hex`
  write needs induction over the digits of a number; TLC has all numbers of 8 bits.

The type invariants of `Slab`, `SpinLock`, `Fifo`, `Sched` and `Smp`, the asserts of `Slab` and `NoOverrun` of `Fifo` are
proved as parts of the invariants and in no run of their own.

## Plan

1. The insertion half of `ImplementsIntervalSet`, whose abstract step needs no balance.

## Not modelled

* The boot loader, device register programming (PIT, UART, APICs beyond what is named above),
  graphics, STABS parsing and the host tools: straight-line I/O.
* Code that nothing reaches: `msleep`, `sleep`, `timer_create`, `thread_sleep`, the CMOS clock,
  most of `include/atomic.h`, and `page_unmap`, which lies behind `find_vma`.
* In `scan_memory_slot` (`mm/memory.c:74-115`), the choice of the e820 entry that holds the kernel (`index` is unset if none does)
  and the truncation of 64-bit addresses to page numbers; `PageAlloc` begins with the ranges that are added.
* `memory_init` writes `current->proc->mm` before there is a thread (`mm/memory.c:224`): a store through a pointer read
  at NULL, which the segments of that time put at 1 GB of physical memory. Where there is none or it is zero, nothing is hit;
  `start_kernel` repeats the assignment after `schedule_init`.
* The old memory of a queue that grows is not freed (`libs/queue.c:74`); `Queue` does not count blocks.
* Printing: at any time one CPU prints, since a CPU that starts another waits for it.
* `rb_tree_delete`, iteration and the dumps, which read only.
