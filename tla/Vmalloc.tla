------------------------------ MODULE Vmalloc ------------------------------
(***************************************************************************)
(* mm/vmalloc.c: areas of virtual addresses, the lists of free areas by    *)
(* order, the tree of areas in use, and the pages mapped into them.        *)
(* Addresses are counted in pages; VMALLOC_START is 1.  The tree is used   *)
(* by its specification, IntervalSet, which RbTree implements.             *)
(*                                                                         *)
(* The calls of the module hold vma_lock while they change the areas, so   *)
(* that a call is one step.  kmalloc may fail at every call.               *)
(*                                                                         *)
(* What the model takes from the code as it is: alloc_vma returns a        *)
(* variable it has not set when no list has an area; the error path of     *)
(* __vmalloc frees pages through vma->pages before it is set; find_vma     *)
(* takes vma_lock twice; get_pte follows an entry of the directory that    *)
(* was never cleared.  Nothing is said of the program after that: status   *)
(* tells, and there are no further steps.                                  *)
(*                                                                         *)
(* The other processors start later and share the directory, of which      *)
(* each clears entry 0 (start_paging), that of the first areas.  They do   *)
(* so while processor 0 waits in cpu_up, so never inside a call.           *)
(***************************************************************************)
EXTENDS PageTable, SequencesExt

CONSTANTS
    VMALLOC_END,
    MAX_VMA_ORDER,
    High, Normal,       \* the frames of the two zones
    APS,                \* processors that are still to be started
    Sizes               \* bound: the sizes callers ask for

VMALLOC_START == 1
MaxPower == 20          \* 2^20 pages make up the address space

ASSUME AreaAssumption ==
    /\ VMALLOC_END \in Nat /\ VMALLOC_END > VMALLOC_START /\ VMALLOC_END <= PER_TABLE * TABLES
    /\ MAX_VMA_ORDER \in Nat /\ MAX_VMA_ORDER <= MaxPower
    /\ 2 ^ (MAX_VMA_ORDER + 1) > VMALLOC_END - VMALLOC_START
    /\ High \subseteq Nat /\ Normal \subseteq Nat /\ High \cap Normal = {}
    /\ IsFiniteSet(High) /\ IsFiniteSet(Normal) /\ APS \in Nat
    /\ Sizes \subseteq 1 .. 2 ^ MaxPower

\* arithmetic: powers of two
ASSUME PowerAssumption ==
    /\ 2 ^ 0 = 1
    /\ \A k \in 0 .. MaxPower : 2 ^ k \in Nat \ {0} /\ 2 ^ (k + 1) = 2 * 2 ^ k

VARIABLES
    areas,          \* vma_list: [start, end, free, pages], pages of an area in use
    lists,          \* free_vma_lists: the starts of their areas, by order
    members, ret,   \* vma_tree, and the answer of its last call
    pt,             \* page tables
    high,           \* the frames alloc_page(GFP_HIGHMEM) can give
    retry,          \* vmalloc: the size asked for again with GFP_NORMAL, 0 if none
    status,         \* "ok", "wild" (memory was corrupted), "spin"
    aps,            \* how many processors have not run start_paging yet
    lost,           \* history: addresses in use when start_paging cleared their entry
    unlisted,       \* history: free_vma has run
    untracked       \* history: rb_tree_insert had no memory

vars == <<areas, lists, members, ret, pt, high, retry, status, aps, lost, unlisted, untracked>>
space == <<areas, lists, members, ret, unlisted, untracked>>
others == <<aps, lost>>

Tree == INSTANCE IntervalSet WITH Interval <- {}

Order == 0 .. MAX_VMA_ORDER
ilog2(n) == CHOOSE k \in 0 .. MaxPower : 2 ^ k <= n /\ n < 2 ^ (k + 1)
ilog2_roundup(n) == CHOOSE k \in 0 .. MaxPower : n <= 2 ^ k /\ (k = 0 \/ 2 ^ (k - 1) < n)
vma_length(v) == v.end - v.start
vm_area(start, end, free, pages) ==
    [start |-> start, end |-> end, free |-> free, pages |-> pages]

\* vmalloc_init
Init ==
    /\ areas = <<vm_area(VMALLOC_START, VMALLOC_END, TRUE, <<>>)>>
    /\ lists = [o \in Order |->
                    IF o = ilog2(VMALLOC_END - VMALLOC_START) THEN <<VMALLOC_START>> ELSE <<>>]
    /\ Tree!SInit
    /\ pt \in FirstTables(Normal) /\ high = High
    /\ aps = APS /\ lost = {}
    /\ retry = 0 /\ status = "ok" /\ unlisted = FALSE /\ untracked = FALSE

----------------------------------------------------------------------------
(* alloc_vma *)

\* the lists in which alloc_vma finds an area, and the area it takes
Candidates(n) == {o \in ilog2_roundup(n) .. MAX_VMA_ORDER : lists[o] # <<>>}
Taken(n) == LET start == Head(lists[Min(Candidates(n))])
            IN  CHOOSE i \in DOMAIN areas : areas[i].start = start
Splits(n) == vma_length(areas[Taken(n)]) >= n + 1

\* mutant of Split: the buddy starts at the end the area had before
SplitSwapped(n) ==
    LET i == Taken(n)
        v == areas[i]
        buddy == vm_area(v.end, v.end, TRUE, <<>>)
    IN  IF Splits(n)
        THEN InsertAt(ReplaceAt(areas, i, vm_area(v.start, v.start + n, FALSE, <<>>)), i + 1, buddy)
        ELSE ReplaceAt(areas, i, vm_area(v.start, v.end, FALSE, <<>>))

\* vma_list after alloc_vma: the area, cut to n pages, and the rest after it
Split(n) ==
    LET i == Taken(n)
        v == areas[i]
        buddy == vm_area(v.start + n, v.end, TRUE, <<>>)
    IN  IF Splits(n)
        THEN InsertAt(ReplaceAt(areas, i, vm_area(v.start, v.start + n, FALSE, <<>>)), i + 1, buddy)
        ELSE ReplaceAt(areas, i, vm_area(v.start, v.end, FALSE, <<>>))

\* mutant of Relist: the order of the rest is rounded up
RelistRoundup(n) ==
    LET v == areas[Taken(n)]
        o == IF Splits(n) THEN ilog2_roundup(vma_length(v) - n) ELSE -1
        with == [q \in Order |-> IF q = o THEN <<v.start + n>> \o lists[q] ELSE lists[q]]
    IN  [q \in Order |-> RemoveFirst(with[q], v.start)]

\* free_vma_lists after alloc_vma: the rest enters the list of its order, at the
\* head, and the area leaves its list
Relist(n) ==
    LET v == areas[Taken(n)]
        o == IF Splits(n) THEN ilog2(vma_length(v) - n) ELSE -1
        with == [q \in Order |-> IF q = o THEN <<v.start + n>> \o lists[q] ELSE lists[q]]
    IN  [q \in Order |-> RemoveFirst(with[q], v.start)]

\* rb_tree_insert of the area; its answer is ignored
Insert(n) ==
    LET start == areas[Taken(n)].start IN
    \/ Tree!Add(<<start, start + n - 1>>) /\ UNCHANGED untracked
    \/ Tree!NoMemory /\ untracked' = TRUE

\* no area is listed: the caller gets a pointer that was never set
AllocVmaWild(n) ==
    /\ Candidates(n) = {}
    /\ status' = "wild"
    /\ UNCHANGED <<space, pt, high, retry, others>>

\* the assertions of alloc_vma
Asserts(n) ==
    LET v == areas[Taken(n)]
    IN  v.free /\ vma_length(v) >= n /\ (Splits(n) => ilog2(vma_length(v) - n) \in Order)

----------------------------------------------------------------------------
(* map_vm_area, page by page *)

map_vm_area(table, start, pages) ==
    LET mapped[i \in 0 .. Len(pages)] ==
            IF i = 0 THEN table ELSE page_map(mapped[i - 1], start + i - 1, pages[i])
    IN  mapped[Len(pages)]

Range1(start, n) == start .. start + n - 1

\* pages enter area i of the areas, which alloc_vma has just taken
Fill(as, i, pages) == ReplaceAt(as, i, vm_area(as[i].start, as[i].end, as[i].free, pages))

\* vmap: pages of the caller, here one of the high zone as in page_address.  Where
\* alloc_vma or get_pte fails, vmap ends as __vmalloc does (below).
Vmap(f) ==
    /\ status = "ok" /\ retry = 0 /\ f \in high
    /\ Candidates(1) # {} /\ Asserts(1)
    /\ LET start == areas[Taken(1)].start IN
        /\ ~Faults(pt, {start})
        /\ areas' = Fill(Split(1), Taken(1), <<f>>)
        /\ lists' = Relist(1)
        /\ Insert(1)
        /\ pt' = map_vm_area(pt, start, <<f>>)
    /\ high' = high \ {f}
    /\ UNCHANGED <<retry, status, unlisted, others>>

----------------------------------------------------------------------------
(* __vmalloc, called by vmalloc with GFP_HIGHMEM and, if that fails, GFP_NORMAL *)

\* vmalloc(n) begins, or goes on with GFP_NORMAL
Calls(n, gfp) ==
    /\ status = "ok"
    /\ \/ gfp = "high" /\ retry = 0
       \/ gfp = "normal" /\ retry = n

Zone(gfp) == IF gfp = "high" THEN high ELSE pt.free

\* NULL: the next attempt, or the end
Fail(n, gfp) == retry' = IF gfp = "high" THEN n ELSE 0

\* the pages that n calls of alloc_page give, each another one
Pages(n, zone) == CHOOSE s \in [1 .. n -> zone] : IsInjective(s)

VmallocDone(n, gfp) ==
    /\ Calls(n, gfp) /\ Candidates(n) # {} /\ Asserts(n)
    /\ Cardinality(Zone(gfp)) >= n
    /\ LET pages == Pages(n, Zone(gfp))
           left == [pt EXCEPT !.free = @ \ Range(pages)]
           start == areas[Taken(n)].start
       IN   /\ ~Faults(left, Range1(start, n))
            /\ areas' = Fill(Split(n), Taken(n), pages)
            /\ pt' = map_vm_area(left, start, pages)
            /\ high' = high \ Range(pages)
    /\ lists' = Relist(n)
    /\ Insert(n)
    /\ retry' = 0
    /\ UNCHANGED <<status, unlisted, others>>

\* get_pte finds no frame for a table, or a table that is none
VmallocFault(n, gfp) ==
    /\ Calls(n, gfp) /\ Candidates(n) # {}
    /\ Cardinality(Zone(gfp)) >= n
    /\ Faults([pt EXCEPT !.free = @ \ Range(Pages(n, Zone(gfp)))],
              Range1(areas[Taken(n)].start, n))
    /\ status' = "wild"
    /\ UNCHANGED <<space, pt, high, retry, others>>

\* kmalloc of the buddy fails: alloc_vma returns NULL
VmallocNoBuddy(n, gfp) ==
    /\ Calls(n, gfp) /\ Candidates(n) # {} /\ Splits(n)
    /\ Fail(n, gfp)
    /\ UNCHANGED <<space, pt, high, status, others>>

\* kmalloc of pages fails, free_vma: the area and the rest alloc_vma cut off (the
\* one free neighbour there can be) become one again, which enters no list.  The
\* assertion in free_vma does not hold for the last area; assert reports it, halts
\* until the next interrupt and goes on.
VmallocNoArray(n, gfp) ==
    /\ Calls(n, gfp) /\ Candidates(n) # {}
    /\ Fail(n, gfp)
    /\ lists' = [q \in Order |-> RemoveFirst(lists[q], areas[Taken(n)].start)]
    /\ unlisted' = TRUE
    /\ UNCHANGED <<areas, members, ret, untracked, pt, high, status, others>>

\* alloc_page fails: pages are freed through vma->pages, which is not set
VmallocNoPages(n, gfp) ==
    /\ Calls(n, gfp) /\ Candidates(n) # {}
    /\ Cardinality(Zone(gfp)) < n
    /\ status' = "wild"
    /\ UNCHANGED <<space, pt, high, retry, others>>

VmallocWild(n, gfp) == Calls(n, gfp) /\ AllocVmaWild(n)

\* vfree and vunmap: find_vma takes the lock again before it returns
Vfree ==
    /\ status = "ok" /\ retry = 0
    /\ \E v \in Range(areas) : ~v.free
    /\ status' = "spin"
    /\ UNCHANGED <<space, pt, high, retry, others>>

Used == {i \in DOMAIN areas : ~areas[i].free}
InUseAt(va) == \E i \in Used : va \in areas[i].start .. areas[i].end - 1

\* another processor gets to start_paging
StartPaging ==
    /\ status = "ok" /\ retry = 0 /\ aps > 0
    /\ aps' = aps - 1
    /\ pt' = start_paging(pt)
    /\ lost' = lost \cup {va \in Virt : pde_index(va) = 0 /\ InUseAt(va)}
    /\ UNCHANGED <<space, high, retry, status>>

Next ==
    \/ Vfree \/ StartPaging
    \/ high # {} /\ Vmap(Min(high))
    \/ \E n \in Sizes, gfp \in {"high", "normal"} :
        \/ VmallocDone(n, gfp) \/ VmallocFault(n, gfp) \/ VmallocNoBuddy(n, gfp)
        \/ VmallocNoArray(n, gfp) \/ VmallocNoPages(n, gfp) \/ VmallocWild(n, gfp)

Spec == Init /\ [][Next]_vars

----------------------------------------------------------------------------
(* Properties *)

Listed == UNION {Range(lists[o]) : o \in Order}

\* The areas of vma_list cover the addresses from VMALLOC_START to VMALLOC_END,
\* each once and in order, no two neighbours are free, and the tree has exactly
\* those in use: find_vma would find them from every address in them.
AreasTile ==
    /\ \A i \in DOMAIN areas : areas[i].start < areas[i].end
    /\ areas[1].start = VMALLOC_START /\ areas[Len(areas)].end = VMALLOC_END
    /\ \A i \in 1 .. Len(areas) - 1 :
        areas[i].end = areas[i + 1].start /\ ~(areas[i].free /\ areas[i + 1].free)
    /\ members \subseteq {<<areas[i].start, areas[i].end - 1>> : i \in Used}
    /\ ~untracked => members = {<<areas[i].start, areas[i].end - 1>> : i \in Used}

\* A listed area is free and in the list of its order, so that the area alloc_vma
\* takes is long enough (its two assertions); every free area is listed
\* until a kmalloc failure has sent one through free_vma.
ListedExact ==
    /\ \A o \in Order : \A s \in Range(lists[o]) :
        \E i \in DOMAIN areas :
            areas[i].start = s /\ areas[i].free /\ ilog2(vma_length(areas[i])) = o
    /\ \A n \in Sizes : Candidates(n) # {} => Asserts(n)
    /\ ~unlisted => Listed = {areas[i].start : i \in DOMAIN areas \ Used}

\* the page that alloc_page or the caller of vmap gave for va
PageOf(va) ==
    IF InUseAt(va)
    THEN LET i == CHOOSE i \in Used : va \in areas[i].start .. areas[i].end - 1
         IN  areas[i].pages[va - areas[i].start + 1]
    ELSE None

Tables == DOMAIN pt.pte
Mapped == {PageOf(va) : va \in Virt} \ {None}

\* Every address of an area in use translates to the page alloc_page gave for it,
\* unless another processor has started since and cleared entry 0 of the directory
\* over it: then to nothing, whatever is mapped under that entry later.  No other
\* address translates, except where the page of the directory had an entry of its
\* own.  A frame has one use: a table, a page of one area, or free.
MapExact ==
    /\ \A va \in Virt :
        IF InUseAt(va)
        THEN Translate(pt, va) = IF va \in lost THEN None ELSE PageOf(va)
        ELSE Translate(pt, va) \in {None, Stale}
    /\ Cardinality(Mapped) = Cardinality({va \in Virt : InUseAt(va)})
    /\ Mapped \cap Tables = {} /\ (Mapped \cup Tables) \cap (pt.free \cup high) = {}
    /\ Mapped \cup Tables \cup pt.free \cup high = High \cup Normal
=============================================================================
