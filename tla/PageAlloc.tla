----------------------------- MODULE PageAlloc -----------------------------
(***************************************************************************)
(* The buddy allocator of physical pages: mm/page.c over the intrusive     *)
(* circular lists of include/list.h.                                       *)
(*                                                                         *)
(* A list node is a number: a page's node is the page's frame number, the  *)
(* heads of the free lists come after the last page.  The links are two    *)
(* functions, updated in the order in which the C assignments run, so that *)
(* a double insertion or a double removal corrupts the model's lists the   *)
(* way it corrupts the kernel's.                                           *)
(*                                                                         *)
(* alloc_pages and free_pages run between spin_lock(&page_lock) and        *)
(* spin_unlock(&page_lock) (module SpinLock), so one operation is in       *)
(* flight at a time; every turn of their loops is a step.  A failing       *)
(* assert prints, halts until the next interrupt and goes on               *)
(* (include/debug.h), so no action is guarded by an assert.                *)
(***************************************************************************)
EXTENDS Integers, Sequences

CONSTANTS
    NPages,     \* TOTAL_PAGES
    MaxOrder,   \* MAX_ORDER
    HighStart,  \* highmem_start_pfn
    Regions,    \* the RAM ranges <<start, end>> scan_memory_slot finds
    MaxAfter    \* bound: operations explored after the first unequal merge

Page  == 0 .. NPages - 1
Order == 0 .. MaxOrder
Zone  == {0, 1}             \* 0: linear, 1: highmem (GFP_HIGHMEM)

ASSUME ConstAssumption ==
    /\ NPages \in Nat \ {0} /\ MaxOrder \in Nat /\ HighStart \in Nat /\ MaxAfter \in Nat
    /\ Regions \in Seq(Nat \X Nat)
    /\ \A r \in 1 .. Len(Regions) :
          /\ Regions[r][1] <= Regions[r][2]
          /\ Regions[r][2] <= NPages
\* Sizes of blocks, and the alignment of the array and of the zones' border to
\* the largest block: 2^20 pages, and 0x38000 as first highmem frame.
ASSUME PowerAssumption ==
    /\ 2^0 = 1
    /\ \A k \in 0 .. MaxOrder + 1 : 2^k \in Nat \ {0}
    /\ \A k \in Order : 2^(k + 1) = 2 * 2^k
    /\ \A k, i \in Order : k <= i => \E c \in 0 .. 2^i : 2^i = c * 2^k
    /\ \E c \in 0 .. NPages : NPages = c * 2^MaxOrder
    /\ \E c \in 0 .. NPages : HighStart = c * 2^MaxOrder

\* &free_lists[i] and &highmem_free_lists[i]
free_lists(z, i) == NPages + z * (MaxOrder + 1) + i
ListHead == NPages .. NPages + 2 * (MaxOrder + 1) - 1
Node == Page \cup ListHead

VARIABLES
    next, prev,         \* the links of every list node
    order,              \* page->order
    valid, free, high,  \* the pages with PAGE_VALID, PAGE_FREE, PAGE_HIGHMEM
    todo,               \* ranges add_free_pages has still to add
    pos,                \* loop variable of init_free_pages
    pc,                 \* where the operation under page_lock is
    cur,                \* its variable page
    want,               \* the order alloc_pages was asked for
    held,               \* callers: order asked for each page they own, or -1
    linked,             \* history: pages inserted and not removed since
    mixed               \* history: 0 until a block is merged with one of another
                        \* order, then 1 and one more per operation

links == <<next, prev>>
flags == <<valid, free, high>>
vars == <<next, prev, order, valid, free, high, todo, pos, pc, cur, want,
          held, linked, mixed>>

----------------------------------------------------------------------------
(* include/list.h *)

list_insert(c, n) ==
    /\ prev' = [prev EXCEPT ![next[c]] = n, ![n] = c]
    /\ next' = [next EXCEPT ![n] = next[c], ![c] = n]

\* mutant of list_remove: only one of the two neighbours is relinked
list_remove_one_way(n) ==
    /\ next' = [next EXCEPT ![prev[n]] = next[n]]
    /\ UNCHANGED prev

list_remove(n) ==
    /\ next' = [next EXCEPT ![prev[n]] = next[n]]
    /\ prev' = [prev EXCEPT ![next[n]] = prev[n]]

list_empty(h) == next[h] = h

----------------------------------------------------------------------------
(* mm/page.c *)

\* pfn ^ (1 << order)
Buddy(p, k) == IF (p \div 2^k) % 2 = 0 THEN p + 2^k ELSE p - 2^k

page_buddy(p) == Buddy(p, order[p])

round_down(n) == (n \div 2^MaxOrder) * 2^MaxOrder
round_up(n) == round_down(n + 2^MaxOrder - 1)

ZoneOf(p) == IF p \in high THEN 1 ELSE 0

\* free_page(page, order): flag the page, put it in front of its list.  ord is
\* the page->order of all pages before the call.
free_page(p, k, ord) ==
    /\ free' = free \cup {p}
    /\ order' = [ord EXCEPT ![p] = k]
    /\ list_insert(free_lists(ZoneOf(p), k), p)
    /\ linked' = linked \cup {p}

\* page_init and the zeroed .bss; a page's links are first written by the
\* free_page that flags it and first read after that.
Init ==
    /\ next = [n \in Node |-> n]
    /\ prev = [n \in Node |-> n]
    /\ order = [p \in Page |-> 0]
    /\ valid = {} /\ free = {} /\ high = {}
    /\ todo = Regions
    /\ pos = 0 /\ cur = 0 /\ want = 0
    /\ pc = "boot"
    /\ held = [p \in Page |-> -1]
    /\ linked = {}
    /\ mixed = 0

\* add_free_pages(start, end): a range over the zones' border is added in two
\* halves; otherwise every page of it is flagged before any is freed.
AddSplit ==
    /\ pc = "boot" /\ todo # <<>>
    /\ LET s == Head(todo)[1]
           e == Head(todo)[2]
       IN  /\ s < HighStart /\ HighStart < e
           /\ todo' = <<<<s, HighStart>>, <<HighStart, e>>>> \o Tail(todo)
    /\ UNCHANGED <<links, order, flags, pos, pc, cur, want, held, linked, mixed>>

AddRange ==
    /\ pc = "boot" /\ todo # <<>>
    /\ LET s == Head(todo)[1]
           e == Head(todo)[2]
       IN  /\ s >= HighStart \/ e <= HighStart
           /\ valid' = valid \cup (s .. e - 1)
           /\ high' = IF s >= HighStart THEN high \cup (s .. e - 1) ELSE high
           /\ pos' = s
    /\ pc' = "add"
    /\ UNCHANGED <<links, order, free, todo, cur, want, held, linked, mixed>>

\* mutant of AddBlock: free_page is given the number of pages for the order
AddBlockByCount ==
    /\ pc = "add" /\ pos < Head(todo)[2]
    /\ LET s == round_up(Head(todo)[1])
           e == round_down(Head(todo)[2])
           k == IF s < e /\ s <= pos /\ pos < e THEN MaxOrder ELSE 0
       IN  /\ free_page(pos, 2^k, order)
           /\ pos' = pos + 2^k
    /\ UNCHANGED <<valid, high, todo, pc, cur, want, held, mixed>>

\* init_free_pages: single pages up to the first boundary and after the last
\* one, blocks of the largest order in between.
AddBlock ==
    /\ pc = "add" /\ pos < Head(todo)[2]
    /\ LET s == round_up(Head(todo)[1])
           e == round_down(Head(todo)[2])
           k == IF s < e /\ s <= pos /\ pos < e THEN MaxOrder ELSE 0
       IN  /\ free_page(pos, k, order)
           /\ pos' = pos + 2^k
    /\ UNCHANGED <<valid, high, todo, pc, cur, want, held, mixed>>

AddDone ==
    /\ pc = "add" /\ pos >= Head(todo)[2]
    /\ todo' = Tail(todo)
    /\ pc' = "boot"
    /\ UNCHANGED <<links, order, flags, pos, cur, want, held, linked, mixed>>

BootDone ==
    /\ pc = "boot" /\ todo = <<>>
    /\ pc' = "idle"
    /\ UNCHANGED <<links, order, flags, todo, pos, cur, want, held, linked, mixed>>

Begin == /\ pc = "idle" /\ mixed <= MaxAfter
         /\ mixed' = IF mixed = 0 THEN 0 ELSE mixed + 1

\* The operation returns and its locals die.
Return == pc' = "idle" /\ cur' = 0 /\ want' = 0

\* alloc_pages(gfp, o), up to the loop that splits: the first page of the first
\* list, from order o up, that is not empty.  container_of on a list head is no
\* page at all: what follows is beyond the model ("wild").
AllocTake(z, o) ==
    /\ Begin
    /\ \E i \in o .. MaxOrder :
        /\ ~list_empty(free_lists(z, i))
        /\ \A j \in o .. i - 1 : list_empty(free_lists(z, j))
        /\ LET n == next[free_lists(z, i)] IN
            /\ list_remove(n)
            /\ linked' = linked \ {n}
            /\ IF n \in Page THEN cur' = n /\ pc' = "split"
                             ELSE cur' = cur /\ pc' = "wild"
    /\ want' = o
    /\ UNCHANGED <<order, flags, todo, pos, held>>

\* alloc_pages: every list is empty, return NULL
AllocNull(z, o) ==
    /\ pc = "idle"
    /\ \A i \in o .. MaxOrder : list_empty(free_lists(z, i))
    /\ UNCHANGED vars

\* mutant of AllocSplit: the buddy is taken before page->order is decremented
AllocSplitLate ==
    /\ pc = "split" /\ order[cur] > want
    /\ LET k == order[cur] - 1
       IN  free_page(page_buddy(cur), k, [order EXCEPT ![cur] = k])
    /\ UNCHANGED <<valid, high, todo, pos, pc, cur, want, held, mixed>>

\* alloc_pages, one turn of while (page->order > order)
AllocSplit ==
    /\ pc = "split" /\ order[cur] > want
    /\ LET k == order[cur] - 1
       IN  free_page(Buddy(cur, k), k, [order EXCEPT ![cur] = k])
    /\ UNCHANGED <<valid, high, todo, pos, pc, cur, want, held, mixed>>

AllocDone ==
    /\ pc = "split" /\ order[cur] <= want
    /\ free' = free \ {cur}
    /\ held' = [held EXCEPT ![cur] = want]
    /\ Return
    /\ UNCHANGED <<links, order, valid, high, todo, pos, linked, mixed>>

\* free_pages(page): callers free what they were given
FreeStart(p) ==
    /\ Begin /\ held[p] # -1
    /\ held' = [held EXCEPT ![p] = -1]
    /\ cur' = p
    /\ pc' = "merge"
    /\ UNCHANGED <<links, order, flags, todo, pos, want, linked>>

CanMerge ==
    /\ order[cur] < MaxOrder
    /\ page_buddy(cur) \in valid
    /\ page_buddy(cur) \in free

\* mutant of FreeMerge: the merged block keeps its order
FreeMergeSameOrder ==
    /\ pc = "merge" /\ CanMerge
    /\ LET b == page_buddy(cur)
       IN  /\ list_remove(b)
           /\ linked' = linked \ {b}
           /\ cur' = IF b < cur THEN b ELSE cur
    /\ UNCHANGED <<order, flags, todo, pos, pc, want, held, mixed>>

\* free_pages, one turn of the merging loop.  The buddy's own order is not
\* looked at, and it keeps PAGE_FREE.
FreeMerge ==
    /\ pc = "merge" /\ CanMerge
    /\ LET b == page_buddy(cur)
           p == IF b < cur THEN b ELSE cur
       IN  /\ list_remove(b)
           /\ linked' = linked \ {b}
           /\ mixed' = IF mixed = 0 /\ order[b] # order[cur] THEN 1 ELSE mixed
           /\ cur' = p
           /\ order' = [order EXCEPT ![p] = @ + 1]
    /\ UNCHANGED <<flags, todo, pos, pc, want, held>>

FreeDone ==
    /\ pc = "merge" /\ ~CanMerge /\ order[cur] <= MaxOrder
    /\ free_page(cur, order[cur], order)
    /\ Return
    /\ UNCHANGED <<valid, high, todo, pos, held, mixed>>

\* the same with an order no list exists for: free_lists[MAX_ORDER + 1]
FreeWild ==
    /\ pc = "merge" /\ order[cur] > MaxOrder
    /\ pc' = "wild"
    /\ UNCHANGED <<links, order, flags, todo, pos, cur, want, held, linked, mixed>>

Boot == AddSplit \/ AddRange \/ AddBlock \/ AddDone \/ BootDone
Step == AllocSplit \/ AllocDone \/ FreeMerge \/ FreeDone \/ FreeWild

Next ==
    \/ Boot
    \/ Step
    \/ \E z \in Zone, o \in Order : AllocTake(z, o) \/ AllocNull(z, o)
    \/ \E p \in Page : FreeStart(p)

Spec == Init /\ [][Next]_vars

\* A CPU inside the allocator goes on: nothing there waits.
FairSpec == Spec /\ WF_vars(Boot) /\ WF_vars(Step)

----------------------------------------------------------------------------
(* Properties *)

\* Every variable keeps its type: in particular no loop of page.c leaves the
\* pages[] array or, short of the state "wild", the arrays of list heads.
TypeOK ==
    /\ next \in [Node -> Node]
    /\ prev \in [Node -> Node]
    /\ order \in [Page -> 0 .. MaxOrder + 1]
    /\ valid \subseteq Page /\ free \subseteq Page /\ high \subseteq Page
    /\ todo \in Seq(Nat \X Nat)
    /\ pos \in Nat
    /\ pc \in {"boot", "add", "idle", "split", "merge", "wild"}
    /\ cur \in Page /\ want \in Order
    /\ held \in [Page -> -1 .. MaxOrder]
    /\ linked \subseteq Page
    /\ mixed \in Nat

Owned  == {p \in Page : held[p] # -1}
Busy   == IF pc \in {"split", "merge"} THEN {cur} ELSE {}
Blocks == linked \cup Owned \cup Busy
Extent(p) == p .. p + 2^order[p] - 1
Unadded == IF pc = "add" THEN pos .. Head(todo)[2] - 1 ELSE {}

\* As long as free_pages never merged a block with a free buddy of another
\* order, the blocks that are free, owned by a caller or being split or merged
\* tile the RAM that was added: none overlap, none is lost, and a caller owns
\* exactly what it asked alloc_pages for.
Partition == mixed = 0 =>
    /\ \A p, q \in Blocks : p # q => Extent(p) \cap Extent(q) = {}
    /\ UNION {Extent(p) : p \in Blocks} = valid \ Unadded
    /\ linked \cap (Owned \cup Busy) = {} /\ Owned \cap Busy = {}
    /\ \A p \in Owned : order[p] = held[p]

\* The nodes reached from n by k links of f (next or prev)
Walk(f, n) ==
    LET w[k \in 0 .. NPages + 1] == IF k = 0 THEN n ELSE f[w[k - 1]]
    IN  {w[k] : k \in 0 .. NPages + 1}

\* As long as no unequal blocks were merged, each free list of page.c, walked
\* in either direction, is a cycle through its head and exactly the free blocks
\* of its order and zone, so alloc_pages takes a block of the order and the
\* zone of the list it looked at (the assert at page.c:157).
ListsExact == mixed = 0 =>
    \A z \in Zone, i \in Order :
        LET h == free_lists(z, i)
            members == {p \in linked : order[p] = i /\ (z = 1 <=> p >= HighStart)}
        IN  /\ Walk(next, h) = members \cup {h}
            /\ Walk(prev, h) = members \cup {h}
            /\ members \subseteq free

\* Two owners never share a page: what alloc_pages returned to one caller is
\* not part of what another caller was given ("use buddy algorithm to allocate
\* free pages", page.c:14).
NoSharedPage ==
    \A p, q \in Owned : p # q =>
        p + 2^held[p] <= q \/ q + 2^held[q] <= p

\* Whoever enters alloc_pages or free_pages leaves it: the splitting and the
\* merging loop end from every reachable state, so page_lock is released.
OperationEnds == pc \in {"split", "merge"} ~> pc \in {"idle", "wild"}

=============================================================================
