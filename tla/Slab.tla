-------------------------------- MODULE Slab --------------------------------
(***************************************************************************)
(* One kmem_cache of mm/slab.c: objects of one size cut out of pages.      *)
(*                                                                         *)
(* A slab page keeps a stack of free object indices in its last bytes,     *)
(* freelist, one unsigned char per object; entries below active are in     *)
(* use.  kmem_cache_alloc and kmem_cache_free run under cache->lock and    *)
(* are one step each.  A fault inside them kills the thread (kernel/irq.c) *)
(* and nobody releases the lock.                                           *)
(*                                                                         *)
(* slabs_partial and slabs_full are sets: a page is only added to an empty *)
(* slabs_partial, so list_next has one page to return (PagesAccounted).  The   *)
(* page allocator is the set of pages it can still hand out.               *)
(***************************************************************************)
EXTENDS Integers, FiniteSets

CONSTANTS
    Page,       \* the pages alloc_page(GFP_NORMAL) can return
    PageSize,   \* PAGE_SIZE
    Size,       \* cache->size
    Width       \* values of an unsigned char

ASSUME SizeAssumption ==
    /\ PageSize \in Nat /\ Width \in Nat \ {0}
    /\ Size \in 1 .. PageSize

\* slab_page_init: the bytes of freelist, and what fits in front of them
Entries == PageSize \div Size
Total == (PageSize - Entries) \div Size

\* The caches of kmalloc hold at least one object per page.
ASSUME RoomAssumption == Total >= 1

Slot == 0 .. Entries - 1
Object == Page \X (0 .. Width - 1)      \* index_to_obj(cache, page, index)

VARIABLES
    avail,              \* pages the page allocator has
    partial, full,      \* cache->slabs_partial, cache->slabs_full
    active,             \* page->active
    freelist,           \* page->freelist
    lock,               \* cache->lock
    held                \* the objects callers own

vars == <<avail, partial, full, active, freelist, lock, held>>

SlabPage == partial \cup full           \* pages with PAGE_SLAB

\* kmem_cache_create
Init ==
    /\ avail = Page
    /\ partial = {} /\ full = {}
    /\ active = [p \in Page |-> 0]
    /\ freelist = [p \in Page |-> [i \in Slot |-> 0]]
    /\ lock = 0
    /\ held = {}

\* mutant of slab_page_init: the stack is not filled
slab_page_init_unfilled(p) == [freelist EXCEPT ![p] = [i \in Slot |-> 0]]

\* freelist[i] = i, stored in an unsigned char
slab_page_init(p) == [freelist EXCEPT ![p] = [i \in Slot |-> i % Width]]

\* alloc_block on a page with stack fl: pop, and leave slabs_partial when the
\* last object goes.  pt is slabs_partial with the page.
alloc_block(p, fl, pt) ==
    /\ active' = [active EXCEPT ![p] = @ + 1]
    /\ held' = held \cup {<<p, fl[p][active[p]]>>}
    /\ IF active[p] + 1 = Total
       THEN partial' = pt \ {p} /\ full' = full \cup {p}
       ELSE partial' = pt /\ full' = full

\* kmem_cache_alloc from the page in slabs_partial
AllocPartial(p) ==
    /\ lock = 0 /\ p \in partial
    /\ alloc_block(p, freelist, partial)
    /\ UNCHANGED <<avail, freelist, lock>>

\* kmem_cache_alloc with slabs_partial empty: a fresh page
AllocFresh(p) ==
    /\ lock = 0 /\ partial = {} /\ p \in avail
    /\ avail' = avail \ {p}
    /\ freelist' = slab_page_init(p)
    /\ alloc_block(p, freelist', {p})
    /\ UNCHANGED lock

\* the same when alloc_page returns NULL: page_address(NULL) reads an unmapped
\* address and the thread dies holding cache->lock
AllocFault ==
    /\ lock = 0 /\ partial = {} /\ avail = {}
    /\ lock' = 1
    /\ UNCHANGED <<avail, partial, full, active, freelist, held>>

\* mutant of Free: the index is pushed before active--
FreePushEarly(p, i) ==
    /\ lock = 0 /\ <<p, i>> \in held
    /\ held' = held \ {<<p, i>>}
    /\ active' = [active EXCEPT ![p] = @ - 1]
    /\ freelist' = [freelist EXCEPT ![p][active[p]] = i]
    /\ IF active[p] = 1
       THEN /\ partial' = partial \ {p} /\ full' = full \ {p}
            /\ avail' = avail \cup {p}
       ELSE UNCHANGED <<partial, full, avail>>
    /\ UNCHANGED lock

\* mutant of Free: the emptied page is returned and stays in the cache's list
FreeStaysListed(p, i) ==
    /\ lock = 0 /\ <<p, i>> \in held
    /\ held' = held \ {<<p, i>>}
    /\ active' = [active EXCEPT ![p] = @ - 1]
    /\ freelist' = [freelist EXCEPT ![p][active[p] - 1] = i]
    /\ avail' = IF active[p] = 1 THEN avail \cup {p} ELSE avail
    /\ UNCHANGED <<partial, full, lock>>

\* kmem_cache_free and free_block; the last object takes the page with it
Free(p, i) ==
    /\ lock = 0 /\ <<p, i>> \in held
    /\ held' = held \ {<<p, i>>}
    /\ active' = [active EXCEPT ![p] = @ - 1]
    /\ freelist' = [freelist EXCEPT ![p][active[p] - 1] = i]
    /\ IF active[p] = 1
       THEN /\ partial' = partial \ {p} /\ full' = full \ {p}
            /\ avail' = avail \cup {p}
       ELSE UNCHANGED <<partial, full, avail>>
    /\ UNCHANGED lock

Alloc == AllocFault \/ \E p \in Page : AllocPartial(p) \/ AllocFresh(p)

Next == Alloc \/ \E o \in held : Free(o[1], o[2])

Spec == Init /\ [][Next]_vars

-----------------------------------------------------------------------------
(* Properties *)

\* Every variable keeps its type: page->active never passes total, and what
\* freelist holds fits in its unsigned char entries.
TypeOK ==
    /\ avail \subseteq Page /\ partial \subseteq Page /\ full \subseteq Page
    /\ active \in [Page -> 0 .. Total]
    /\ freelist \in [Page -> [Slot -> 0 .. Width - 1]]
    /\ lock \in {0, 1}
    /\ held \subseteq Object

\* kmem_cache_alloc never hands out an object somebody still owns: the indices
\* on a page's free stack are exactly the ones no caller has, each once.
\* (slab_page_init fills the stack, alloc_block and free_block move its top.)
FreeStackExact ==
    \A p \in SlabPage :
        /\ \A i, j \in active[p] .. Total - 1 :
              freelist[p][i] = freelist[p][j] => i = j
        /\ \A i \in active[p] .. Total - 1 :
              freelist[p][i] < Total /\ <<p, freelist[p][i]>> \notin held
        /\ \A x \in 0 .. Total - 1 :
              <<p, x>> \in held \/ \E i \in active[p] .. Total - 1 : freelist[p][i] = x

\* A page is in one place: with the page allocator or in one list of the cache,
\* and callers own objects of slab pages only, so that free_pages in free_block
\* never gives away a page with a live object.  slabs_partial has at most one
\* page for list_next to return.
PagesAccounted ==
    /\ avail \cap SlabPage = {} /\ partial \cap full = {}
    /\ avail \cup SlabPage = Page
    /\ \A p, q \in partial : p = q
    /\ \A o \in held : o[1] \in SlabPage /\ o[2] < Total

\* The asserts active < total (alloc_block) and active > 0 (free_block), for
\* the page kmem_cache_alloc takes next and for each page an object of which
\* can come back.
AssertsHold ==
    /\ \A p \in partial : active[p] < Total
    /\ \A o \in held : active[o[1]] > 0

\* page->active counts the objects of a page that callers own: no two calls of
\* kmem_cache_alloc returned the same object.
DistinctObjects ==
    \A p \in SlabPage : active[p] = Cardinality({o \in held : o[1] = p})
=============================================================================
