------------------------------ MODULE Kmalloc ------------------------------
(***************************************************************************)
(* kmalloc and kfree: mm/kmalloc.c with fls and ilog2_roundup of           *)
(* include/bitops.h and include/log2.h.                                    *)
(*                                                                         *)
(* Until kmalloc_init everything comes from a buddy allocator over         *)
(* block_buffer; from then on from the slab caches or from alloc_pages,    *)
(* while kfree still has to find out where a pointer came from.  The slab  *)
(* caches and the page allocator are modelled by what they promise (they   *)
(* have modules of their own, Slab and PageAlloc): any chunk of the size   *)
(* that is free.  Addresses are bytes from block_buffer on; other data of  *)
(* the kernel lies between block_buffer and the first page.  A free list   *)
(* is the sequence of the blocks it links.                                 *)
(***************************************************************************)
EXTENDS Integers, Sequences, FiniteSets, SequencesExt

CONSTANTS
    MIN_SIZE, MAX_ORDER, KMEM_CACHE_MAX_ORDER, PAGE_SIZE,
    NPages,     \* pages alloc_pages can give
    Sizes,      \* sizes callers ask for
    MaxLive     \* bound: chunks owned at a time

Order == 0 .. MAX_ORDER
Block == 0 .. 2^MAX_ORDER - 1
MAX_SIZE == MIN_SIZE * 2^MAX_ORDER
KMEM_CACHE_MAX_SIZE == MIN_SIZE * 2^KMEM_CACHE_MAX_ORDER
Pages == 0 .. NPages - 1
MaxPower == 30      \* bound: no size is above the linear map, which has less than 2^30 bytes

ASSUME SizeAssumption ==
    /\ {MIN_SIZE, PAGE_SIZE} \subseteq Nat \ {0}
    /\ {MAX_ORDER, KMEM_CACHE_MAX_ORDER, NPages, MaxLive} \subseteq Nat
    /\ MAX_ORDER <= MaxPower /\ KMEM_CACHE_MAX_ORDER <= MaxPower
    /\ Sizes \subseteq 0 .. 2^MaxPower
    /\ MIN_SIZE < PAGE_SIZE /\ KMEM_CACHE_MAX_SIZE <= PAGE_SIZE

\* arithmetic: powers of two add up
ASSUME PowerAssumption ==
    /\ 2^0 = 1 /\ 2^1 = 2
    /\ \A j, k \in 0 .. MaxPower : j + k <= MaxPower => 2^(j + k) = 2^j * 2^k
    /\ \A k \in 0 .. MaxPower : 2^k \in Nat \ {0}

VARIABLES
    free_lists,         \* per order, first block first
    order, free,        \* block->order, the blocks with block->free
    cur,                \* the block free_blocks is merging, or -1
    init_kmem_cache,
    slab,               \* external: order of the cache a page with PAGE_SLAB is of
    live,               \* callers: the chunks they own and the size each asked for
    short,              \* history: a chunk was smaller than the size asked for
    mixed               \* history: blocks of different orders were merged

vars == <<free_lists, order, free, cur, init_kmem_cache, slab, live, short, mixed>>
early == <<free_lists, order, free, cur, mixed>>

----------------------------------------------------------------------------
(* include/bitops.h, include/log2.h *)

\* one test of fls: is a bit of the upper half of x >> r set, of 2 * k bits?
fls_step(x, r, k) == IF (x \div 2^r) \div 2^k > 0 THEN r + k ELSE r
fls_shift(x) == fls_step(x, fls_step(x, fls_step(x, fls_step(x, fls_step(x, 0, 16), 8), 4), 2), 1)

\* mutant of fls: the last bit is not counted
fls_short(x) == fls_shift(x)

\* the number of the highest bit set, from 1; x is what is left after the shifts
fls(x) == IF x = 0 THEN 0 ELSE fls_shift(x) + ((x \div 2^fls_shift(x)) % 2)

ilog2_roundup(n) == IF n = 0 THEN 0 ELSE fls(n - 1)

Up(n, k) == (n + k - 1) \div k      \* round_up(n, k) / k

----------------------------------------------------------------------------
(* The early heap *)

Buddy(b, k) == IF (b \div 2^k) % 2 = 0 THEN b + 2^k ELSE b - 2^k

\* kmalloc_early_init
Init ==
    /\ free_lists = [k \in Order |-> IF k = MAX_ORDER THEN <<0>> ELSE <<>>]
    /\ order = [b \in Block |-> IF b = 0 THEN MAX_ORDER ELSE 0]
    /\ free = {0}
    /\ cur = -1
    /\ init_kmem_cache = FALSE
    /\ slab = [p \in Pages |-> -1]
    /\ live = {}
    /\ short = FALSE /\ mixed = FALSE

Idle == cur = -1

\* The free lists are sequences as long as no block is in them twice.  After a
\* merge of unequal blocks one may be, and the model follows the early heap no
\* further; what kmalloc and kfree do with the pages goes on.
Intact == Idle /\ ~mixed

Give(at, size, got) ==
    /\ Cardinality(live) < MaxLive
    /\ live' = live \cup {[at |-> at, size |-> size, got |-> got]}
    /\ short' = (short \/ got < size)

\* alloc_blocks(o): the first block of the first list, from order o up, that is
\* not empty; its upper halves go back to the lists.
alloc_blocks(o, i) ==
    /\ i >= o /\ free_lists[i] # <<>>
    /\ \A j \in o .. i - 1 : free_lists[j] = <<>>
    /\ LET b == Head(free_lists[i])
           halves == o .. i - 1
           upper == {Buddy(b, j) : j \in halves}
       IN  /\ free_lists' = [k \in Order |->
                  IF k = i THEN Tail(free_lists[k])
                  ELSE IF k \in halves THEN <<Buddy(b, k)>> \o free_lists[k]
                  ELSE free_lists[k]]
           /\ order' = [c \in Block |->
                  IF c = b THEN o
                  ELSE IF c \in upper THEN CHOOSE j \in halves : c = Buddy(b, j)
                  ELSE order[c]]
           /\ free' = (free \cup upper) \ {b}

\* kmalloc(size) before kmalloc_init: kmalloc_early, which rounds the number of
\* units down.  Without a block kmalloc returns NULL and nothing changes.
KmallocEarly(size) ==
    /\ Intact /\ ~init_kmem_cache
    /\ LET o == ilog2_roundup(size \div MIN_SIZE) IN
       \E i \in Order :
            /\ alloc_blocks(o, i)
            /\ Give(Head(free_lists[i]) * MIN_SIZE, size, MIN_SIZE * 2^o)
    /\ UNCHANGED <<cur, init_kmem_cache, slab, mixed>>

\* mutant of is_early_block_addr: by time, not by address
is_early_boot(at) == ~init_kmem_cache

is_early_block_addr(at) == at <= MAX_SIZE

\* kfree of a pointer into block_buffer, up to the loop of free_blocks
KfreeEarly(c) ==
    /\ Intact /\ is_early_block_addr(c.at)
    /\ live' = live \ {c}
    /\ cur' = c.at \div MIN_SIZE
    /\ UNCHANGED <<free_lists, order, free, init_kmem_cache, slab, short, mixed>>

CanMerge == order[cur] < MAX_ORDER /\ Buddy(cur, order[cur]) \in free

\* free_blocks, one turn of the loop; the buddy's order is not looked at
FreeMerge ==
    /\ cur # -1 /\ CanMerge
    /\ LET b == Buddy(cur, order[cur])
           m == IF b < cur THEN b ELSE cur
       IN  /\ free_lists' = [k \in Order |-> RemoveFirst(free_lists[k], b)]
           /\ order' = [order EXCEPT ![m] = @ + 1]
           /\ cur' = m
           /\ mixed' = (mixed \/ order[b] # order[cur])
    /\ UNCHANGED <<free, init_kmem_cache, slab, live, short>>

\* mutant of FreeDone: block->free is not set
FreeDoneForgets ==
    /\ cur # -1 /\ ~CanMerge
    /\ free_lists' = [free_lists EXCEPT ![order[cur]] = <<cur>> \o @]
    /\ cur' = -1
    /\ UNCHANGED <<order, free, init_kmem_cache, slab, live, short, mixed>>

FreeDone ==
    /\ cur # -1 /\ ~CanMerge
    /\ free' = free \cup {cur}
    /\ free_lists' = [free_lists EXCEPT ![order[cur]] = <<cur>> \o @]
    /\ cur' = -1
    /\ UNCHANGED <<order, init_kmem_cache, slab, live, short, mixed>>

----------------------------------------------------------------------------
(* The slab caches and the page allocator *)

\* kmalloc_init
KmallocInit ==
    /\ Idle /\ ~init_kmem_cache
    /\ init_kmem_cache' = TRUE
    /\ UNCHANGED <<early, slab, live, short>>

PageAt(p) == MAX_SIZE + (p + 1) * PAGE_SIZE
page_of(at) == (at - PageAt(0)) \div PAGE_SIZE   \* virt_to_page
Used(p) == {c \in live : c.at < PageAt(p + 1) /\ c.at + c.got > PageAt(p)}

\* external: kmem_cache_alloc gives an object of its cache, from a page of the
\* cache or from a free one
KmallocSlab(size, p, i) ==
    /\ Idle /\ init_kmem_cache /\ size <= KMEM_CACHE_MAX_SIZE
    /\ LET o == ilog2_roundup(Up(size, MIN_SIZE))
           at == PageAt(p) + i * MIN_SIZE * 2^o
       IN  /\ slab[p] = o \/ (slab[p] = -1 /\ Used(p) = {})
           /\ at + MIN_SIZE * 2^o <= PageAt(p + 1)
           /\ \A c \in live : c.at # at
           /\ Give(at, size, MIN_SIZE * 2^o)
           /\ slab' = [slab EXCEPT ![p] = o]
    /\ UNCHANGED <<early, init_kmem_cache>>

\* external: alloc_pages gives 2^order pages, free and aligned
KmallocPages(size, p) ==
    /\ Idle /\ init_kmem_cache /\ size > KMEM_CACHE_MAX_SIZE
    /\ LET n == 2^ilog2_roundup(Up(size, PAGE_SIZE)) IN
        /\ p % n = 0 /\ p + n <= NPages
        /\ \A q \in p .. p + n - 1 : slab[q] = -1 /\ Used(q) = {}
        /\ Give(PageAt(p), size, n * PAGE_SIZE)
    /\ UNCHANGED <<early, init_kmem_cache, slab>>

\* kfree of any other pointer: kmem_cache_free or free_pages, as PAGE_SLAB says;
\* a slab page without objects goes back to alloc_pages
Kfree(c) ==
    /\ Idle /\ ~is_early_block_addr(c.at)
    /\ live' = live \ {c}
    /\ LET p == page_of(c.at) IN
        slab' = IF p \in Pages /\ Used(p) = {c} THEN [slab EXCEPT ![p] = -1] ELSE slab
    /\ UNCHANGED <<early, init_kmem_cache, short>>

Next ==
    \/ KmallocInit \/ FreeMerge \/ FreeDone
    \/ \E c \in live : KfreeEarly(c) \/ Kfree(c)
    \/ \E size \in Sizes :
        \/ KmallocEarly(size)
        \/ \E p \in Pages : KmallocPages(size, p)
        \/ \E p \in Pages, i \in 0 .. PAGE_SIZE \div MIN_SIZE - 1 : KmallocSlab(size, p, i)

Spec == Init /\ [][Next]_vars

----------------------------------------------------------------------------
(* Properties *)

\* Every variable keeps its type; free_blocks stays in blocks[].
TypeOK ==
    /\ free_lists \in [Order -> Seq(Block)]
    /\ order \in [Block -> Order] /\ free \subseteq Block
    /\ cur \in Block \cup {-1}
    /\ slab \in [Pages -> -1 .. KMEM_CACHE_MAX_ORDER]
    /\ \A c \in live : c.at \in 0 .. PageAt(NPages) /\ c.size \in Sizes /\ c.got \in Nat
    /\ {init_kmem_cache, short, mixed} \subseteq BOOLEAN

Early == {c \in live : c.at < MAX_SIZE}
Bytes(c) == c.at .. c.at + (IF c.size > c.got THEN c.size ELSE c.got) - 1
BlockBytes(b) == b * MIN_SIZE .. (b + 2^order[b]) * MIN_SIZE - 1
Listed == UNION {ToSet(free_lists[k]) : k \in Order}
Unowned == Listed \cup (IF cur = -1 THEN {} ELSE {cur})

\* The chunks of the slab caches and of alloc_pages never overlap, whatever
\* happened in the early heap before.  Until a chunk is too short or unequal
\* blocks are merged this holds of all chunks, and those of block_buffer tile it
\* together with the free blocks: whatever kfree gets, before or after
\* kmalloc_init, goes back where it was from.
ChunksTile ==
    /\ TypeOK
    /\ \A c, d \in live \ Early : c # d => Bytes(c) \cap Bytes(d) = {}
    /\ ~short /\ ~mixed =>
        /\ \A c, d \in live : c # d => Bytes(c) \cap Bytes(d) = {}
        /\ (UNION {Bytes(c) : c \in Early}) \cup (UNION {BlockBytes(b) : b \in Unowned}) = 0 .. MAX_SIZE - 1
        /\ \A b \in Unowned, c \in Early : BlockBytes(b) \cap Bytes(c) = {}
        /\ \A k \in Order : \A b \in ToSet(free_lists[k]) : order[b] = k

\* kmalloc's arithmetic cuts no chunk short (an early one by less than a unit)
\* and wastes no more than it must: the next smaller chunk of the same allocator
\* would not hold the size.
ChunksTight ==
    \A c \in live :
        /\ c.got + (IF c \in Early THEN MIN_SIZE - 1 ELSE 0) >= c.size
        /\ c.got \in {MIN_SIZE, PAGE_SIZE} \/ c.got < 2 * c.size
        /\ c.got = PAGE_SIZE => 2 * c.size > PAGE_SIZE \/ c.size > KMEM_CACHE_MAX_SIZE

\* When every early chunk was freed, free_blocks has put block_buffer together
\* again as one block, whatever the order of the calls.
EarlyCoalesces ==
    ~mixed /\ cur = -1 /\ Early = {} => free_lists[MAX_ORDER] = <<0>>

=============================================================================
