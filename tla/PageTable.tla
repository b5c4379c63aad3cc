----------------------------- MODULE PageTable -----------------------------
(***************************************************************************)
(* Page tables of two levels, mm/page_table.c, as operators on records     *)
(*    pt = [dir, pte, free]                                                *)
(* of the page directory (the frame of each table, None, or Stale), the    *)
(* contents of the frames that were given to tables, and the frames        *)
(* alloc_page(GFP_NORMAL) can still give.  Addresses, virtual and          *)
(* physical, are page numbers.                                             *)
(***************************************************************************)
EXTENDS Integers, FiniteSetsExt

CONSTANTS
    PER_TABLE,      \* entries of a table, 1024
    TABLES          \* entries of the directory, 1024

ASSUME TableAssumption == PER_TABLE \in Nat \ {0} /\ TABLES \in Nat \ {0}

None == -1
Stale == -2     \* an entry that is present although nobody has set it
Virt == 0 .. PER_TABLE * TABLES - 1

pde_index(va) == va \div PER_TABLE
pte_index(va) == va % PER_TABLE

\* The directory after memory_init, which takes its page from alloc_page and clears
\* none of it: an entry of it is present when the memory happened to have the bit
\* set.  Only entry 0 is surely clear, since start_paging clears it.
FirstTables(frames) ==
    {[dir |-> d, pte |-> [f \in {} |-> None], free |-> frames] :
        d \in {e \in [0 .. TABLES - 1 -> {None, Stale}] : e[0] = None}}

\* start_paging on another processor: entry 0 maps the kernel for a moment and is
\* then cleared, whatever it was.  The table it pointed to is lost, not freed.
start_paging(pt) == [pt EXCEPT !.dir[0] = None]

\* mutant of get_pte: a frame is taken although there is a table
get_pte_again(pt, va) ==
    LET f == Min(pt.free) IN
         [dir |-> [pt.dir EXCEPT ![pde_index(va)] = f],
          pte |-> [g \in DOMAIN pt.pte \cup {f} |->
                      IF g = f THEN [i \in 0 .. PER_TABLE - 1 |-> None] ELSE pt.pte[g]],
          free |-> pt.free \ {f}]

\* get_pte and set_pde: a table that is missing gets a frame of its own, zeroed.
\* There is no test that alloc_page found one; see Faults.
get_pte(pt, va) ==
    IF pt.dir[pde_index(va)] # None THEN pt
    ELSE LET f == Min(pt.free) IN
         [dir |-> [pt.dir EXCEPT ![pde_index(va)] = f],
          pte |-> [g \in DOMAIN pt.pte \cup {f} |->
                      IF g = f THEN [i \in 0 .. PER_TABLE - 1 |-> None] ELSE pt.pte[g]],
          free |-> pt.free \ {f}]

\* page_map of one page
page_map(pt, va, pa) ==
    LET q == get_pte(pt, va) IN
    [q EXCEPT !.pte[q.dir[pde_index(va)]][pte_index(va)] = pa]

\* Mapping the pages of va needs a table for which there is no frame, and get_pte
\* writes to the frame page_to_phys computes from NULL; or it follows an entry that
\* nobody has set, and writes there.
Faults(pt, vas) ==
    \/ Cardinality({i \in 0 .. TABLES - 1 : pt.dir[i] = None /\ \E va \in vas : pde_index(va) = i})
        > Cardinality(pt.free)
    \/ \E va \in vas : pt.dir[pde_index(va)] = Stale

\* what the processor finds when it translates va; Stale, if that is anything
Translate(pt, va) ==
    LET d == pt.dir[pde_index(va)] IN
    IF d \in {None, Stale} THEN d ELSE pt.pte[d][pte_index(va)]
=============================================================================
