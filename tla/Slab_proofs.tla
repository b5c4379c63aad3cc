---------------------------- MODULE Slab_proofs ----------------------------
(* Proofs about a kmem_cache, for every object size and every set of pages,  *)
(* as long as an index fits the unsigned char it is stored in.               *)
EXTENDS Slab, FiniteSetTheorems, TLAPS

HeldOn(p) == {o \in held : o[1] = p}

SlabInv ==
    /\ TypeOK /\ FreeStackExact /\ PagesAccounted /\ DistinctObjects
    /\ IsFiniteSet(held)
    /\ \A p \in partial : active[p] < Total
    /\ \A p \in avail : active[p] = 0

LEMMA TotalFits == Total \in Nat \ {0} /\ Entries \in Nat /\ Total <= Entries
<1>1. PageSize \in Nat /\ Size \in Nat \ {0} /\ Width \in Nat \ {0}
  BY SizeAssumption
<1>2. Entries \in Nat
  BY <1>1 DEF Entries
<1>3. Total <= Entries /\ Total \in Int
  <2> DEFINE E == Entries
  <2>1. E * Size <= PageSize /\ PageSize < E * Size + Size
    BY <1>1, <1>2 DEF Entries
  <2>2. PageSize - E \in Int /\ Total \in Int /\ Total * Size <= PageSize - E
    BY <1>1, <1>2 DEF Total
  <2>3. SUFFICES ASSUME Total >= E + 1 PROVE FALSE
    BY <1>2, <2>2
  <2>4. Total * Size >= (E + 1) * Size
    BY <2>2, <2>3, <1>1, <1>2
  <2>5. (E + 1) * Size = E * Size + Size
    BY <1>1, <1>2
  <2> QED
    BY <2>1, <2>2, <2>4, <2>5, <1>1, <1>2
<1> QED
  BY <1>2, <1>3, RoomAssumption

\* What alloc_block and free_block do to the count of live objects of a page.
LEMMA HeldAdd ==
    ASSUME IsFiniteSet(held), NEW p, NEW i, <<p, i>> \notin held,
           held' = held \cup {<<p, i>>}
    PROVE  /\ IsFiniteSet(held')
           /\ Cardinality(HeldOn(p)') = Cardinality(HeldOn(p)) + 1
           /\ \A q : q # p => HeldOn(q)' = HeldOn(q)
<1>1. HeldOn(p) \subseteq held /\ HeldOn(p)' = HeldOn(p) \cup {<<p, i>>}
  BY DEF HeldOn
<1>2. IsFiniteSet(HeldOn(p))
  BY <1>1, FS_Subset
<1>3. <<p, i>> \notin HeldOn(p)
  BY DEF HeldOn
<1> QED
  BY <1>1, <1>2, <1>3, FS_AddElement DEF HeldOn

LEMMA HeldRemove ==
    ASSUME IsFiniteSet(held), NEW p, NEW i, <<p, i>> \in held,
           held' = held \ {<<p, i>>}
    PROVE  /\ IsFiniteSet(held')
           /\ Cardinality(HeldOn(p)) \in Nat \ {0}
           /\ Cardinality(HeldOn(p)') = Cardinality(HeldOn(p)) - 1
           /\ \A q : q # p => HeldOn(q)' = HeldOn(q)
<1>1. HeldOn(p) \subseteq held /\ HeldOn(p)' = HeldOn(p) \ {<<p, i>>}
  BY DEF HeldOn
<1>2. IsFiniteSet(HeldOn(p)) /\ <<p, i>> \in HeldOn(p)
  BY <1>1, FS_Subset DEF HeldOn
<1>3. Cardinality(HeldOn(p)) \in Nat /\ Cardinality(HeldOn(p)) # 0
  BY <1>2, FS_CardinalityType, FS_EmptySet
<1> QED
  BY <1>1, <1>2, <1>3, FS_RemoveElement, FS_Subset DEF HeldOn

LEMMA InitSlabInv == Init => SlabInv
<1> SUFFICES ASSUME Init PROVE SlabInv
  OBVIOUS
<1>1. 0 \in 0 .. Total /\ 0 \in 0 .. Width - 1
  BY TotalFits, SizeAssumption
<1>2. TypeOK
  BY <1>1 DEF Init, TypeOK
<1>3. FreeStackExact /\ PagesAccounted /\ DistinctObjects
  BY DEF Init, FreeStackExact, PagesAccounted, DistinctObjects, SlabPage
<1>4. IsFiniteSet(held)
  BY FS_EmptySet DEF Init
<1> QED
  BY <1>2, <1>3, <1>4 DEF SlabInv, Init

\* One object goes from the top of a page's stack to a caller.
LEMMA AllocBlockInv ==
    ASSUME SlabInv, NEW p \in Page, NEW pt \in SUBSET Page,
           freelist' \in [Page -> [Slot -> 0 .. Width - 1]],
           \A q \in Page : q # p => freelist'[q] = freelist[q],
           alloc_block(p, freelist', pt),
           active[p] < Total,
           lock' \in {0, 1}, avail' = avail \ {p},
           p \notin full, pt \cup full = SlabPage \cup {p}, pt \cap full = {},
           p \in pt, \A q \in pt : q = p,
           active[p] = Cardinality(HeldOn(p)),
           \A i, j \in active[p] .. Total - 1 :
               freelist'[p][i] = freelist'[p][j] => i = j,
           \A i \in active[p] .. Total - 1 :
               freelist'[p][i] < Total /\ <<p, freelist'[p][i]>> \notin held,
           \A x \in 0 .. Total - 1 :
               \/ <<p, x>> \in held
               \/ \E i \in active[p] .. Total - 1 : freelist'[p][i] = x
    PROVE  SlabInv'
<1> DEFINE a == active[p]
           x == freelist'[p][a]
<1>0. /\ Total \in Nat \ {0} /\ Entries \in Nat /\ Total <= Entries
      /\ a \in 0 .. Total - 1 /\ a \in Slot /\ a + 1 \in 0 .. Total
  BY TotalFits DEF SlabInv, TypeOK, Slot
<1>1. /\ x \in 0 .. Width - 1 /\ x < Total /\ <<p, x>> \notin held
      /\ <<p, x>> \in Object
  BY <1>0 DEF Object
<1>2. /\ active' = [active EXCEPT ![p] = a + 1]
      /\ held' = held \cup {<<p, x>>}
      /\ partial' \subseteq pt /\ full' \subseteq full \cup {p}
      /\ partial' \cup full' = SlabPage \cup {p}
      /\ partial' \cap full' = {}
      /\ p \in partial' => a + 1 # Total
  BY DEF alloc_block
<1> HIDE DEF x
<1>3. TypeOK'
  <2>1. avail' \subseteq Page /\ partial' \subseteq Page /\ full' \subseteq Page
    BY <1>2 DEF SlabInv, TypeOK
  <2>2. active' \in [Page -> 0 .. Total]
    BY <1>0, <1>2 DEF SlabInv, TypeOK
  <2>3. held' \subseteq Object
    BY <1>1, <1>2 DEF SlabInv, TypeOK
  <2>4. Object' = Object /\ Slot' = Slot
    BY DEF Object, Slot
  <2> QED
    BY <2>1, <2>2, <2>3, <2>4 DEF TypeOK
<1>4. /\ IsFiniteSet(held')
      /\ Cardinality(HeldOn(p)') = Cardinality(HeldOn(p)) + 1
      /\ \A q : q # p => HeldOn(q)' = HeldOn(q)
  BY <1>1, <1>2, HeldAdd DEF SlabInv
<1>5. PagesAccounted'
  BY <1>1, <1>2 DEF SlabInv, TypeOK, PagesAccounted, SlabPage
<1>6. DistinctObjects'
  <2> SUFFICES ASSUME NEW q \in SlabPage'
               PROVE  active'[q] = Cardinality(HeldOn(q)')
    BY DEF DistinctObjects, HeldOn
  <2>1. CASE q = p
    BY <2>1, <1>2, <1>4 DEF SlabInv, TypeOK
  <2>2. CASE q # p
    <3>1. q \in SlabPage /\ q \in Page
      BY <2>2, <1>2 DEF SlabPage, SlabInv, TypeOK
    <3>2. active[q] = Cardinality(HeldOn(q))
      BY <3>1 DEF SlabInv, DistinctObjects, HeldOn
    <3> QED
      BY <2>2, <3>1, <3>2, <1>2, <1>4 DEF SlabInv, TypeOK
  <2> QED
    BY <2>1, <2>2
<1>7. FreeStackExact'
  <2> SUFFICES ASSUME NEW q \in SlabPage'
               PROVE  /\ \A i, j \in active'[q] .. Total - 1 :
                            freelist'[q][i] = freelist'[q][j] => i = j
                      /\ \A i \in active'[q] .. Total - 1 :
                            freelist'[q][i] < Total /\ <<q, freelist'[q][i]>> \notin held'
                      /\ \A y \in 0 .. Total - 1 :
                            \/ <<q, y>> \in held'
                            \/ \E i \in active'[q] .. Total - 1 : freelist'[q][i] = y
    BY DEF FreeStackExact
  <2>1. CASE q = p
    <3>1. active'[p] = a + 1
      BY <1>2 DEF SlabInv, TypeOK
    <3>2. \A i \in a + 1 .. Total - 1 : i \in a .. Total - 1 /\ freelist'[p][i] # x
      BY <1>0 DEF x
    <3>3. \A y \in 0 .. Total - 1 :
             \/ <<p, y>> \in held'
             \/ \E i \in a + 1 .. Total - 1 : freelist'[p][i] = y
      <4> SUFFICES ASSUME NEW y \in 0 .. Total - 1, <<p, y>> \notin held'
                   PROVE  \E i \in a + 1 .. Total - 1 : freelist'[p][i] = y
        OBVIOUS
      <4>1. PICK i \in a .. Total - 1 : freelist'[p][i] = y
        BY <1>2
      <4>2. i # a
        BY <4>1, <1>2 DEF x
      <4> QED
        BY <4>1, <4>2, <1>0
    <3> QED
      BY <2>1, <3>1, <3>2, <3>3, <1>2
  <2>2. CASE q # p
    <3>1. q \in SlabPage /\ q \in Page
      BY <2>2, <1>2 DEF SlabPage, SlabInv, TypeOK
    <3>2. active'[q] = active[q] /\ freelist'[q] = freelist[q]
      BY <2>2, <3>1, <1>2 DEF SlabInv, TypeOK
    <3>3. \A y : <<q, y>> \in held' <=> <<q, y>> \in held
      BY <2>2, <1>2
    <3> QED
      BY <3>1, <3>2, <3>3 DEF SlabInv, FreeStackExact
  <2> QED
    BY <2>1, <2>2
<1>8. \A q \in partial' : active'[q] < Total
  BY <1>0, <1>2 DEF SlabInv, TypeOK
<1>9. \A q \in avail' : active'[q] = 0
  BY <1>2 DEF SlabInv, TypeOK
<1> QED
  BY <1>3, <1>4, <1>5, <1>6, <1>7, <1>8, <1>9 DEF SlabInv

LEMMA AllocPartialInv ==
    ASSUME SlabInv, NEW p \in Page, AllocPartial(p)
    PROVE  SlabInv'
<1>1. /\ p \in partial /\ p \in SlabPage /\ p \notin full /\ p \notin avail
      /\ active[p] < Total /\ freelist' = freelist
      /\ alloc_block(p, freelist', partial)
      /\ lock' \in {0, 1} /\ avail' = avail \ {p}
  BY DEF AllocPartial, SlabInv, SlabPage, PagesAccounted
<1>2. active[p] = Cardinality(HeldOn(p))
  BY <1>1 DEF SlabInv, DistinctObjects, HeldOn
<1>3. /\ partial \in SUBSET Page /\ partial \cap full = {}
      /\ \A q \in partial : q = p
      /\ partial \cup full = SlabPage \cup {p}
      /\ freelist' \in [Page -> [Slot -> 0 .. Width - 1]]
  BY <1>1 DEF SlabInv, TypeOK, PagesAccounted, SlabPage
<1>4. /\ \A i, j \in active[p] .. Total - 1 :
            freelist'[p][i] = freelist'[p][j] => i = j
      /\ \A i \in active[p] .. Total - 1 :
            freelist'[p][i] < Total /\ <<p, freelist'[p][i]>> \notin held
      /\ \A x \in 0 .. Total - 1 :
            \/ <<p, x>> \in held
            \/ \E i \in active[p] .. Total - 1 : freelist'[p][i] = x
  <2>1. freelist' = freelist /\ p \in SlabPage /\ FreeStackExact
    BY <1>1 DEF SlabInv
  <2> QED
    BY <2>1, Zenon DEF FreeStackExact
<1> QED
  BY <1>1, <1>2, <1>3, <1>4, AllocBlockInv

LEMMA AllocFreshInv ==
    ASSUME Total <= Width, SlabInv, NEW p \in Page, AllocFresh(p)
    PROVE  SlabInv'
<1>0. /\ Total \in Nat \ {0} /\ Entries \in Nat /\ Total <= Entries
      /\ Width \in Nat \ {0}
  BY TotalFits, SizeAssumption
<1>1. /\ p \in avail /\ partial = {} /\ p \notin SlabPage /\ active[p] = 0
      /\ freelist' = [freelist EXCEPT ![p] = [i \in Slot |-> i % Width]]
      /\ alloc_block(p, freelist', {p})
      /\ lock' \in {0, 1} /\ avail' = avail \ {p}
  BY DEF AllocFresh, slab_page_init, SlabInv, TypeOK, PagesAccounted
<1>2. \A i \in Slot : i % Width \in 0 .. Width - 1
  BY <1>0 DEF Slot
<1>3. /\ freelist' \in [Page -> [Slot -> 0 .. Width - 1]]
      /\ \A q \in Page : q # p => freelist'[q] = freelist[q]
  BY <1>1, <1>2 DEF SlabInv, TypeOK
<1>4. \A i \in 0 .. Total - 1 : freelist'[p][i] = i
  <2> SUFFICES ASSUME NEW i \in 0 .. Total - 1 PROVE freelist'[p][i] = i
    OBVIOUS
  <2>1. i \in Slot /\ i \in 0 .. Width - 1
    BY <1>0 DEF Slot
  <2>2. i % Width = i
    BY <2>1, <1>0
  <2> QED
    BY <2>1, <2>2, <1>1 DEF SlabInv, TypeOK
<1>5. HeldOn(p) = {}
  BY <1>1 DEF HeldOn, SlabInv, PagesAccounted
<1>6. active[p] = Cardinality(HeldOn(p))
  BY <1>1, <1>5, FS_EmptySet
<1>7. \A x : <<p, x>> \notin held
  BY <1>5 DEF HeldOn
<1>8. /\ {p} \in SUBSET Page /\ p \notin full /\ {p} \cap full = {}
      /\ {p} \cup full = SlabPage \cup {p}
      /\ active[p] < Total /\ \A q \in {p} : q = p
  BY <1>0, <1>1 DEF SlabPage
<1>9. /\ \A i, j \in active[p] .. Total - 1 :
            freelist'[p][i] = freelist'[p][j] => i = j
      /\ \A i \in active[p] .. Total - 1 :
            freelist'[p][i] < Total /\ <<p, freelist'[p][i]>> \notin held
      /\ \A x \in 0 .. Total - 1 :
            \/ <<p, x>> \in held
            \/ \E i \in active[p] .. Total - 1 : freelist'[p][i] = x
  <2>1. active[p] .. Total - 1 = 0 .. Total - 1
    BY <1>1
  <2>2. \A i \in 0 .. Total - 1 : i < Total /\ <<p, freelist'[p][i]>> \notin held
    BY <1>0, <1>7
  <2> QED
    BY <2>1, <2>2, <1>4, Zenon
<1> QED
  BY <1>1, <1>3, <1>6, <1>8, <1>9, AllocBlockInv

LEMMA FreeInv ==
    ASSUME SlabInv, NEW p, NEW i, Free(p, i)
    PROVE  SlabInv'
<1> DEFINE a == active[p]
<1>0. Total \in Nat \ {0} /\ Entries \in Nat /\ Total <= Entries
  BY TotalFits
<1>1. /\ <<p, i>> \in held /\ held' = held \ {<<p, i>>}
      /\ p \in Page /\ i \in 0 .. Width - 1
      /\ p \in SlabPage /\ i < Total /\ p \notin avail
  <2>1. <<p, i>> \in held /\ held' = held \ {<<p, i>>}
    BY DEF Free
  <2>2. <<p, i>> \in Object
    BY <2>1 DEF SlabInv, TypeOK
  <2>3. p \in Page /\ i \in 0 .. Width - 1
    BY <2>2 DEF Object
  <2>4. p \in SlabPage /\ i < Total
    <3>1. \A o \in held : o[1] \in SlabPage /\ o[2] < Total
      BY DEF SlabInv, PagesAccounted
    <3>2. <<p, i>>[1] = p /\ <<p, i>>[2] = i
      OBVIOUS
    <3> QED
      BY <2>1, <3>1, <3>2
  <2> QED
    BY <2>1, <2>3, <2>4 DEF SlabInv, PagesAccounted
<1>2. /\ IsFiniteSet(held')
      /\ Cardinality(HeldOn(p)) \in Nat \ {0}
      /\ Cardinality(HeldOn(p)') = Cardinality(HeldOn(p)) - 1
      /\ \A q : q # p => HeldOn(q)' = HeldOn(q)
  BY <1>1, HeldRemove DEF SlabInv
<1>3. a = Cardinality(HeldOn(p))
  BY <1>1 DEF SlabInv, DistinctObjects, HeldOn
<1>4. a \in 1 .. Total /\ a - 1 \in Slot /\ a - 1 \in 0 .. Total
  BY <1>0, <1>1, <1>2, <1>3 DEF SlabInv, TypeOK, Slot
<1>5. /\ active' = [active EXCEPT ![p] = a - 1]
      /\ freelist' = [freelist EXCEPT ![p] = [freelist[p] EXCEPT ![a - 1] = i]]
      /\ lock' = lock
  BY DEF Free
<1>6. /\ a = 1 => /\ partial' = partial \ {p} /\ full' = full \ {p}
                  /\ avail' = avail \cup {p}
      /\ a # 1 => partial' = partial /\ full' = full /\ avail' = avail
  BY DEF Free
<1>7. TypeOK'
  <2>1. active' \in [Page -> 0 .. Total]
    BY <1>1, <1>4, <1>5 DEF SlabInv, TypeOK
  <2>2. freelist' \in [Page -> [Slot -> 0 .. Width - 1]]
    BY <1>1, <1>4, <1>5 DEF SlabInv, TypeOK
  <2> QED
    BY <2>1, <2>2, <1>1, <1>5, <1>6 DEF SlabInv, TypeOK
<1>8. a = 1 => HeldOn(p)' = {}
  <2>1. IsFiniteSet(HeldOn(p)')
    BY <1>2, FS_Subset DEF HeldOn
  <2> QED
    BY <2>1, <1>2, <1>3, FS_EmptySet
<1>9. PagesAccounted'
  <2>1. CASE a = 1
    <3>1. \A o \in held' : o[1] # p
      BY <2>1, <1>8 DEF HeldOn
    <3>2. \A o \in held' : o[1] \in SlabPage /\ o[2] < Total
      BY <1>1 DEF SlabInv, PagesAccounted
    <3> QED
      BY <2>1, <3>1, <3>2, <1>1, <1>6 DEF SlabInv, TypeOK, PagesAccounted, SlabPage
  <2>2. CASE a # 1
    BY <2>2, <1>1, <1>6 DEF SlabInv, PagesAccounted, SlabPage
  <2> QED
    BY <2>1, <2>2
<1>s. SlabPage' \subseteq SlabPage /\ SlabPage \subseteq Page
  BY <1>6 DEF SlabPage, SlabInv, TypeOK
<1>10. DistinctObjects'
  <2> SUFFICES ASSUME NEW q \in SlabPage'
               PROVE  active'[q] = Cardinality(HeldOn(q)')
    BY DEF DistinctObjects, HeldOn
  <2>1. CASE q = p
    BY <2>1, <1>1, <1>2, <1>3, <1>5 DEF SlabInv, TypeOK
  <2>2. CASE q # p
    <3>1. active[q] = Cardinality(HeldOn(q))
      BY <1>s DEF SlabInv, DistinctObjects, HeldOn
    <3> QED
      BY <2>2, <3>1, <1>s, <1>2, <1>5 DEF SlabInv, TypeOK
  <2> QED
    BY <2>1, <2>2
<1>11. FreeStackExact'
  <2> SUFFICES ASSUME NEW q \in SlabPage'
               PROVE  /\ \A k, j \in active'[q] .. Total - 1 :
                            freelist'[q][k] = freelist'[q][j] => k = j
                      /\ \A k \in active'[q] .. Total - 1 :
                            freelist'[q][k] < Total /\ <<q, freelist'[q][k]>> \notin held'
                      /\ \A y \in 0 .. Total - 1 :
                            \/ <<q, y>> \in held'
                            \/ \E k \in active'[q] .. Total - 1 : freelist'[q][k] = y
    BY DEF FreeStackExact
  <2>0. /\ \A k, j \in active[q] .. Total - 1 :
              freelist[q][k] = freelist[q][j] => k = j
        /\ \A k \in active[q] .. Total - 1 :
              freelist[q][k] < Total /\ <<q, freelist[q][k]>> \notin held
        /\ \A y \in 0 .. Total - 1 :
              \/ <<q, y>> \in held
              \/ \E k \in active[q] .. Total - 1 : freelist[q][k] = y
    BY <1>s DEF SlabInv, FreeStackExact
  <2>1. CASE q = p
    <3>1. active'[p] = a - 1
      BY <1>1, <1>5 DEF SlabInv, TypeOK
    <3>2. /\ freelist'[p][a - 1] = i
          /\ \A k \in a .. Total - 1 : freelist'[p][k] = freelist[p][k]
      <4>1. \A k \in a .. Total - 1 : k \in Slot /\ k # a - 1
        BY <1>0, <1>4 DEF Slot
      <4>2. freelist[p] \in [Slot -> 0 .. Width - 1] /\ freelist'[p] = [freelist[p] EXCEPT ![a - 1] = i]
        BY <1>1, <1>5 DEF SlabInv, TypeOK
      <4> QED
        BY <4>1, <4>2, <1>4
    <3>3. \A k \in a .. Total - 1 : freelist[p][k] # i
      BY <2>0, <2>1, <1>1
    <3>4. \A k \in a - 1 .. Total - 1 : k = a - 1 \/ k \in a .. Total - 1
      BY <1>0, <1>4
    <3>5. \A k, j \in a - 1 .. Total - 1 :
             freelist'[p][k] = freelist'[p][j] => k = j
      BY <2>0, <2>1, <3>2, <3>3, <3>4
    <3>6. \A k \in a - 1 .. Total - 1 :
             freelist'[p][k] < Total /\ <<p, freelist'[p][k]>> \notin held'
      BY <2>0, <2>1, <3>2, <3>4, <1>1
    <3>7. \A y \in 0 .. Total - 1 :
             \/ <<p, y>> \in held'
             \/ \E k \in a - 1 .. Total - 1 : freelist'[p][k] = y
      <4> SUFFICES ASSUME NEW y \in 0 .. Total - 1, <<p, y>> \notin held'
                   PROVE  \E k \in a - 1 .. Total - 1 : freelist'[p][k] = y
        OBVIOUS
      <4>1. CASE y = i
        BY <4>1, <3>2, <1>0, <1>4
      <4>2. CASE y # i
        <5>1. PICK k \in a .. Total - 1 : freelist[p][k] = y
          BY <4>2, <2>0, <2>1, <1>1
        <5> QED
          BY <5>1, <3>2, <1>0, <1>4
      <4> QED
        BY <4>1, <4>2
    <3> QED
      BY <2>1, <3>1, <3>5, <3>6, <3>7
  <2>2. CASE q # p
    <3>1. active'[q] = active[q] /\ freelist'[q] = freelist[q]
      BY <2>2, <1>s, <1>1, <1>5 DEF SlabInv, TypeOK
    <3>2. \A y : <<q, y>> \in held' <=> <<q, y>> \in held
      BY <2>2, <1>1
    <3> QED
      BY <2>0, <3>1, <3>2
  <2> QED
    BY <2>1, <2>2
<1>12. \A q \in partial' : active'[q] < Total
  BY <1>0, <1>1, <1>4, <1>5, <1>6 DEF SlabInv, TypeOK
<1>13. \A q \in avail' : active'[q] = 0
  BY <1>1, <1>4, <1>5, <1>6 DEF SlabInv, TypeOK
<1> QED
  BY <1>2, <1>7, <1>9, <1>10, <1>11, <1>12, <1>13 DEF SlabInv

\* Nothing of SlabInv is lost by any step.
LEMMA SlabInvariant ==
    ASSUME Total <= Width
    PROVE  Spec => []SlabInv
<1>1. Init => SlabInv
  BY InitSlabInv
<1>2. SlabInv /\ [Next]_vars => SlabInv'
  <2> SUFFICES ASSUME SlabInv, [Next]_vars PROVE SlabInv'
    OBVIOUS
  <2>1. CASE UNCHANGED vars
    BY <2>1 DEF SlabInv, TypeOK, FreeStackExact, PagesAccounted, DistinctObjects,
                SlabPage, vars
  <2>2. CASE AllocFault
    BY <2>2 DEF AllocFault, SlabInv, TypeOK, FreeStackExact, PagesAccounted,
                DistinctObjects, SlabPage
  <2> QED
    BY <2>1, <2>2, AllocPartialInv, AllocFreshInv, FreeInv DEF Next, Alloc
<1> QED
  BY <1>1, <1>2, PTL DEF Spec

LEMMA AssertsFollow == SlabInv => AssertsHold
<1> SUFFICES ASSUME SlabInv PROVE AssertsHold
  OBVIOUS
<1> SUFFICES ASSUME NEW o \in held PROVE active[o[1]] > 0
  BY DEF SlabInv, AssertsHold
<1>1. o[1] \in SlabPage /\ o \in HeldOn(o[1])
  BY DEF SlabInv, PagesAccounted, HeldOn
<1>2. IsFiniteSet(HeldOn(o[1]))
  BY FS_Subset DEF SlabInv, HeldOn
<1>3. Cardinality(HeldOn(o[1])) \in Nat /\ Cardinality(HeldOn(o[1])) # 0
  BY <1>1, <1>2, FS_CardinalityType, FS_EmptySet
<1> QED
  BY <1>1, <1>3 DEF SlabInv, DistinctObjects, HeldOn

\* For every object size whose indices fit an unsigned char, every number of
\* pages and every order of calls: what kmem_cache_alloc returns is owned by
\* nobody else, no free object is lost, and the asserts of slab.c hold.
THEOREM SlabCorrect ==
    ASSUME Total <= Width
    PROVE  Spec => [](TypeOK /\ FreeStackExact /\ AssertsHold)
<1>1. SlabInv => TypeOK /\ FreeStackExact /\ AssertsHold
  BY AssertsFollow DEF SlabInv
<1> QED
  BY <1>1, SlabInvariant, PTL

\* Under the same condition page->active is the number of objects of the page
\* that callers own: kmem_cache_alloc never gives one object to two of them.
THEOREM SlabObjects ==
    ASSUME Total <= Width
    PROVE  Spec => []DistinctObjects
<1>1. SlabInv => DistinctObjects
  BY DEF SlabInv
<1> QED
  BY <1>1, SlabInvariant, PTL

\* Under the same condition every page is with the page allocator or in one list
\* of the cache, and free_block gives a page back only when no object of it is
\* owned.
THEOREM SlabPages ==
    ASSUME Total <= Width
    PROVE  Spec => []PagesAccounted
<1>1. SlabInv => PagesAccounted
  BY DEF SlabInv
<1> QED
  BY <1>1, SlabInvariant, PTL

=============================================================================
