-------------------------- MODULE PageAlloc_proofs --------------------------
(* Proofs about the buddy allocator, for every number of pages, order and    *)
(* memory map.                                                               *)
EXTENDS PageAlloc, FiniteSetTheorems, WellFoundedInduction, TLAPS

\* An even multiple of the block size m bounds a page below iff it bounds the
\* page's buddy: 2*m*c is no border inside a pair of buddies.
LEMMA PairBound ==
    ASSUME NEW m \in Nat \ {0}, NEW c \in Nat, NEW p \in Nat, p < c * (2 * m)
    PROVE  /\ (p \div m) % 2 = 0 => p + m < c * (2 * m)
           /\ (p \div m) % 2 # 0 => p - m \in Nat
<1> DEFINE q == p \div m
<1>1. q \in Nat /\ q * m <= p /\ p < q * m + m
  OBVIOUS
<1>2. CASE q % 2 = 0
  <2>1. PICK h \in Nat : q = 2 * h
    BY <1>1, <1>2
  <2>2. q * m = h * (2 * m)
    BY <2>1
  <2>3. h < c
    <3>1. SUFFICES ASSUME c <= h PROVE FALSE
      BY <2>1
    <3>2. c * (2 * m) <= h * (2 * m)
      BY <3>1, <2>1
    <3> QED
      BY <3>2, <2>2, <1>1, <2>1
  <2>4. (h + 1) * (2 * m) <= c * (2 * m)
    BY <2>3, <2>1
  <2>5. (h + 1) * (2 * m) = h * (2 * m) + 2 * m
    BY <2>1
  <2> QED
    BY <1>1, <1>2, <2>1, <2>2, <2>4, <2>5
<1>3. CASE q % 2 # 0
  <2>1. q >= 1
    BY <1>1, <1>3
  <2>2. q * m >= m
    BY <1>1, <2>1
  <2> QED
    BY <1>1, <1>3, <2>2
<1> QED
  BY <1>2, <1>3

\* page_buddy never leaves pages[]: TOTAL_PAGES is a multiple of the largest
\* block.
LEMMA BuddyInPage ==
    ASSUME NEW p \in Page, NEW k \in 0 .. MaxOrder - 1
    PROVE  Buddy(p, k) \in Page
<1> DEFINE m == 2^k
<1>1. /\ MaxOrder \in Nat /\ NPages \in Nat
      /\ k \in Order /\ k + 1 \in Order /\ m \in Nat \ {0}
      /\ 2^(k + 1) = 2 * m
  BY ConstAssumption, PowerAssumption DEF Order
<1>2. PICK c \in Nat : 2^MaxOrder = c * (2 * m)
  <2>1. MaxOrder \in Order /\ k + 1 <= MaxOrder
    BY <1>1 DEF Order
  <2>2. PICK c \in 0 .. 2^MaxOrder : 2^MaxOrder = c * 2^(k + 1)
    BY <1>1, <2>1, PowerAssumption
  <2> QED
    BY <1>1, <2>2
<1>3. PICK d \in Nat : NPages = d * 2^MaxOrder
  BY <1>1, PowerAssumption
<1>4. NPages = (d * c) * (2 * m) /\ d * c \in Nat
  BY <1>1, <1>2, <1>3
<1>5. p \in Nat /\ p < (d * c) * (2 * m)
  BY <1>4, <1>1 DEF Page
<1>6. /\ (p \div m) % 2 = 0 => p + m < NPages
      /\ (p \div m) % 2 # 0 => p - m \in Nat
  BY <1>1, <1>4, <1>5, PairBound
<1>7. p - m < NPages
  BY <1>1, <1>4, <1>5
<1> QED
  BY <1>1, <1>5, <1>6, <1>7 DEF Page, Buddy

LEMMA PowType == \A k \in Order : 2^k \in Nat \ {0}
BY ConstAssumption, PowerAssumption DEF Order

LEMMA HeadInNode ==
    ASSUME NEW z \in Zone, NEW i \in Order
    PROVE  free_lists(z, i) \in Node /\ free_lists(z, i) \notin Page
BY ConstAssumption DEF Zone, Order, free_lists, ListHead, Node, Page

LEMMA ZoneOfType == ASSUME NEW p PROVE ZoneOf(p) \in Zone
BY DEF ZoneOf, Zone

----------------------------------------------------------------------------
(* The inductive strengthening of TypeOK: the ranges still to be added stay  *)
(* inside pages[], and only the page free_pages is merging can have outgrown *)
(* the largest order.                                                        *)

RangesFit ==
    \A i \in 1 .. Len(todo) : todo[i][1] <= todo[i][2] /\ todo[i][2] <= NPages

OrderFits ==
    \A p \in Page : order[p] > MaxOrder => pc \in {"merge", "wild"} /\ p = cur

TypeInv == TypeOK /\ RangesFit /\ OrderFits /\ (pc = "add" => todo # <<>>)

LEMMA InsertType ==
    ASSUME NEW c \in Node, NEW n \in Node, list_insert(c, n),
           next \in [Node -> Node], prev \in [Node -> Node]
    PROVE  next' \in [Node -> Node] /\ prev' \in [Node -> Node]
BY DEF list_insert

LEMMA RemoveType ==
    ASSUME NEW n \in Node, list_remove(n),
           next \in [Node -> Node], prev \in [Node -> Node]
    PROVE  next' \in [Node -> Node] /\ prev' \in [Node -> Node]
BY DEF list_remove

LEMMA FreePageType ==
    ASSUME NEW p \in Page, NEW k \in Order, NEW ord \in [Page -> 0 .. MaxOrder + 1],
           free_page(p, k, ord), TypeOK
    PROVE  /\ next' \in [Node -> Node] /\ prev' \in [Node -> Node]
           /\ order' = [ord EXCEPT ![p] = k]
           /\ order' \in [Page -> 0 .. MaxOrder + 1]
           /\ free' \subseteq Page /\ linked' \subseteq Page
<1>1. p \in Node
  BY DEF Node
<1>2. free_lists(ZoneOf(p), k) \in Node
  BY HeadInNode, ZoneOfType
<1>3. next' \in [Node -> Node] /\ prev' \in [Node -> Node]
  BY <1>1, <1>2, InsertType DEF free_page, TypeOK
<1>4. k \in 0 .. MaxOrder + 1
  BY ConstAssumption DEF Order
<1> QED
  BY <1>3, <1>4 DEF free_page, TypeOK

LEMMA InitTypeInv == Init => TypeInv
<1> SUFFICES ASSUME Init PROVE TypeInv
  OBVIOUS
<1>1. 0 \in Page /\ 0 \in Order /\ 0 \in 0 .. MaxOrder + 1 /\ -1 \in -1 .. MaxOrder
  BY ConstAssumption DEF Page, Order
<1>2. TypeOK
  BY <1>1, ConstAssumption DEF Init, TypeOK
<1>3. RangesFit
  BY ConstAssumption DEF Init, RangesFit
<1>4. OrderFits
  BY <1>1, ConstAssumption DEF Init, OrderFits
<1> QED
  BY <1>2, <1>3, <1>4 DEF TypeInv, Init

LEMMA BootTypeInv == TypeInv /\ Boot => TypeInv'
<1> SUFFICES ASSUME TypeInv, Boot PROVE TypeInv'
  OBVIOUS
<1> USE DEF TypeInv
<1>0. /\ MaxOrder \in Nat /\ NPages \in Nat /\ HighStart \in Nat
      /\ todo \in Seq(Nat \X Nat)
  BY ConstAssumption DEF TypeOK
<1>h. ASSUME todo # <<>>
      PROVE  /\ Len(todo) \in Nat \ {0} /\ Len(Tail(todo)) = Len(todo) - 1
             /\ Head(todo) = todo[1] /\ todo[1] \in Nat \X Nat
             /\ Tail(todo) \in Seq(Nat \X Nat)
             /\ todo[1][1] <= todo[1][2] /\ todo[1][2] <= NPages
             /\ \A i \in 1 .. Len(todo) - 1 : Tail(todo)[i] = todo[i + 1]
  BY <1>h, <1>0 DEF RangesFit
<1>1. CASE AddSplit
  <2> DEFINE s == todo[1][1]
             e == todo[1][2]
  <2>1. /\ s < HighStart /\ HighStart < e /\ s \in Nat /\ e \in Nat
        /\ todo' = <<<<s, HighStart>>, <<HighStart, e>>>> \o Tail(todo)
    BY <1>0, <1>1, <1>h DEF AddSplit
  <2>2. <<s, HighStart>> \in Nat \X Nat /\ <<HighStart, e>> \in Nat \X Nat
    BY <2>1, <1>0
  <2>3. /\ todo' \in Seq(Nat \X Nat) /\ Len(todo') = Len(todo) + 1
        /\ todo'[1] = <<s, HighStart>> /\ todo'[2] = <<HighStart, e>>
        /\ \A i \in 3 .. Len(todo) + 1 : todo'[i] = Tail(todo)[i - 2]
    BY <2>1, <2>2, <1>1, <1>h, <1>0 DEF AddSplit
  <2>4. RangesFit'
    <3> SUFFICES ASSUME NEW i \in 1 .. Len(todo')
                 PROVE  todo'[i][1] <= todo'[i][2] /\ todo'[i][2] <= NPages
      BY DEF RangesFit
    <3>1. CASE i = 1
      BY <3>1, <2>1, <2>3, <1>h, <1>1, <1>0 DEF AddSplit
    <3>2. CASE i = 2
      BY <3>2, <2>1, <2>3, <1>h, <1>1, <1>0 DEF AddSplit
    <3>3. CASE i > 2
      <4>1. todo'[i] = todo[i - 1] /\ i - 1 \in 1 .. Len(todo)
        BY <3>3, <2>3, <1>h, <1>1, <1>0 DEF AddSplit
      <4> QED
        BY <4>1 DEF RangesFit
    <3> QED
      BY <3>1, <3>2, <3>3, <2>3, <1>0
  <2> QED
    BY <2>3, <2>4, <1>1 DEF AddSplit, TypeOK, OrderFits, links, flags
<1>2. CASE AddRange
  <2>1. todo[1][1] .. todo[1][2] - 1 \subseteq Page /\ todo[1][1] \in Nat
    BY <1>2, <1>h, <1>0 DEF AddRange, Page
  <2>2. /\ valid' \subseteq Page /\ high' \subseteq Page /\ pos' \in Nat
        /\ pc' = "add" /\ todo' = todo /\ todo # <<>> /\ pc = "boot"
    BY <2>1, <1>2, <1>h DEF AddRange, TypeOK
  <2> QED
    BY <2>2, <1>2 DEF AddRange, TypeOK, OrderFits, RangesFit, links
<1>3. CASE AddBlock
  <2> DEFINE k == IF /\ round_up(Head(todo)[1]) < round_down(Head(todo)[2])
                     /\ round_up(Head(todo)[1]) <= pos
                     /\ pos < round_down(Head(todo)[2])
                  THEN MaxOrder ELSE 0
  <2>1. pos \in Page
    BY <1>3, <1>h, <1>0 DEF AddBlock, Page, TypeOK
  <2>2. k \in Order /\ 2^k \in Nat
    <3>1. k \in {0, MaxOrder}
      OBVIOUS
    <3> HIDE DEF k
    <3>2. k \in Order
      BY <3>1, <1>0 DEF Order
    <3> QED
      BY <3>2, PowType
  <2>3. free_page(pos, k, order) /\ pos' = pos + 2^k
    BY <1>3 DEF AddBlock
  <2>4. /\ next' \in [Node -> Node] /\ prev' \in [Node -> Node]
        /\ order' = [order EXCEPT ![pos] = k]
        /\ order' \in [Page -> 0 .. MaxOrder + 1]
        /\ free' \subseteq Page /\ linked' \subseteq Page
    <3> HIDE DEF k
    <3>1. order \in [Page -> 0 .. MaxOrder + 1] /\ TypeOK
      BY DEF TypeOK
    <3> QED
      BY <2>1, <2>2, <2>3, <3>1, FreePageType
  <2>5. OrderFits'
    <3> HIDE DEF k
    <3>1. k <= MaxOrder
      BY <2>2, <1>0 DEF Order
    <3> QED
      BY <3>1, <2>1, <2>4, <1>3, <1>0 DEF OrderFits, AddBlock, TypeOK
  <2>6. pos' \in Nat
    <3> HIDE DEF k
    <3> QED
      BY <2>2, <2>3 DEF TypeOK
  <2> QED
    BY <2>4, <2>5, <2>6, <1>3 DEF AddBlock, TypeOK, RangesFit
<1>4. CASE AddDone
  <2>1. /\ todo' = Tail(todo) /\ todo # <<>>
    BY <1>4 DEF AddDone
  <2>2. RangesFit'
    BY <2>1, <1>h, <1>0 DEF RangesFit
  <2> QED
    BY <2>1, <2>2, <1>h, <1>4 DEF AddDone, TypeOK, OrderFits, links, flags
<1>5. CASE BootDone
  BY <1>5 DEF BootDone, TypeOK, OrderFits, RangesFit, links, flags
<1> QED
  BY <1>1, <1>2, <1>3, <1>4, <1>5 DEF Boot

LEMMA AllocTakeTypeInv ==
    ASSUME TypeInv, NEW z \in Zone, NEW o \in Order, AllocTake(z, o)
    PROVE  TypeInv'
<1> USE DEF TypeInv
<1>1. PICK i \in o .. MaxOrder :
        LET n == next[free_lists(z, i)] IN
          /\ list_remove(n) /\ linked' = linked \ {n}
          /\ \/ n \in Page /\ cur' = n /\ pc' = "split"
             \/ cur' = cur /\ pc' = "wild"
  BY DEF AllocTake
<1>2. i \in Order
  BY ConstAssumption DEF Order
<1> DEFINE n == next[free_lists(z, i)]
<1>3. n \in Node
  BY <1>2, HeadInNode DEF TypeOK
<1>4. next' \in [Node -> Node] /\ prev' \in [Node -> Node]
  BY <1>1, <1>3, RemoveType DEF TypeOK
<1>5. /\ cur' \in Page /\ linked' \subseteq Page /\ pc' \in {"split", "wild"}
      /\ pc' = "split" \/ cur' = cur
      /\ pc = "idle" /\ want' = o /\ mixed' \in Nat
      /\ UNCHANGED <<order, valid, free, high, todo, pos, held>>
  BY <1>1 DEF AllocTake, Begin, TypeOK, flags
<1>6. OrderFits'
  BY <1>5 DEF OrderFits
<1> QED
  BY <1>4, <1>5, <1>6 DEF TypeOK, RangesFit

LEMMA FreeStartTypeInv ==
    ASSUME TypeInv, NEW p \in Page, FreeStart(p)
    PROVE  TypeInv'
<1> USE DEF TypeInv
<1>1. held' \in [Page -> -1 .. MaxOrder]
  <2>1. -1 \in -1 .. MaxOrder
    BY ConstAssumption
  <2> QED
    BY <2>1 DEF FreeStart, TypeOK
<1>2. mixed' \in Nat /\ pc = "idle"
  BY DEF FreeStart, Begin, TypeOK
<1> QED
  BY <1>1, <1>2 DEF FreeStart, TypeOK, RangesFit, OrderFits, links, flags

LEMMA StepTypeInv == TypeInv /\ Step => TypeInv'
<1> SUFFICES ASSUME TypeInv, Step PROVE TypeInv'
  OBVIOUS
<1> USE DEF TypeInv
<1>0. /\ MaxOrder \in Nat /\ NPages \in Nat \ {0}
      /\ cur \in Page /\ order[cur] \in 0 .. MaxOrder + 1
      /\ 0 \in Page /\ 0 \in Order
  BY ConstAssumption DEF TypeOK, Page, Order
<1>1. CASE AllocSplit
  <2> DEFINE k == order[cur] - 1
             b == Buddy(cur, k)
             ord == [order EXCEPT ![cur] = k]
  <2>1. pc = "split" /\ order[cur] > want /\ want \in 0 .. MaxOrder
    BY <1>1 DEF AllocSplit, TypeOK, Order
  <2>2. order[cur] <= MaxOrder
    BY <2>1, <1>0 DEF OrderFits
  <2>3. k \in 0 .. MaxOrder - 1 /\ k \in Order /\ k \in 0 .. MaxOrder + 1
    BY <2>1, <2>2, <1>0 DEF Order
  <2>4. b \in Page
    BY <2>3, <1>0, BuddyInPage
  <2>5. ord \in [Page -> 0 .. MaxOrder + 1]
    BY <2>3, <1>0 DEF TypeOK
  <2>6. free_page(b, k, ord)
    BY <1>1 DEF AllocSplit
  <2>7. /\ next' \in [Node -> Node] /\ prev' \in [Node -> Node]
        /\ order' = [ord EXCEPT ![b] = k]
        /\ order' \in [Page -> 0 .. MaxOrder + 1]
        /\ free' \subseteq Page /\ linked' \subseteq Page
    <3> HIDE DEF k, b, ord
    <3> QED
      BY <2>3, <2>4, <2>5, <2>6, FreePageType
  <2>8. \A p \in Page : order'[p] <= MaxOrder
    <3>1. \A p \in Page : order[p] <= MaxOrder
      BY <2>1, <1>0 DEF OrderFits, TypeOK
    <3>2. k <= MaxOrder
      BY <2>3, <1>0
    <3> HIDE DEF b, k
    <3> QED
      BY <3>1, <3>2, <2>7, <1>0 DEF TypeOK
  <2>9. OrderFits'
    BY <2>8, <2>7, <1>0 DEF OrderFits
  <2> QED
    BY <2>7, <2>9, <1>1 DEF AllocSplit, TypeOK, RangesFit
<1>2. CASE AllocDone
  <2>1. held' \in [Page -> -1 .. MaxOrder]
    BY <1>2, <1>0 DEF AllocDone, TypeOK, Order
  <2>2. pc' = "idle" /\ cur' = 0 /\ want' = 0 /\ free' \subseteq Page /\ pc = "split"
    BY <1>2 DEF AllocDone, Return, TypeOK
  <2> QED
    BY <2>1, <2>2, <1>2, <1>0 DEF AllocDone, TypeOK, RangesFit, OrderFits, links
<1>3. CASE FreeMerge
  <2> DEFINE b == Buddy(cur, order[cur])
             p == IF b < cur THEN b ELSE cur
  <2>1. order[cur] < MaxOrder /\ pc = "merge"
    BY <1>3 DEF FreeMerge, CanMerge
  <2>2. b \in Page /\ b \in Node /\ p \in Page
    <3>1. order[cur] \in 0 .. MaxOrder - 1
      BY <2>1, <1>0
    <3>2. b \in Page
      BY <3>1, <1>0, BuddyInPage
    <3> HIDE DEF b
    <3> QED
      BY <3>2, <1>0 DEF Node
  <2>3. /\ list_remove(b) /\ linked' = linked \ {b} /\ cur' = p /\ mixed' \in Nat
        /\ order' = [order EXCEPT ![p] = order[p] + 1]
    BY <1>3 DEF FreeMerge, page_buddy, TypeOK
  <2> HIDE DEF b, p
  <2>4. next' \in [Node -> Node] /\ prev' \in [Node -> Node]
    BY <2>2, <2>3, RemoveType DEF TypeOK
  <2>5. \A q \in Page : order[q] \in 0 .. MaxOrder
    <3> SUFFICES ASSUME NEW q \in Page PROVE order[q] \in 0 .. MaxOrder
      OBVIOUS
    <3>1. order[q] \in 0 .. MaxOrder + 1
      BY DEF TypeOK
    <3>2. ~(order[q] > MaxOrder)
      BY <2>1, <1>0 DEF OrderFits
    <3> QED
      BY <3>1, <3>2, <1>0
  <2>6. order' \in [Page -> 0 .. MaxOrder + 1]
    <3>1. order[p] + 1 \in 0 .. MaxOrder + 1
      BY <2>2, <2>5, <1>0
    <3> QED
      BY <3>1, <2>2, <2>3 DEF TypeOK
  <2>7. OrderFits'
    BY <2>1, <2>2, <2>3, <2>5, <1>3, <1>0 DEF OrderFits, FreeMerge, TypeOK
  <2>8. linked' \subseteq Page /\ cur' \in Page
    BY <2>2, <2>3 DEF TypeOK
  <2> QED
    BY <2>3, <2>4, <2>6, <2>7, <2>8, <1>3 DEF FreeMerge, TypeOK, RangesFit, flags
<1>4. CASE FreeDone
  <2> DEFINE k == order[cur]
  <2>1. k \in Order /\ free_page(cur, k, order)
    BY <1>4, <1>0 DEF FreeDone, Order
  <2>2. TypeOK /\ order \in [Page -> 0 .. MaxOrder + 1]
    BY DEF TypeOK
  <2>3. /\ next' \in [Node -> Node] /\ prev' \in [Node -> Node]
        /\ order' = [order EXCEPT ![cur] = k]
        /\ order' \in [Page -> 0 .. MaxOrder + 1]
        /\ free' \subseteq Page /\ linked' \subseteq Page
    <3> HIDE DEF k
    <3> QED
      BY <2>1, <2>2, <1>0, FreePageType
  <2>4. pc' = "idle" /\ cur' = 0 /\ want' = 0
    BY <1>4 DEF FreeDone, Return
  <2>5. OrderFits'
    BY <2>1, <2>3, <2>4, <1>0 DEF OrderFits, TypeOK, Order
  <2> QED
    BY <2>3, <2>4, <2>5, <1>4, <1>0 DEF FreeDone, TypeOK, RangesFit
<1>5. CASE FreeWild
  BY <1>5 DEF FreeWild, TypeOK, RangesFit, OrderFits, links, flags
<1> QED
  BY <1>1, <1>2, <1>3, <1>4, <1>5 DEF Step

\* Whatever the memory map and the sequence of calls, the loops of alloc_pages,
\* free_pages and init_free_pages stay inside pages[] and, except on the step
\* into "wild", inside the arrays of list heads.
THEOREM TypeCorrect == Spec => []TypeOK
<1>1. Init => TypeInv
  BY InitTypeInv
<1>2. TypeInv /\ [Next]_vars => TypeInv'
  <2> SUFFICES ASSUME TypeInv, [Next]_vars PROVE TypeInv'
    OBVIOUS
  <2>1. CASE UNCHANGED vars
    BY <2>1 DEF TypeInv, TypeOK, RangesFit, OrderFits, vars
  <2>2. ASSUME NEW z \in Zone, NEW o \in Order, AllocNull(z, o) PROVE TypeInv'
    BY <2>2 DEF AllocNull, TypeInv, TypeOK, RangesFit, OrderFits, vars
  <2> QED
    BY <2>1, <2>2, BootTypeInv, StepTypeInv, AllocTakeTypeInv, FreeStartTypeInv DEF Next
<1>3. TypeInv => TypeOK
  BY DEF TypeInv
<1> QED
  BY <1>1, <1>2, <1>3, PTL DEF Spec

----------------------------------------------------------------------------
(* The blocks.  Partition is inductive with: blocks are aligned to their     *)
(* size; PAGE_FREE is set on the blocks in the lists and on none that is     *)
(* owned (others may keep it); the lists link the linked pages, each under   *)
(* the head of its order and zone, the later inserted before the earlier;    *)
(* and what is left to add at boot is not added yet.                         *)

Aligned(p, k) == \E c \in 0 .. p : p = c * 2^k
Span(p, k) == p .. p + 2^k - 1

\* The blocks B, of the orders ord, tile the pages V.
Tiles(B, ord, V) ==
    /\ \A p \in B : ord[p] \in Order /\ Aligned(p, ord[p]) /\ Span(p, ord[p]) \subseteq V
    /\ \A x \in V : \E p \in B : x \in Span(p, ord[p])
    /\ \A p, q \in B : p # q => Span(p, ord[p]) \cap Span(q, ord[q]) = {}

BlocksInv ==
    /\ Tiles(Blocks, order, valid \ Unadded)
    /\ linked \cap (Owned \cup Busy) = {} /\ Owned \cap Busy = {}

OwnersInv ==
    /\ \A p \in Owned : order[p] = held[p]
    /\ linked \subseteq free /\ Owned \cap free = {}
    /\ pc = "split" => want <= order[cur]
    /\ pc # "wild"

Listed == linked \cup ListHead

\* the head of the list a node is in
ListOf(n) == IF n \in Page THEN free_lists(ZoneOf(n), order[n]) ELSE n

\* The nodes in L are linked among themselves, back and forth, and h[n] is the
\* same along a list.
Chain(L, nx, pv, h) ==
    \A n \in L :
        /\ nx[n] \in L /\ pv[n] \in L
        /\ nx[pv[n]] = n /\ pv[nx[n]] = n
        /\ h[nx[n]] = h[n]

\* The time at which a page was inserted last falls along its list.
Stamped(P, nx) ==
    \E now \in Nat, stamp \in [Page -> Nat] :
        /\ \A p \in Page : stamp[p] < now
        /\ \A p \in P : nx[p] \in P => stamp[nx[p]] < stamp[p]

HeadOf == [n \in Node |-> ListOf(n)]
LinksInv == Chain(Listed, next, prev, HeadOf)

ZonesInv ==
    /\ high \subseteq valid
    /\ \A p \in valid : p \in high <=> p >= HighStart

RangesApart(r) ==
    \A i, j \in 1 .. Len(r) : i # j => r[i][2] <= r[j][1] \/ r[j][2] <= r[i][1]

BootInv ==
    /\ RangesApart(todo)
    /\ pc = "boot" => \A i \in 1 .. Len(todo) : \A p \in valid :
                        p < todo[i][1] \/ todo[i][2] <= p
    /\ pc = "add" =>
        /\ \A i \in 2 .. Len(todo) : \A p \in valid : p < todo[i][1] \/ todo[i][2] <= p
        /\ todo[1][1] <= pos /\ pos <= todo[1][2]
        /\ pos .. todo[1][2] - 1 \subseteq valid
        /\ LET s == round_up(todo[1][1])
               e == round_down(todo[1][2])
           IN  s <= pos /\ pos < e => Aligned(pos, MaxOrder)
    /\ pc \in {"boot", "add"} => Owned = {}

Core ==
    /\ BlocksInv /\ OwnersInv
    /\ LinksInv /\ Stamped(linked, next)
    /\ ZonesInv /\ BootInv

PartInv == TypeInv /\ (mixed = 0 => Core)

----------------------------------------------------------------------------
(* Arithmetic of blocks *)

LEMMA MulLess ==
    ASSUME NEW m \in Nat \ {0}, NEW a \in Int, NEW b \in Int, a * m < b * m
    PROVE  a < b /\ (a + 1) * m <= b * m
<1>1. a < b
  <2> SUFFICES ASSUME b <= a PROVE FALSE
    OBVIOUS
  <2>1. b * m <= a * m
    OBVIOUS
  <2> QED
    BY <2>1
<1>2. a + 1 <= b
  BY <1>1
<1>3. (a + 1) * m <= b * m
  BY <1>2
<1> QED
  BY <1>1, <1>3

LEMMA DivMul ==
    ASSUME NEW m \in Nat \ {0}, NEW c \in Nat
    PROVE  (c * m) \div m = c
<1> DEFINE q == (c * m) \div m
<1>1. q \in Int /\ q * m <= c * m /\ c * m < q * m + m
  OBVIOUS
<1> HIDE DEF q
<1>2. (q + 1) * m = q * m + m
  BY <1>1
<1>3. c < q + 1
  BY <1>1, <1>2, MulLess
<1>4. ~(c < q)
  <2> SUFFICES ASSUME c < q PROVE FALSE
    OBVIOUS
  <2>1. c + 1 <= q
    BY <1>1
  <2>2. (c + 1) * m <= q * m /\ (c + 1) * m = c * m + m
    BY <1>1, <2>1
  <2> QED
    BY <1>1, <2>2
<1>5. q = c
  BY <1>1, <1>3, <1>4
<1> QED
  BY <1>5 DEF q

LEMMA AlignedIff ==
    ASSUME NEW p \in Nat, NEW k \in 0 .. MaxOrder + 1
    PROVE  Aligned(p, k) <=> \E c \in Nat : p = c * 2^k
<1>1. 2^k \in Nat \ {0}
  BY PowerAssumption
<1>2. ASSUME NEW c \in Nat, p = c * 2^k PROVE c \in 0 .. p
  <2>1. c * 1 <= c * 2^k
    BY <1>1
  <2> QED
    BY <1>2, <2>1
<1>3. 0 .. p \subseteq Nat
  OBVIOUS
<1> QED
  BY <1>2, <1>3 DEF Aligned

\* The buddy of an aligned block is the other half of the block of twice its
\* size that contains it.
LEMMA BuddyHalf ==
    ASSUME NEW p \in Page, NEW k \in 0 .. MaxOrder - 1, Aligned(p, k),
           NEW b, b = Buddy(p, k), NEW lo, lo = IF b < p THEN b ELSE p
    PROVE  /\ b \in Page /\ lo \in Page /\ lo \in {p, b} /\ b # p
           /\ Aligned(b, k) /\ Aligned(lo, k + 1)
           /\ {p, b} = {lo, lo + 2^k}
<1> DEFINE m == 2^k
<1>1. /\ MaxOrder \in Nat /\ NPages \in Nat /\ p \in Nat
      /\ k \in Order /\ k \in 0 .. MaxOrder + 1 /\ k + 1 \in 0 .. MaxOrder + 1
      /\ m \in Nat \ {0} /\ 2^(k + 1) = 2 * m
  BY ConstAssumption, PowerAssumption DEF Order, Page
<1>2. b \in Page
  BY BuddyInPage
<1>3. PICK c \in Nat : p = c * m
  BY <1>1, AlignedIff
<1>4. p \div m = c
  BY <1>1, <1>3, DivMul
<1>5. CASE c % 2 = 0
  <2>1. b = p + m
    BY <1>4, <1>5 DEF Buddy
  <2>2. PICK h \in Nat : c = 2 * h
    BY <1>5
  <2>3. lo = p /\ b # p
    BY <1>1, <2>1
  <2>4. p = h * (2 * m) /\ b = (c + 1) * m
    BY <1>1, <1>3, <2>1, <2>2
  <2>5. Aligned(lo, k + 1)
    BY <1>1, <2>3, <2>4, AlignedIff
  <2>6. Aligned(b, k)
    <3>1. b \in Nat /\ c + 1 \in Nat
      BY <1>1, <2>1
    <3> QED
      BY <1>1, <2>4, <3>1, AlignedIff
  <2> QED
    BY <1>2, <2>1, <2>3, <2>5, <2>6
<1>6. CASE c % 2 # 0
  <2>1. b = p - m
    BY <1>4, <1>6 DEF Buddy
  <2>2. PICK h \in Nat : c = 2 * h + 1
    BY <1>6
  <2>3. lo = b /\ b # p /\ lo + m = p
    BY <1>1, <2>1
  <2>4. b = h * (2 * m) /\ b = (c - 1) * m
    BY <1>1, <1>3, <2>1, <2>2
  <2>5. b \in Nat
    BY <1>2, <1>1 DEF Page
  <2>6. Aligned(lo, k + 1)
    BY <1>1, <2>3, <2>4, <2>5, AlignedIff
  <2>7. Aligned(b, k)
    <3>1. c - 1 \in Nat
      BY <2>2
    <3> QED
      BY <1>1, <2>4, <2>5, <3>1, AlignedIff
  <2> QED
    BY <1>2, <2>3, <2>6, <2>7
<1> QED
  BY <1>5, <1>6

\* An aligned block's parts: the two halves, of which the upper is the buddy of
\* the lower.
LEMMA Halves ==
    ASSUME NEW p \in Page, NEW k \in 0 .. MaxOrder - 1, Aligned(p, k + 1)
    PROVE  /\ Buddy(p, k) = p + 2^k /\ p + 2^k \in Page
           /\ Aligned(p, k) /\ Aligned(p + 2^k, k)
<1> DEFINE m == 2^k
<1>1. /\ MaxOrder \in Nat /\ NPages \in Nat /\ p \in Nat
      /\ k \in Order /\ k \in 0 .. MaxOrder + 1 /\ k + 1 \in 0 .. MaxOrder + 1
      /\ m \in Nat \ {0} /\ 2^(k + 1) = 2 * m
  BY ConstAssumption, PowerAssumption DEF Order, Page
<1>2. PICK h \in Nat : p = h * (2 * m)
  <2>1. PICK h \in Nat : p = h * 2^(k + 1)
    BY <1>1, AlignedIff
  <2> QED
    BY <1>1, <2>1
<1>3. p = (2 * h) * m /\ 2 * h \in Nat /\ (2 * h) % 2 = 0
  BY <1>1, <1>2
<1>4. p \div m = 2 * h
  BY <1>1, <1>3, DivMul
<1>5. Buddy(p, k) = p + m
  BY <1>3, <1>4 DEF Buddy
<1>6. p + m \in Page
  BY <1>5, BuddyInPage
<1>7. Aligned(p, k)
  BY <1>1, <1>3, AlignedIff
<1>8. Aligned(p + m, k)
  <2>1. p + m = (2 * h + 1) * m /\ 2 * h + 1 \in Nat /\ p + m \in Nat
    BY <1>1, <1>3
  <2> QED
    BY <1>1, <2>1, AlignedIff
<1> QED
  BY <1>5, <1>6, <1>7, <1>8

LEMMA SpanHalves ==
    ASSUME NEW p \in Nat, NEW k \in Order
    PROVE  /\ Span(p, k + 1) = Span(p, k) \cup Span(p + 2^k, k)
           /\ Span(p, k) \cap Span(p + 2^k, k) = {}
           /\ p \in Span(p, k)
<1>1. 2^k \in Nat \ {0} /\ 2^(k + 1) = 2 * 2^k
  BY PowerAssumption, PowType
<1> QED
  BY <1>1 DEF Span

\* A block that contains the start of an aligned block at least as large starts
\* there.
LEMMA SmallBlock ==
    ASSUME NEW b \in Nat, NEW q \in Nat, NEW k \in Order, NEW j \in Order, j <= k,
           Aligned(b, k), Aligned(q, j), b \in Span(q, j)
    PROVE  b = q
<1>1. /\ MaxOrder \in Nat /\ k \in 0 .. MaxOrder + 1 /\ j \in 0 .. MaxOrder + 1
      /\ 2^k \in Nat \ {0} /\ 2^j \in Nat \ {0}
  BY ConstAssumption, PowType DEF Order
<1> DEFINE m == 2^j
<1>2. PICK c \in Nat : b = c * 2^k
  BY <1>1, AlignedIff
<1>3. PICK f \in Nat : 2^k = f * m
  BY <1>1, PowerAssumption
<1>4. PICK d \in Nat : q = d * m
  BY <1>1, AlignedIff
<1>5. b = (c * f) * m /\ c * f \in Nat
  BY <1>1, <1>2, <1>3
<1>6. d * m <= (c * f) * m /\ (c * f) * m < d * m + m
  BY <1>4, <1>5, <1>1 DEF Span
<1>7. (d + 1) * m = d * m + m
  BY <1>1
<1> DEFINE x == c * f
<1>8. x \in Nat /\ b = x * m /\ d * m <= x * m /\ x * m < (d + 1) * m
  BY <1>5, <1>6, <1>7
<1> HIDE DEF x, m
<1>a. m \in Nat \ {0}
  BY <1>1 DEF m
<1>9. x < d + 1
  BY <1>8, <1>a, MulLess
<1>10. ~(x < d)
  <2> SUFFICES ASSUME x < d PROVE FALSE
    OBVIOUS
  <2>1. x + 1 <= d
    BY <1>8
  <2>2. (x + 1) * m <= d * m /\ (x + 1) * m = x * m + m
    BY <1>8, <1>a, <2>1
  <2> QED
    BY <1>8, <1>a, <2>2
<1>11. x = d
  BY <1>8, <1>9, <1>10
<1> QED
  BY <1>4, <1>8, <1>11

\* A larger aligned block that contains one of two buddies contains both.
LEMMA LargeBlock ==
    ASSUME NEW lo \in Nat, NEW q \in Nat, NEW k \in 0 .. MaxOrder - 1, NEW j \in Order, k < j,
           Aligned(lo, k + 1), Aligned(q, j),
           lo \in Span(q, j) \/ lo + 2^k \in Span(q, j)
    PROVE  lo \in Span(q, j) /\ lo + 2^k \in Span(q, j)
<1> DEFINE m == 2 * 2^k
<1>1. /\ MaxOrder \in Nat /\ k + 1 \in 0 .. MaxOrder + 1 /\ j \in 0 .. MaxOrder + 1
      /\ k + 1 \in Order /\ k \in Order /\ k + 1 <= j
      /\ 2^k \in Nat \ {0} /\ 2^j \in Nat \ {0} /\ 2^(k + 1) = m /\ m \in Nat \ {0}
  BY ConstAssumption, PowType, PowerAssumption DEF Order
<1>2. PICK h \in Nat : lo = h * m
  <2>1. PICK h \in Nat : lo = h * 2^(k + 1)
    BY <1>1, AlignedIff
  <2> QED
    BY <1>1, <2>1
<1>3. PICK f \in Nat : 2^j = f * m
  <2>1. PICK f \in 0 .. 2^j : 2^j = f * 2^(k + 1)
    BY <1>1, PowerAssumption
  <2> QED
    BY <1>1, <2>1
<1>4. PICK d \in Nat : q = d * 2^j
  BY <1>1, AlignedIff
<1> DEFINE e == d * f
<1>5. q = e * m /\ e \in Nat
  BY <1>1, <1>3, <1>4
<1>6. q + 2^j = (e + f) * m /\ e + f \in Nat
  BY <1>1, <1>3, <1>5
<1>7. lo + m = (h + 1) * m
  BY <1>1, <1>2
<1>8. e * m < (h + 1) * m /\ h * m < (e + f) * m
  <2>1. q < lo + m /\ lo < q + 2^j
    BY <1>1 DEF Span
  <2> QED
    BY <2>1, <1>1, <1>2, <1>5, <1>6, <1>7
<1> HIDE DEF m, e
<1>9. (e + 1) * m <= (h + 1) * m /\ (h + 1) * m <= (e + f) * m
  BY <1>1, <1>5, <1>6, <1>8, MulLess
<1>10. (e + 1) * m = e * m + m
  BY <1>1, <1>5
<1>11. q <= lo /\ lo + m <= q + 2^j
  BY <1>1, <1>2, <1>5, <1>6, <1>7, <1>9, <1>10
<1>12. m = 2 * 2^k
  BY DEF m
<1> QED
  BY <1>1, <1>11, <1>12 DEF Span

----------------------------------------------------------------------------
(* Lists *)

\* The links after list_insert(c, n), and after list_remove(n)
Inserted(nx, pv, nx2, pv2, c, n) ==
    /\ nx2 = [nx EXCEPT ![n] = nx[c], ![c] = n]
    /\ pv2 = [pv EXCEPT ![nx[c]] = n, ![n] = c]
Removed(nx, pv, nx2, pv2, n) ==
    /\ nx2 = [nx EXCEPT ![pv[n]] = nx[n]]
    /\ pv2 = [pv EXCEPT ![nx[n]] = pv[n]]
Agree(f, g, S) == \A m \in S : f[m] = g[m]

LEMMA InsertChain ==
    ASSUME NEW L \in SUBSET Node, NEW nx \in [Node -> Node], NEW pv \in [Node -> Node],
           NEW h, Chain(L, nx, pv, h), NEW c \in L, NEW n \in Node, n \notin L,
           NEW nx2, NEW pv2, Inserted(nx, pv, nx2, pv2, c, n),
           NEW h2, h2[n] = h[c], Agree(h2, h, L)
    PROVE  Chain(L \cup {n}, nx2, pv2, h2)
<1>1. c \in Node /\ nx[c] \in L /\ nx[c] \in Node /\ n # c /\ n # nx[c]
  BY DEF Chain
<1>2. /\ nx2[n] = nx[c] /\ nx2[c] = n
      /\ \A m \in Node : m # n /\ m # c => nx2[m] = nx[m]
  BY <1>1 DEF Inserted
<1>3. /\ pv2[nx[c]] = n /\ pv2[n] = c
      /\ \A m \in Node : m # n /\ m # nx[c] => pv2[m] = pv[m]
  BY <1>1 DEF Inserted
<1>a. \A m \in L : h2[m] = h[m]
  BY DEF Agree
<1> SUFFICES ASSUME NEW m \in L \cup {n}
             PROVE  /\ nx2[m] \in L \cup {n} /\ pv2[m] \in L \cup {n}
                    /\ nx2[pv2[m]] = m /\ pv2[nx2[m]] = m
                    /\ h2[nx2[m]] = h2[m]
  BY DEF Chain
<1>4. CASE m = n
  <2>1. h[nx[c]] = h[c]
    BY DEF Chain
  <2> QED
    BY <1>1, <1>2, <1>3, <1>4, <1>a, <2>1
<1>5. CASE m # n
  <2>1. /\ m \in L /\ m \in Node /\ nx[m] \in L /\ pv[m] \in L /\ h[nx[m]] = h[m]
        /\ nx[pv[m]] = m /\ pv[nx[m]] = m /\ nx[m] # n /\ pv[m] # n
        /\ nx[m] \in Node /\ pv[m] \in Node
    BY <1>5 DEF Chain
  <2>2. pv[nx[c]] = c
    BY DEF Chain
  <2>3. nx2[m] \in L \cup {n} /\ h2[nx2[m]] = h2[m]
    BY <1>1, <1>2, <1>5, <1>a, <2>1
  <2>4. pv2[m] \in L \cup {n}
    BY <1>1, <1>3, <1>5, <2>1
  <2>5. nx2[pv2[m]] = m
    <3>1. CASE m = nx[c]
      BY <3>1, <1>2, <1>3
    <3>2. CASE m # nx[c]
      <4>1. pv2[m] = pv[m] /\ pv[m] # c
        BY <3>2, <1>3, <1>5, <2>1
      <4> QED
        BY <4>1, <1>2, <2>1
    <3> QED
      BY <3>1, <3>2
  <2>6. pv2[nx2[m]] = m
    <3>1. CASE m = c
      BY <3>1, <1>2, <1>3
    <3>2. CASE m # c
      <4>1. nx2[m] = nx[m] /\ nx[m] # nx[c]
        BY <3>2, <1>2, <1>5, <2>1, <2>2
      <4> QED
        BY <4>1, <1>3, <2>1
    <3> QED
      BY <3>1, <3>2
  <2> QED
    BY <2>3, <2>4, <2>5, <2>6
<1> QED
  BY <1>4, <1>5

LEMMA RemoveChain ==
    ASSUME NEW L \in SUBSET Node, NEW nx \in [Node -> Node], NEW pv \in [Node -> Node],
           NEW h, Chain(L, nx, pv, h), NEW n \in L,
           NEW nx2, NEW pv2, Removed(nx, pv, nx2, pv2, n),
           NEW h2, Agree(h2, h, L \ {n})
    PROVE  Chain(L \ {n}, nx2, pv2, h2)
<1>1. /\ n \in Node /\ nx[n] \in L /\ pv[n] \in L /\ h[nx[n]] = h[n]
      /\ nx[n] \in Node /\ pv[n] \in Node /\ nx[pv[n]] = n /\ pv[nx[n]] = n
      /\ h[nx[pv[n]]] = h[pv[n]]
  BY DEF Chain
<1>2. nx2[pv[n]] = nx[n] /\ \A m \in Node : m # pv[n] => nx2[m] = nx[m]
  BY <1>1 DEF Removed
<1>3. pv2[nx[n]] = pv[n] /\ \A m \in Node : m # nx[n] => pv2[m] = pv[m]
  BY <1>1 DEF Removed
<1>a. \A m \in L : m # n => h2[m] = h[m]
  BY DEF Agree
<1> SUFFICES ASSUME NEW m \in L, m # n
             PROVE  /\ nx2[m] \in L \ {n} /\ pv2[m] \in L \ {n}
                    /\ nx2[pv2[m]] = m /\ pv2[nx2[m]] = m
                    /\ h2[nx2[m]] = h2[m]
  BY DEF Chain
<1>4. /\ m \in Node /\ nx[m] \in L /\ pv[m] \in L /\ h[nx[m]] = h[m]
      /\ nx[pv[m]] = m /\ pv[nx[m]] = m /\ nx[m] \in Node /\ pv[m] \in Node
  BY DEF Chain
<1>5. CASE m = pv[n]
  <2>1. nx2[m] = nx[n] /\ nx[n] # n /\ pv2[nx[n]] = m
    BY <1>1, <1>2, <1>3, <1>5
  <2>2. h2[nx2[m]] = h2[m]
    BY <1>1, <1>5, <1>a, <2>1
  <2> QED
    <3>1. CASE m = nx[n]
      BY <3>1, <2>1, <2>2, <1>1, <1>5
    <3>2. CASE m # nx[n]
      <4>1. pv2[m] = pv[m] /\ pv[m] # n
        BY <3>2, <1>3, <1>4
      <4>2. pv[m] # pv[n]
        BY <1>1, <1>4
      <4> QED
        BY <4>1, <4>2, <1>1, <1>2, <1>4, <2>1, <2>2
    <3> QED
      BY <3>1, <3>2
<1>6. CASE m # pv[n]
  <2>1. nx2[m] = nx[m] /\ nx[m] # n /\ nx[m] # nx[n]
    BY <1>1, <1>2, <1>4, <1>6
  <2>2. pv2[nx[m]] = m /\ h2[nx[m]] = h2[m]
    BY <1>3, <1>4, <1>a, <2>1
  <2>3. CASE m = nx[n]
    <3>1. pv2[m] = pv[n] /\ pv[n] # n
      BY <2>3, <1>1, <1>3
    <3> QED
      BY <3>1, <2>1, <2>2, <2>3, <1>1, <1>2, <1>4
  <2>4. CASE m # nx[n]
    <3>1. pv2[m] = pv[m] /\ pv[m] # n /\ pv[m] # pv[n]
      BY <2>4, <1>1, <1>3, <1>4
    <3> QED
      BY <3>1, <2>1, <2>2, <1>2, <1>4
  <2> QED
    BY <2>3, <2>4
<1> QED
  BY <1>5, <1>6

LEMMA InsertStamped ==
    ASSUME NEW P \in SUBSET Page, NEW nx \in [Node -> Node], Stamped(P, nx),
           NEW c \in Node, c \notin Page, NEW n \in Page, n \notin P, nx[c] # n,
           \A p \in P : nx[p] # n,
           NEW nx2, nx2 = [nx EXCEPT ![n] = nx[c], ![c] = n]
    PROVE  Stamped(P \cup {n}, nx2)
<1>1. PICK now \in Nat, stamp \in [Page -> Nat] :
        /\ \A p \in Page : stamp[p] < now
        /\ \A p \in P : nx[p] \in P => stamp[nx[p]] < stamp[p]
  BY DEF Stamped
<1> DEFINE st == [stamp EXCEPT ![n] = now]
<1>2. /\ st \in [Page -> Nat] /\ st[n] = now
      /\ \A p \in Page : p # n => st[p] = stamp[p]
  OBVIOUS
<1> HIDE DEF st
<1>3. now + 1 \in Nat /\ \A p \in Page : st[p] < now + 1
  <2> SUFFICES ASSUME NEW p \in Page PROVE st[p] < now + 1
    OBVIOUS
  <2>1. stamp[p] < now /\ stamp[p] \in Nat
    BY <1>1
  <2> QED
    BY <1>2, <2>1
<1>4. /\ nx2[n] = nx[c] /\ n # c /\ n \in Node
      /\ \A m \in Node : m # n /\ m # c => nx2[m] = nx[m]
  BY DEF Node
<1>5. ASSUME NEW p \in P \cup {n}, nx2[p] \in P \cup {n} PROVE st[nx2[p]] < st[p]
  <2>1. CASE p = n
    BY <2>1, <1>1, <1>2, <1>4, <1>5
  <2>2. CASE p # n
    <3>1. p \in P /\ p \in Page /\ p \in Node /\ p # c
      BY <2>2 DEF Node
    <3>2. nx2[p] = nx[p] /\ nx[p] \in P /\ nx[p] # n
      BY <3>1, <2>2, <1>4, <1>5
    <3> QED
      BY <3>1, <3>2, <2>2, <1>1, <1>2
  <2> QED
    BY <2>1, <2>2
<1> QED
  BY <1>2, <1>3, <1>5 DEF Stamped

LEMMA RemoveStamped ==
    ASSUME NEW P \in SUBSET Page, NEW nx \in [Node -> Node], Stamped(P, nx),
           NEW a \in Node, NEW n \in P, nx[a] = n,
           NEW nx2, nx2 = [nx EXCEPT ![a] = nx[n]]
    PROVE  Stamped(P \ {n}, nx2)
<1>1. PICK now \in Nat, stamp \in [Page -> Nat] :
        /\ \A p \in Page : stamp[p] < now
        /\ \A p \in P : nx[p] \in P => stamp[nx[p]] < stamp[p]
  BY DEF Stamped
<1>2. nx2[a] = nx[n] /\ \A m \in Node : m # a => nx2[m] = nx[m]
  OBVIOUS
<1>3. ASSUME NEW p \in P, p # n, nx2[p] \in P, nx2[p] # n PROVE stamp[nx2[p]] < stamp[p]
  <2>1. p \in Node /\ p \in Page /\ n \in Page
    BY DEF Node
  <2>2. CASE p = a
    <3>1. nx2[p] = nx[n] /\ nx[p] = n
      BY <2>2, <1>2
    <3>2. stamp[n] < stamp[p] /\ stamp[nx[n]] < stamp[n]
      BY <3>1, <1>1, <1>3
    <3>3. stamp[n] \in Nat /\ stamp[p] \in Nat /\ stamp[nx[n]] \in Nat
      BY <2>1, <3>1, <1>3
    <3> QED
      BY <3>1, <3>2, <3>3
  <2>3. CASE p # a
    BY <2>3, <2>1, <1>1, <1>2, <1>3
  <2> QED
    BY <2>2, <2>3
<1> QED
  BY <1>1, <1>3 DEF Stamped

\* free_page puts a page that is in no list in front of one.
LEMMA FreePageLinks ==
    ASSUME TypeOK, LinksInv, Stamped(linked, next), high' = high,
           NEW p \in Page, p \notin linked, NEW k \in Order,
           NEW ord \in [Page -> 0 .. MaxOrder + 1], \A m \in linked : ord[m] = order[m],
           free_page(p, k, ord)
    PROVE  LinksInv' /\ Stamped(linked', next')
<1> DEFINE c == free_lists(ZoneOf(p), k)
<1>1. /\ next \in [Node -> Node] /\ prev \in [Node -> Node] /\ linked \subseteq Page
      /\ Listed \subseteq Node /\ p \in Node
  BY DEF TypeOK, Listed, Node
<1>2. c \in Node /\ c \notin Page /\ c \in Listed /\ p \notin Listed /\ p # c
  <2>1. c \in Node /\ c \notin Page
    BY HeadInNode, ZoneOfType
  <2>2. ListHead \cap Page = {}
    BY ConstAssumption DEF ListHead, Page
  <2> HIDE DEF c
  <2> QED
    BY <2>1, <2>2 DEF Listed, Node
<1>3. /\ next' = [next EXCEPT ![p] = next[c], ![c] = p]
      /\ prev' = [prev EXCEPT ![next[c]] = p, ![p] = c]
      /\ linked' = linked \cup {p} /\ Listed' = Listed \cup {p}
      /\ order' = [ord EXCEPT ![p] = k]
  BY DEF free_page, list_insert, Listed
<1>4. HeadOf'[p] = HeadOf[c]
  <2>1. HeadOf[c] = c
    BY <1>2 DEF HeadOf, ListOf
  <2>2. HeadOf'[p] = free_lists(ZoneOf(p), order'[p])
    BY <1>1 DEF HeadOf, ListOf, ZoneOf
  <2>3. order'[p] = k
    BY <1>3
  <2> QED
    BY <2>1, <2>2, <2>3
<1>5. \A m \in Listed : HeadOf'[m] = HeadOf[m]
  <2> SUFFICES ASSUME NEW m \in Listed PROVE HeadOf'[m] = HeadOf[m]
    OBVIOUS
  <2>1. CASE m \in Page
    <3>1. m \in linked
      BY <2>1, ConstAssumption DEF Listed, ListHead, Page
    <3>2. order'[m] = order[m]
      BY <3>1, <2>1, <1>3
    <3> QED
      BY <3>2, <2>1, <1>1 DEF HeadOf, ListOf, ZoneOf
  <2>2. CASE m \notin Page
    BY <2>2, <1>1 DEF HeadOf, ListOf
  <2> QED
    BY <2>1, <2>2
<1> HIDE DEF c
<1>6. Chain(Listed, next, prev, HeadOf)
  BY DEF LinksInv
<1>7. Chain(Listed \cup {p}, next', prev', HeadOf')
  <2>1. Inserted(next, prev, next', prev', c, p) /\ Agree(HeadOf', HeadOf, Listed)
    BY <1>3, <1>5 DEF Inserted, Agree
  <2> QED
    BY <1>1, <1>2, <1>4, <1>6, <2>1, InsertChain
<1>8. next[c] # p /\ \A m \in linked : next[m] # p
  BY <1>2, <1>6 DEF Chain, Listed
<1>9. Stamped(linked \cup {p}, next')
  BY <1>1, <1>2, <1>3, <1>8, InsertStamped
<1> QED
  BY <1>3, <1>7, <1>9 DEF LinksInv

\* list_remove takes one page out of its list.
LEMMA UnlinkLinks ==
    ASSUME TypeOK, LinksInv, Stamped(linked, next), high' = high,
           NEW n \in linked, list_remove(n), linked' = linked \ {n},
           \A m \in linked : m # n => order'[m] = order[m]
    PROVE  LinksInv' /\ Stamped(linked', next')
<1>1. /\ next \in [Node -> Node] /\ prev \in [Node -> Node] /\ linked \subseteq Page
      /\ Listed \subseteq Node /\ n \in Listed /\ n \in Node /\ prev[n] \in Node
  BY DEF TypeOK, Listed, Node
<1>2. /\ next' = [next EXCEPT ![prev[n]] = next[n]]
      /\ prev' = [prev EXCEPT ![next[n]] = prev[n]]
  BY DEF list_remove
<1>3. Listed' = Listed \ {n}
  BY <1>1, ConstAssumption DEF Listed, ListHead, Page
<1>4. \A m \in Listed : m # n => HeadOf'[m] = HeadOf[m]
  <2> SUFFICES ASSUME NEW m \in Listed, m # n PROVE HeadOf'[m] = HeadOf[m]
    OBVIOUS
  <2>1. CASE m \in Page
    <3>1. m \in linked
      BY <2>1, ConstAssumption DEF Listed, ListHead, Page
    <3> QED
      BY <3>1, <2>1, <1>1 DEF HeadOf, ListOf, ZoneOf
  <2>2. CASE m \notin Page
    BY <2>2, <1>1 DEF HeadOf, ListOf
  <2> QED
    BY <2>1, <2>2
<1>5. Chain(Listed, next, prev, HeadOf)
  BY DEF LinksInv
<1>6. Chain(Listed \ {n}, next', prev', HeadOf')
  <2>1. Removed(next, prev, next', prev', n) /\ Agree(HeadOf', HeadOf, Listed \ {n})
    BY <1>2, <1>4 DEF Removed, Agree
  <2> QED
    BY <1>1, <1>5, <2>1, RemoveChain
<1>7. next[prev[n]] = n
  BY <1>1, <1>5 DEF Chain
<1>8. Stamped(linked \ {n}, next')
  BY <1>1, <1>2, <1>7, RemoveStamped
<1> QED
  BY <1>3, <1>6, <1>8 DEF LinksInv

----------------------------------------------------------------------------
(* Tilings *)

LEMMA SpanStart ==
    ASSUME NEW p \in Nat, NEW k \in Order PROVE p \in Span(p, k)
<1>1. 2^k \in Nat \ {0}
  BY PowType
<1> QED
  BY <1>1 DEF Span

\* A page that starts a block is in no other.
LEMMA TilesStart ==
    ASSUME NEW B \in SUBSET Nat, NEW ord, NEW V, Tiles(B, ord, V), NEW p \in B, NEW q \in B,
           p \in Span(q, ord[q])
    PROVE  p = q
<1>1. ord[p] \in Order /\ p \in Nat
  BY DEF Tiles
<1>2. p \in Span(p, ord[p])
  BY <1>1, SpanStart
<1> QED
  BY <1>2 DEF Tiles

LEMMA TilesSplit ==
    ASSUME NEW B \in SUBSET Page, NEW ord, NEW V, Tiles(B, ord, V),
           NEW p \in B, NEW k \in 0 .. MaxOrder - 1, ord[p] = k + 1,
           NEW b, b = Buddy(p, k),
           NEW ord2, ord2[p] = k, ord2[b] = k, \A q \in B : q # p => ord2[q] = ord[q]
    PROVE  b \in Page /\ b \notin B /\ b # p /\ Tiles(B \cup {b}, ord2, V)
<1>1. /\ MaxOrder \in Nat /\ k \in Order /\ k + 1 \in Order /\ p \in Page /\ p \in Nat
      /\ 2^k \in Nat \ {0} /\ B \subseteq Nat
  BY ConstAssumption, PowType DEF Order, Page
<1>2. Aligned(p, k + 1) /\ Span(p, k + 1) \subseteq V
  BY DEF Tiles
<1>3. b = p + 2^k /\ b \in Page /\ Aligned(p, k) /\ Aligned(b, k) /\ b # p
  <2>1. Buddy(p, k) = p + 2^k /\ p + 2^k \in Page /\ Aligned(p, k) /\ Aligned(p + 2^k, k)
    BY <1>1, <1>2, Halves
  <2> QED
    BY <1>1, <2>1
<1>4. /\ Span(p, k + 1) = Span(p, k) \cup Span(b, k)
      /\ Span(p, k) \cap Span(b, k) = {} /\ b \in Span(b, k)
  <2>1. b \in Nat
    BY <1>1, <1>3
  <2> QED
    BY <1>1, <1>3, <2>1, SpanHalves, SpanStart
<1>5. b \notin B
  <2> SUFFICES ASSUME b \in B PROVE FALSE
    OBVIOUS
  <2>1. b \in Span(p, ord[p])
    BY <1>4
  <2> QED
    BY <1>1, <1>3, <2>1, TilesStart
<1>6. \A q \in B : q # p => ord2[q] = ord[q] /\ q # b
  BY <1>5
<1>7. \A q \in B \cup {b} : /\ ord2[q] \in Order /\ Aligned(q, ord2[q])
                            /\ Span(q, ord2[q]) \subseteq V
  <2> SUFFICES ASSUME NEW q \in B \cup {b}
               PROVE  ord2[q] \in Order /\ Aligned(q, ord2[q]) /\ Span(q, ord2[q]) \subseteq V
    OBVIOUS
  <2>1. CASE q = p \/ q = b
    BY <2>1, <1>1, <1>2, <1>3, <1>4
  <2>2. CASE q # p /\ q # b
    BY <2>2, <1>6 DEF Tiles
  <2> QED
    BY <2>1, <2>2
<1>8. \A x \in V : \E q \in B \cup {b} : x \in Span(q, ord2[q])
  <2> SUFFICES ASSUME NEW x \in V PROVE \E q \in B \cup {b} : x \in Span(q, ord2[q])
    OBVIOUS
  <2>1. PICK q \in B : x \in Span(q, ord[q])
    BY DEF Tiles
  <2>2. CASE q = p
    BY <2>1, <2>2, <1>4
  <2>3. CASE q # p
    BY <2>1, <2>3, <1>6
  <2> QED
    BY <2>2, <2>3
<1>9. ASSUME NEW q \in B \cup {b}, NEW r \in B \cup {b}, q # r
      PROVE  Span(q, ord2[q]) \cap Span(r, ord2[r]) = {}
  <2>1. \A s \in B : s # p => Span(s, ord[s]) \cap Span(p, k + 1) = {}
    BY DEF Tiles
  <2>2. \A s \in B : s # p => /\ Span(s, ord2[s]) \cap Span(p, k) = {}
                              /\ Span(s, ord2[s]) \cap Span(b, k) = {}
    BY <2>1, <1>4, <1>6
  <2>3. CASE q \in {p, b} /\ r \in {p, b}
    BY <2>3, <1>4, <1>9
  <2>4. CASE q \in {p, b} /\ r \notin {p, b}
    BY <2>4, <2>2
  <2>5. CASE q \notin {p, b} /\ r \in {p, b}
    BY <2>5, <2>2
  <2>6. CASE q \notin {p, b} /\ r \notin {p, b}
    <3>1. ord2[q] = ord[q] /\ ord2[r] = ord[r] /\ q \in B /\ r \in B
      BY <2>6, <1>6
    <3> QED
      BY <3>1, <1>9 DEF Tiles
  <2> QED
    BY <2>3, <2>4, <2>5, <2>6
<1> QED
  BY <1>3, <1>5, <1>7, <1>8, <1>9 DEF Tiles

\* The buddy of a block, if it is a page of the tiling, starts a block too.
LEMMA TilesBuddy ==
    ASSUME NEW B \in SUBSET Page, NEW ord, NEW V, Tiles(B, ord, V),
           NEW p \in B, NEW k \in 0 .. MaxOrder - 1, ord[p] = k,
           NEW b, b = Buddy(p, k), b \in V
    PROVE  b \in B /\ b # p
<1>1. /\ MaxOrder \in Nat /\ k \in Order /\ p \in Page /\ p \in Nat
      /\ 2^k \in Nat \ {0} /\ B \subseteq Nat /\ Aligned(p, k) /\ Page \subseteq Nat
  BY ConstAssumption, PowType DEF Order, Page, Tiles
<1> DEFINE lo == IF b < p THEN b ELSE p
<1>2. /\ b \in Page /\ lo \in Page /\ b # p
      /\ Aligned(b, k) /\ Aligned(lo, k + 1) /\ {p, b} = {lo, lo + 2^k}
  BY <1>1, BuddyHalf
<1> HIDE DEF lo
<1>3. PICK q \in B : b \in Span(q, ord[q])
  BY DEF Tiles
<1>4. q \in Nat /\ ord[q] \in Order /\ Aligned(q, ord[q])
  BY <1>1 DEF Tiles
<1>5. CASE ord[q] <= k
  <2>1. b = q
    BY <1>1, <1>2, <1>3, <1>4, <1>5, SmallBlock
  <2> QED
    BY <1>2, <2>1
<1>6. CASE k < ord[q]
  <2>1. lo \in Nat /\ b \in {lo, lo + 2^k} /\ p \in {lo, lo + 2^k}
    BY <1>1, <1>2
  <2>2. lo \in Span(q, ord[q]) /\ lo + 2^k \in Span(q, ord[q])
    <3>1. lo \in Span(q, ord[q]) \/ lo + 2^k \in Span(q, ord[q])
      BY <1>3, <2>1
    <3> QED
      BY <1>2, <1>4, <1>6, <2>1, <3>1, LargeBlock
  <2>3. p \in Span(q, ord[q])
    BY <2>1, <2>2
  <2>4. p = q
    BY <1>1, <2>3, TilesStart
  <2> QED
    BY <1>1, <1>6, <2>4
<1> QED
  BY <1>1, <1>4, <1>5, <1>6 DEF Order

LEMMA TilesMerge ==
    ASSUME NEW B \in SUBSET Page, NEW ord, NEW V, Tiles(B, ord, V),
           NEW p \in B, NEW k \in 0 .. MaxOrder - 1, ord[p] = k,
           NEW b \in B, b = Buddy(p, k), ord[b] = k,
           NEW lo, lo = IF b < p THEN b ELSE p,
           NEW ord2, ord2[lo] = k + 1, \A q \in B : q # lo => ord2[q] = ord[q]
    PROVE  lo \in {p, b} /\ b # p /\ Tiles((B \ {p, b}) \cup {lo}, ord2, V)
<1>1. /\ MaxOrder \in Nat /\ k \in Order /\ k + 1 \in Order /\ p \in Page /\ p \in Nat
      /\ 2^k \in Nat \ {0} /\ B \subseteq Nat /\ Aligned(p, k) /\ Page \subseteq Nat
  BY ConstAssumption, PowType DEF Order, Page, Tiles
<1>2. /\ lo \in Page /\ b # p /\ lo \in {p, b}
      /\ Aligned(lo, k + 1) /\ {p, b} = {lo, lo + 2^k}
  BY <1>1, BuddyHalf
<1>3. Span(lo, k + 1) = Span(p, k) \cup Span(b, k)
  <2>1. Span(lo, k + 1) = Span(lo, k) \cup Span(lo + 2^k, k)
    BY <1>1, <1>2, SpanHalves
  <2>2. (p = lo /\ b = lo + 2^k) \/ (b = lo /\ p = lo + 2^k)
    BY <1>2
  <2> QED
    BY <2>1, <2>2
<1> DEFINE C == (B \ {p, b}) \cup {lo}
<1>4. \A q \in C : q = lo \/ (q \in B /\ q # p /\ q # b /\ ord2[q] = ord[q])
  BY <1>2
<1>5. \A q \in C : ord2[q] \in Order /\ Aligned(q, ord2[q]) /\ Span(q, ord2[q]) \subseteq V
  <2> SUFFICES ASSUME NEW q \in C
               PROVE  ord2[q] \in Order /\ Aligned(q, ord2[q]) /\ Span(q, ord2[q]) \subseteq V
    OBVIOUS
  <2>1. CASE q = lo
    <3>1. Span(p, k) \subseteq V /\ Span(b, k) \subseteq V
      BY DEF Tiles
    <3> QED
      BY <2>1, <3>1, <1>1, <1>2, <1>3
  <2>2. CASE q # lo
    BY <2>2, <1>4 DEF Tiles
  <2> QED
    BY <2>1, <2>2
<1>6. \A x \in V : \E q \in C : x \in Span(q, ord2[q])
  <2> SUFFICES ASSUME NEW x \in V PROVE \E q \in C : x \in Span(q, ord2[q])
    OBVIOUS
  <2>1. PICK q \in B : x \in Span(q, ord[q])
    BY DEF Tiles
  <2>2. CASE q \in {p, b}
    <3>1. x \in Span(lo, ord2[lo])
      BY <2>1, <2>2, <1>3
    <3> QED
      BY <3>1
  <2>3. CASE q \notin {p, b}
    <3>1. q \in C /\ ord2[q] = ord[q]
      BY <2>3, <1>2
    <3> QED
      BY <2>1, <3>1
  <2> QED
    BY <2>2, <2>3
<1>7. ASSUME NEW q \in C, NEW r \in C, q # r
      PROVE  Span(q, ord2[q]) \cap Span(r, ord2[r]) = {}
  <2>1. \A s \in B : s # p /\ s # b => Span(s, ord[s]) \cap Span(lo, k + 1) = {}
    <3> SUFFICES ASSUME NEW s \in B, s # p, s # b
                 PROVE  Span(s, ord[s]) \cap Span(lo, k + 1) = {}
      OBVIOUS
    <3>1. Span(s, ord[s]) \cap Span(p, k) = {} /\ Span(s, ord[s]) \cap Span(b, k) = {}
      BY DEF Tiles
    <3> QED
      BY <3>1, <1>3
  <2>2. CASE q = lo
    BY <2>1, <2>2, <1>4, <1>7
  <2>3. CASE r = lo
    BY <2>1, <2>3, <1>4, <1>7
  <2>4. CASE q # lo /\ r # lo
    BY <2>4, <1>4, <1>7 DEF Tiles
  <2> QED
    BY <2>2, <2>3, <2>4
<1>8. Tiles(C, ord2, V)
  BY <1>5, <1>6, <1>7 DEF Tiles
<1> QED
  BY <1>2, <1>8

LEMMA TilesAdd ==
    ASSUME NEW B \in SUBSET Page, NEW ord, NEW V, Tiles(B, ord, V),
           NEW p \in Page, NEW k \in Order, Aligned(p, k), Span(p, k) \cap V = {},
           NEW W, W = V \cup Span(p, k),
           NEW ord2, ord2[p] = k, \A q \in B : q # p => ord2[q] = ord[q]
    PROVE  p \notin B /\ Tiles(B \cup {p}, ord2, W)
<1>1. p \in Nat /\ B \subseteq Nat /\ p \in Span(p, k)
  BY SpanStart, ConstAssumption DEF Page
<1>2. \A q \in B : q \in V
  <2> SUFFICES ASSUME NEW q \in B PROVE q \in V
    OBVIOUS
  <2>1. q \in Nat /\ ord[q] \in Order /\ Span(q, ord[q]) \subseteq V
    BY <1>1 DEF Tiles
  <2>2. q \in Span(q, ord[q])
    BY <2>1, SpanStart
  <2> QED
    BY <2>1, <2>2
<1>3. p \notin B
  BY <1>1, <1>2
<1>4. \A q \in B : ord2[q] = ord[q]
  BY <1>3
<1>5. \A q \in B \cup {p} : /\ ord2[q] \in Order /\ Aligned(q, ord2[q])
                            /\ Span(q, ord2[q]) \subseteq W
  BY <1>4 DEF Tiles
<1>6. \A x \in W : \E q \in B \cup {p} : x \in Span(q, ord2[q])
  BY <1>4 DEF Tiles
<1>7. ASSUME NEW q \in B \cup {p}, NEW r \in B \cup {p}, q # r
      PROVE  Span(q, ord2[q]) \cap Span(r, ord2[r]) = {}
  <2>1. \A s \in B : Span(s, ord2[s]) \cap Span(p, k) = {}
    BY <1>4 DEF Tiles
  <2>2. CASE q = p
    BY <2>1, <2>2, <1>7
  <2>3. CASE r = p
    BY <2>1, <2>3, <1>7
  <2>4. CASE q # p /\ r # p
    BY <2>4, <1>4, <1>7 DEF Tiles
  <2> QED
    BY <2>2, <2>3, <2>4
<1> QED
  BY <1>3, <1>5, <1>6, <1>7 DEF Tiles

----------------------------------------------------------------------------
(* Steps *)

LEMMA CoreFacts ==
    ASSUME TypeInv, Core
    PROVE  /\ Blocks \subseteq Page /\ linked \subseteq Page /\ Owned \subseteq Page
           /\ cur \in Page /\ Listed \subseteq Node /\ next \in [Node -> Node]
           /\ order \in [Page -> 0 .. MaxOrder + 1] /\ free \subseteq Page
           /\ \A p \in Blocks : order[p] \in Order
           /\ MaxOrder \in Nat /\ Order \subseteq Nat /\ Page \subseteq Nat
<1>1. /\ linked \subseteq Page /\ Owned \subseteq Page /\ cur \in Page /\ free \subseteq Page
      /\ next \in [Node -> Node] /\ order \in [Page -> 0 .. MaxOrder + 1]
  BY DEF TypeInv, TypeOK, Owned
<1>2. Blocks \subseteq Page /\ Listed \subseteq Node
  BY <1>1 DEF Blocks, Busy, Listed, Node
<1>3. \A p \in Blocks : order[p] \in Order
  BY DEF Core, BlocksInv, Tiles
<1>4. MaxOrder \in Nat /\ Order \subseteq Nat /\ Page \subseteq Nat
  BY ConstAssumption DEF Order, Page
<1> QED
  BY <1>1, <1>2, <1>3, <1>4

LEMMA HeadsDiffer ==
    ASSUME NEW z \in Zone, NEW y \in Zone, NEW i \in Order, NEW j \in Order,
           free_lists(z, i) = free_lists(y, j)
    PROVE  z = y /\ i = j
BY ConstAssumption DEF Zone, Order, free_lists

\* The first node of a free list that is not empty is a free block of the list's
\* order.
LEMMA FirstBlock ==
    ASSUME TypeInv, Core, NEW z \in Zone, NEW i \in Order, ~list_empty(free_lists(z, i)),
           NEW n, n = next[free_lists(z, i)]
    PROVE  n \in linked /\ n \in Page /\ order[n] = i
<1> DEFINE c == free_lists(z, i)
<1>1. c \in Node /\ c \notin Page
  BY HeadInNode
<1>2. c \in Listed /\ c \in Node
  BY <1>1 DEF Listed, Node
<1>3. n \in Listed /\ HeadOf[n] = HeadOf[c] /\ n # c
  BY <1>2 DEF Core, LinksInv, Chain, list_empty
<1>4. HeadOf[c] = c /\ HeadOf[n] = ListOf(n)
  BY <1>1, <1>3, CoreFacts DEF HeadOf, ListOf
<1>5. n \in Page
  <2> SUFFICES ASSUME n \notin Page PROVE FALSE
    OBVIOUS
  <2> QED
    BY <1>3, <1>4 DEF ListOf
<1>6. n \in linked
  BY <1>3, <1>5, ConstAssumption DEF Listed, ListHead, Page
<1>7. free_lists(ZoneOf(n), order[n]) = free_lists(z, i)
  BY <1>3, <1>4, <1>5 DEF ListOf
<1>8. order[n] \in Order /\ ZoneOf(n) \in Zone
  BY <1>6, CoreFacts, ZoneOfType DEF Blocks
<1> QED
  BY <1>5, <1>6, <1>7, <1>8, HeadsDiffer

LEMMA AllocTakeCore ==
    ASSUME TypeInv, Core, NEW z \in Zone, NEW o \in Order, AllocTake(z, o)
    PROVE  Core'
<1>1. PICK i \in o .. MaxOrder :
        LET n == next[free_lists(z, i)] IN
          /\ ~list_empty(free_lists(z, i))
          /\ list_remove(n) /\ linked' = linked \ {n}
          /\ IF n \in Page THEN cur' = n /\ pc' = "split"
                           ELSE cur' = cur /\ pc' = "wild"
  BY DEF AllocTake
<1> DEFINE n == next[free_lists(z, i)]
<1>2. i \in Order /\ o <= i
  BY ConstAssumption DEF Order
<1>3. n \in linked /\ n \in Page /\ order[n] = i
  BY <1>1, <1>2, FirstBlock
<1> HIDE DEF n
<1>4. /\ list_remove(n) /\ linked' = linked \ {n} /\ cur' = n /\ pc' = "split"
      /\ pc = "idle" /\ want' = o
      /\ UNCHANGED <<order, valid, free, high, todo, pos, held>>
  BY <1>1, <1>3 DEF AllocTake, Begin, flags, n
<1>5. Owned' = Owned /\ Busy = {} /\ Busy' = {n} /\ Unadded = {} /\ Unadded' = {}
  BY <1>4 DEF Owned, Busy, Unadded
<1>6. Blocks' = Blocks
  BY <1>3, <1>4, <1>5 DEF Blocks
<1>7. BlocksInv'
  <2>1. Tiles(Blocks', order', valid' \ Unadded')
    BY <1>4, <1>5, <1>6 DEF Core, BlocksInv
  <2>2. linked' \cap (Owned' \cup Busy') = {} /\ Owned' \cap Busy' = {}
    BY <1>3, <1>4, <1>5 DEF Core, BlocksInv
  <2> QED
    BY <2>1, <2>2 DEF BlocksInv
<1>8. OwnersInv'
  BY <1>2, <1>3, <1>4, <1>5 DEF Core, OwnersInv
<1>9. LinksInv' /\ Stamped(linked', next')
  BY <1>3, <1>4, UnlinkLinks DEF Core, TypeInv
<1>10. ZonesInv' /\ BootInv'
  BY <1>4 DEF Core, ZonesInv, BootInv
<1> QED
  BY <1>7, <1>8, <1>9, <1>10 DEF Core

LEMMA FreeStartCore ==
    ASSUME TypeInv, Core, NEW p \in Page, FreeStart(p)
    PROVE  Core'
<1>1. /\ pc = "idle" /\ held[p] # -1 /\ held' = [held EXCEPT ![p] = -1]
      /\ cur' = p /\ pc' = "merge"
      /\ UNCHANGED <<next, prev, order, valid, free, high, todo, pos, want, linked>>
  BY DEF FreeStart, Begin, links, flags
<1>2. /\ Owned' = Owned \ {p} /\ p \in Owned /\ Busy = {} /\ Busy' = {p}
      /\ Unadded = {} /\ Unadded' = {}
  BY <1>1 DEF TypeInv, TypeOK, Owned, Busy, Unadded
<1>3. Blocks' = Blocks
  BY <1>1, <1>2 DEF Blocks
<1>4. BlocksInv'
  <2>1. Tiles(Blocks', order', valid' \ Unadded')
    BY <1>1, <1>2, <1>3 DEF Core, BlocksInv
  <2>2. linked' \cap (Owned' \cup Busy') = {} /\ Owned' \cap Busy' = {}
    BY <1>1, <1>2 DEF Core, BlocksInv
  <2> QED
    BY <2>1, <2>2 DEF BlocksInv
<1>5. OwnersInv'
  <2>1. \A q \in Owned' : order'[q] = held'[q]
    BY <1>1, <1>2 DEF Core, OwnersInv, TypeInv, TypeOK, Owned
  <2> QED
    BY <2>1, <1>1, <1>2 DEF Core, OwnersInv
<1>6. LinksInv' /\ Stamped(linked', next')
  <2>1. Listed' = Listed /\ HeadOf' = HeadOf
    BY <1>1 DEF Listed, HeadOf, ListOf, ZoneOf
  <2> QED
    BY <1>1, <2>1 DEF Core, LinksInv
<1>7. ZonesInv' /\ BootInv'
  BY <1>1 DEF Core, ZonesInv, BootInv
<1> QED
  BY <1>4, <1>5, <1>6, <1>7 DEF Core

LEMMA AllocSplitCore == ASSUME TypeInv, Core, AllocSplit PROVE Core'
<1> DEFINE k == order[cur] - 1
           b == Buddy(cur, k)
           ord == [order EXCEPT ![cur] = k]
<1>1. /\ pc = "split" /\ order[cur] > want /\ free_page(b, k, ord)
      /\ UNCHANGED <<valid, high, todo, pos, pc, cur, want, held>>
  BY DEF AllocSplit
<1>2. cur \in Blocks /\ Busy = {cur} /\ cur \notin linked /\ cur \notin Owned
  BY <1>1 DEF Blocks, Busy, Core, BlocksInv
<1>3. /\ order[cur] \in Order /\ want \in Order /\ k \in 0 .. MaxOrder - 1 /\ k \in Order
      /\ order[cur] = k + 1 /\ want <= k
  <2>1. order[cur] \in Order /\ want \in Order
    BY <1>2, CoreFacts DEF TypeInv, TypeOK
  <2> QED
    BY <1>1, <2>1, CoreFacts DEF Order
<1>4. /\ order' = [ord EXCEPT ![b] = k] /\ free' = free \cup {b}
      /\ linked' = linked \cup {b}
  BY <1>1 DEF free_page
<1>5. /\ ord \in [Page -> 0 .. MaxOrder + 1] /\ ord[cur] = k
      /\ \A q \in Page : q # cur => ord[q] = order[q]
  BY <1>3, CoreFacts
<1> HIDE DEF k, ord
<1>6. b \in Page
  BY <1>3, CoreFacts, BuddyInPage
<1>7. b = Buddy(cur, k)
  OBVIOUS
<1> HIDE DEF b
<1>8. order'[b] = k /\ \A q \in Page : q # b => order'[q] = ord[q]
  BY <1>4, <1>5, <1>6
<1>9. order'[cur] = k /\ \A q \in Blocks : q # cur /\ q # b => order'[q] = order[q]
  BY <1>5, <1>8, CoreFacts
<1>10. Unadded = {} /\ Unadded' = {} /\ Tiles(Blocks, order, valid)
  BY <1>1 DEF Unadded, Core, BlocksInv
<1>11. b \notin Blocks /\ b # cur
  <2> DEFINE ord2 == [q \in Page |-> IF q = cur \/ q = b THEN k ELSE order[q]]
  <2>1. ord2[cur] = k /\ ord2[b] = k /\ \A q \in Page : q # cur /\ q # b => ord2[q] = order[q]
    BY <1>6, CoreFacts
  <2>2. Aligned(cur, k + 1)
    BY <1>2, <1>3, <1>10 DEF Tiles
  <2>3. b = cur + 2^k
    BY <1>3, <1>7, <2>2, CoreFacts, Halves
  <2>4. b \in Span(cur, order[cur]) /\ b # cur
    <3>1. 2^k \in Nat \ {0} /\ 2^(k + 1) = 2 * 2^k
      BY <1>3, PowType, PowerAssumption
    <3> QED
      BY <1>3, <2>3, <3>1, CoreFacts DEF Span
  <2>5. b \notin Blocks
    <3> SUFFICES ASSUME b \in Blocks PROVE FALSE
      OBVIOUS
    <3>1. Blocks \in SUBSET Nat
      BY CoreFacts
    <3> QED
      BY <1>2, <1>10, <2>4, <3>1, TilesStart
  <2> QED
    BY <2>4, <2>5
<1>12. \A q \in Blocks : q # cur => order'[q] = order[q]
  BY <1>9, <1>11
<1>13. Tiles(Blocks \cup {b}, order', valid)
  <2>1. Blocks \in SUBSET Page
    BY CoreFacts
  <2> QED
    BY <1>2, <1>3, <1>7, <1>8, <1>9, <1>10, <1>12, <2>1, TilesSplit
<1>14. Owned' = Owned /\ Busy' = {cur} /\ Blocks' = Blocks \cup {b}
  BY <1>1, <1>2, <1>4 DEF Owned, Busy, Blocks
<1>15. BlocksInv'
  <2>1. Tiles(Blocks', order', valid' \ Unadded')
    BY <1>1, <1>10, <1>13, <1>14
  <2>2. linked' \cap (Owned' \cup Busy') = {} /\ Owned' \cap Busy' = {}
    BY <1>2, <1>4, <1>11, <1>14 DEF Core, BlocksInv, Blocks
  <2> QED
    BY <2>1, <2>2 DEF BlocksInv
<1>16. OwnersInv'
  <2>1. \A q \in Owned : q \in Blocks /\ q # cur /\ q # b
    BY <1>2, <1>11 DEF Blocks
  <2> QED
    BY <1>1, <1>3, <1>4, <1>9, <1>14, <2>1 DEF Core, OwnersInv
<1>17. LinksInv' /\ Stamped(linked', next')
  <2>1. \A m \in linked : ord[m] = order[m]
    BY <1>2, <1>5, CoreFacts
  <2>2. b \notin linked
    BY <1>11 DEF Blocks
  <2> QED
    BY <1>1, <1>3, <1>5, <1>6, <2>1, <2>2, FreePageLinks DEF Core, TypeInv
<1>18. ZonesInv' /\ BootInv'
  BY <1>1 DEF Core, ZonesInv, BootInv
<1> QED
  BY <1>15, <1>16, <1>17, <1>18 DEF Core

LEMMA AllocDoneCore == ASSUME TypeInv, Core, AllocDone PROVE Core'
<1>1. /\ pc = "split" /\ order[cur] <= want /\ free' = free \ {cur}
      /\ held' = [held EXCEPT ![cur] = want] /\ pc' = "idle"
      /\ UNCHANGED <<next, prev, order, valid, high, todo, pos, linked>>
  BY DEF AllocDone, Return, links
<1>2. cur \in Blocks /\ Busy = {cur} /\ cur \notin linked /\ cur \notin Owned
  BY <1>1 DEF Blocks, Busy, Core, BlocksInv
<1>3. order[cur] = want /\ want # -1
  <2>1. order[cur] \in Order /\ want \in Order /\ want <= order[cur]
    BY <1>1, <1>2, CoreFacts DEF TypeInv, TypeOK, Core, OwnersInv
  <2> QED
    BY <1>1, <2>1, CoreFacts
<1>4. /\ Owned' = Owned \cup {cur} /\ Busy' = {} /\ Unadded = {} /\ Unadded' = {}
      /\ Blocks' = Blocks
  BY <1>1, <1>2, <1>3, CoreFacts DEF Owned, Busy, Unadded, Blocks, TypeInv, TypeOK
<1>5. BlocksInv'
  <2>1. Tiles(Blocks', order', valid' \ Unadded')
    BY <1>1, <1>4 DEF Core, BlocksInv
  <2>2. linked' \cap (Owned' \cup Busy') = {} /\ Owned' \cap Busy' = {}
    BY <1>1, <1>2, <1>4 DEF Core, BlocksInv
  <2> QED
    BY <2>1, <2>2 DEF BlocksInv
<1>6. OwnersInv'
  <2>1. \A q \in Owned' : order'[q] = held'[q]
    BY <1>1, <1>3, <1>4, CoreFacts DEF Core, OwnersInv, TypeInv, TypeOK, Owned
  <2> QED
    BY <2>1, <1>1, <1>2, <1>4 DEF Core, OwnersInv
<1>7. LinksInv' /\ Stamped(linked', next')
  <2>1. Listed' = Listed /\ HeadOf' = HeadOf
    BY <1>1 DEF Listed, HeadOf, ListOf, ZoneOf
  <2> QED
    BY <1>1, <2>1 DEF Core, LinksInv
<1>8. ZonesInv' /\ BootInv'
  BY <1>1 DEF Core, ZonesInv, BootInv
<1> QED
  BY <1>5, <1>6, <1>7, <1>8 DEF Core

LEMMA FreeMergeCore == ASSUME TypeInv, Core, FreeMerge, mixed' = 0 PROVE Core'
<1> DEFINE k == order[cur]
           b == Buddy(cur, k)
           lo == IF b < cur THEN b ELSE cur
<1>1. /\ pc = "merge" /\ k < MaxOrder /\ b \in valid /\ b \in free
      /\ list_remove(b) /\ linked' = linked \ {b} /\ cur' = lo
      /\ order' = [order EXCEPT ![lo] = @ + 1]
      /\ UNCHANGED <<valid, free, high, todo, pos, pc, want, held>>
  BY DEF FreeMerge, CanMerge, page_buddy, flags
<1>2. order[b] = k
  <2>1. mixed' = IF mixed = 0 /\ order[b] # order[cur] THEN 1 ELSE mixed
    BY DEF FreeMerge, page_buddy
  <2> QED
    BY <2>1
<1>3. cur \in Blocks /\ Busy = {cur} /\ cur \notin linked /\ cur \notin Owned
  BY <1>1 DEF Blocks, Busy, Core, BlocksInv
<1>4. k \in Order /\ k \in 0 .. MaxOrder - 1 /\ cur \in Page
  <2>1. k \in Order /\ cur \in Page
    BY <1>3, CoreFacts
  <2> QED
    BY <1>1, <2>1, CoreFacts DEF Order
<1>5. Unadded = {} /\ Unadded' = {} /\ Tiles(Blocks, order, valid)
  BY <1>1 DEF Unadded, Core, BlocksInv
<1>6. order[cur] = k /\ b = Buddy(cur, k) /\ lo = IF b < cur THEN b ELSE cur
  OBVIOUS
<1> HIDE DEF k, b, lo
<1>7. Blocks \in SUBSET Page
  BY CoreFacts
<1>8. b \in Blocks /\ b # cur
  BY <1>1, <1>3, <1>4, <1>5, <1>6, <1>7, TilesBuddy
<1>9. b \in linked /\ b \notin Owned /\ b \in Page
  BY <1>1, <1>3, <1>7, <1>8 DEF Blocks, Core, OwnersInv
<1>10. lo \in {cur, b} /\ lo \in Page
  BY <1>4, <1>6, <1>9
<1>11. order'[lo] = k + 1 /\ \A q \in Page : q # lo => order'[q] = order[q]
  <2>1. order[lo] = k
    BY <1>2, <1>6, <1>10
  <2> QED
    BY <1>1, <1>10, <2>1, CoreFacts
<1>12. Tiles((Blocks \ {cur, b}) \cup {lo}, order', valid)
  <2>1. \A q \in Blocks : q # lo => order'[q] = order[q]
    BY <1>7, <1>11
  <2> QED
    BY <1>2, <1>3, <1>4, <1>5, <1>6, <1>7, <1>8, <1>11, <2>1, TilesMerge
<1>13. /\ Owned' = Owned /\ Busy' = {lo}
       /\ Blocks' = (Blocks \ {cur, b}) \cup {lo}
  BY <1>1, <1>3, <1>9 DEF Owned, Busy, Blocks
<1>14. BlocksInv'
  <2>1. Tiles(Blocks', order', valid' \ Unadded')
    BY <1>1, <1>5, <1>12, <1>13
  <2>2. linked' \cap (Owned' \cup Busy') = {} /\ Owned' \cap Busy' = {}
    BY <1>1, <1>3, <1>9, <1>10, <1>13 DEF Core, BlocksInv
  <2> QED
    BY <2>1, <2>2 DEF BlocksInv
<1>15. OwnersInv'
  <2>1. \A q \in Owned : order'[q] = order[q]
    BY <1>3, <1>9, <1>10, <1>11, CoreFacts
  <2> QED
    BY <1>1, <1>13, <2>1 DEF Core, OwnersInv
<1>16. LinksInv' /\ Stamped(linked', next')
  <2>1. \A m \in linked : m # b => order'[m] = order[m]
    BY <1>3, <1>10, <1>11, CoreFacts
  <2> QED
    BY <1>1, <1>9, <2>1, UnlinkLinks DEF Core, TypeInv
<1>17. ZonesInv' /\ BootInv'
  BY <1>1 DEF Core, ZonesInv, BootInv
<1> QED
  BY <1>14, <1>15, <1>16, <1>17 DEF Core

LEMMA FreeDoneCore == ASSUME TypeInv, Core, FreeDone PROVE Core'
<1> DEFINE k == order[cur]
<1>1. /\ pc = "merge" /\ free_page(cur, k, order) /\ pc' = "idle"
      /\ UNCHANGED <<valid, high, todo, pos, held>>
  BY DEF FreeDone, Return
<1>2. cur \in Blocks /\ Busy = {cur} /\ cur \notin linked /\ cur \notin Owned /\ cur \in Page
  BY <1>1, CoreFacts DEF Blocks, Busy, Core, BlocksInv
<1>3. k \in Order
  BY <1>2, CoreFacts
<1>4. /\ order' = order /\ free' = free \cup {cur} /\ linked' = linked \cup {cur}
  <2>1. order' = [order EXCEPT ![cur] = k] /\ order \in [Page -> 0 .. MaxOrder + 1]
    BY <1>1, CoreFacts DEF free_page
  <2> QED
    BY <1>1, <1>2, <2>1 DEF free_page
<1>5. /\ Owned' = Owned /\ Busy' = {} /\ Unadded = {} /\ Unadded' = {} /\ Blocks' = Blocks
  BY <1>1, <1>2, <1>4 DEF Owned, Busy, Unadded, Blocks
<1>6. BlocksInv'
  <2>1. Tiles(Blocks', order', valid' \ Unadded')
    BY <1>1, <1>4, <1>5 DEF Core, BlocksInv
  <2>2. linked' \cap (Owned' \cup Busy') = {} /\ Owned' \cap Busy' = {}
    BY <1>2, <1>4, <1>5 DEF Core, BlocksInv
  <2> QED
    BY <2>1, <2>2 DEF BlocksInv
<1>7. OwnersInv'
  BY <1>1, <1>2, <1>4, <1>5 DEF Core, OwnersInv
<1>8. LinksInv' /\ Stamped(linked', next')
  <2>1. \A m \in linked : order[m] = order[m]
    OBVIOUS
  <2>2. /\ TypeOK /\ LinksInv /\ Stamped(linked, next) /\ high' = high
        /\ order \in [Page -> 0 .. MaxOrder + 1]
    BY <1>1, CoreFacts DEF Core, TypeInv
  <2> HIDE DEF k
  <2> QED
    BY <1>1, <1>2, <1>3, <2>1, <2>2, FreePageLinks
<1>9. ZonesInv' /\ BootInv'
  BY <1>1 DEF Core, ZonesInv, BootInv
<1> QED
  BY <1>6, <1>7, <1>8, <1>9 DEF Core

\* Without an unequal merge no block outgrows the largest order.
LEMMA FreeWildCore == ASSUME TypeInv, Core, FreeWild PROVE FALSE
<1>1. pc = "merge" /\ order[cur] > MaxOrder
  BY DEF FreeWild
<1>2. cur \in Blocks
  BY <1>1 DEF Blocks, Busy
<1> QED
  BY <1>1, <1>2, CoreFacts DEF Order

----------------------------------------------------------------------------
(* Steps of add_free_pages and init_free_pages *)

LEMMA RoundDown ==
    ASSUME NEW n \in Nat
    PROVE  /\ round_down(n) \in Nat /\ Aligned(round_down(n), MaxOrder)
           /\ round_down(n) <= n /\ n < round_down(n) + 2^MaxOrder
<1> DEFINE m == 2^MaxOrder
           q == n \div m
<1>1. m \in Nat \ {0} /\ MaxOrder \in 0 .. MaxOrder + 1
  BY ConstAssumption, PowType DEF Order
<1>2. q \in Nat /\ q * m <= n /\ n < q * m + m /\ q * m \in Nat
  <2>1. q \in Int /\ q * m <= n /\ n < q * m + m
    BY <1>1
  <2>2. q >= 0
    BY <1>1
  <2> QED
    BY <1>1, <2>1, <2>2
<1>3. round_down(n) = q * m
  BY DEF round_down
<1>4. Aligned(round_down(n), MaxOrder)
  BY <1>1, <1>2, <1>3, AlignedIff
<1> QED
  BY <1>2, <1>3, <1>4

LEMMA RoundUp ==
    ASSUME NEW n \in Nat
    PROVE  /\ round_up(n) \in Nat /\ Aligned(round_up(n), MaxOrder) /\ n <= round_up(n)
<1> DEFINE m == 2^MaxOrder
<1>1. m \in Nat \ {0}
  BY ConstAssumption, PowType DEF Order
<1>2. n + m - 1 \in Nat
  BY <1>1
<1>3. round_up(n) = round_down(n + m - 1)
  BY DEF round_up
<1> QED
  BY <1>1, <1>2, <1>3, RoundDown

\* The next boundary
LEMMA NextAligned ==
    ASSUME NEW p \in Nat, NEW q \in Nat, Aligned(p, MaxOrder), Aligned(q, MaxOrder), p < q
    PROVE  p + 2^MaxOrder <= q /\ Aligned(p + 2^MaxOrder, MaxOrder)
<1> DEFINE m == 2^MaxOrder
<1>1. m \in Nat \ {0} /\ MaxOrder \in 0 .. MaxOrder + 1
  BY ConstAssumption, PowType DEF Order
<1>2. PICK c \in Nat : p = c * m
  BY <1>1, AlignedIff
<1>3. PICK d \in Nat : q = d * m
  BY <1>1, AlignedIff
<1>4. p + m = (c + 1) * m /\ c + 1 \in Nat /\ p + m \in Nat
  BY <1>1, <1>2
<1>5. (c + 1) * m <= d * m
  BY <1>1, <1>2, <1>3, MulLess
<1> QED
  BY <1>1, <1>3, <1>4, <1>5, AlignedIff

LEMMA AgreeChain ==
    ASSUME NEW L, NEW nx, NEW pv, NEW g, NEW h, Chain(L, nx, pv, g), Agree(h, g, L)
    PROVE  Chain(L, nx, pv, h)
BY DEF Chain, Agree

LEMMA InitCore == ASSUME Init, RangesApart(Regions) PROVE Core
<1>1. /\ next = [n \in Node |-> n] /\ prev = [n \in Node |-> n]
      /\ valid = {} /\ free = {} /\ high = {} /\ linked = {}
      /\ todo = Regions /\ pc = "boot" /\ held = [p \in Page |-> -1]
  BY DEF Init
<1>2. Owned = {} /\ Busy = {} /\ Blocks = {} /\ Unadded = {} /\ Listed = ListHead
  BY <1>1 DEF Owned, Busy, Blocks, Unadded, Listed
<1>3. BlocksInv
  BY <1>1, <1>2 DEF BlocksInv, Tiles
<1>4. OwnersInv
  BY <1>1, <1>2 DEF OwnersInv
<1>5. LinksInv
  <2>1. ListHead \subseteq Node
    BY DEF Node
  <2> QED
    BY <1>1, <1>2, <2>1 DEF LinksInv, Chain
<1>6. Stamped(linked, next)
  <2> DEFINE st == [p \in Page |-> 0]
  <2>1. st \in [Page -> Nat] /\ 1 \in Nat /\ \A p \in Page : st[p] < 1
    OBVIOUS
  <2> HIDE DEF st
  <2> QED
    BY <1>1, <2>1 DEF Stamped
<1>7. ZonesInv /\ BootInv
  BY <1>1, <1>2 DEF ZonesInv, BootInv
<1> QED
  BY <1>3, <1>4, <1>5, <1>6, <1>7 DEF Core

LEMMA AddSplitCore == ASSUME TypeInv, Core, AddSplit PROVE Core'
<1> DEFINE s == Head(todo)[1]
           e == Head(todo)[2]
<1>1. /\ pc = "boot" /\ pc' = "boot" /\ todo # <<>> /\ s < HighStart /\ HighStart < e
      /\ todo' = <<<<s, HighStart>>, <<HighStart, e>>>> \o Tail(todo)
      /\ UNCHANGED <<next, prev, order, valid, free, high, pos, cur, want, held, linked>>
  BY DEF AddSplit, links, flags
<1>2. todo \in Seq(Nat \X Nat) /\ HighStart \in Nat
  BY ConstAssumption DEF TypeInv, TypeOK
<1>3. /\ Len(todo) \in Nat \ {0} /\ s = todo[1][1] /\ e = todo[1][2]
      /\ \A i \in 1 .. Len(todo) : todo[i][1] \in Nat /\ todo[i][2] \in Nat
  BY <1>1, <1>2
<1>4. /\ Len(todo') = Len(todo) + 1 /\ todo'[1][1] = s /\ todo'[1][2] = HighStart
      /\ todo'[2][1] = HighStart /\ todo'[2][2] = e
      /\ \A i \in 3 .. Len(todo) + 1 : todo'[i] = todo[i - 1]
  BY <1>1, <1>2, <1>3
<1> HIDE DEF s, e
<1>5. /\ Owned' = Owned /\ Busy' = Busy /\ Blocks' = Blocks /\ Listed' = Listed
      /\ Unadded = {} /\ Unadded' = {} /\ HeadOf' = HeadOf
  BY <1>1 DEF Owned, Busy, Blocks, Listed, Unadded, HeadOf, ListOf, ZoneOf
<1>6. BlocksInv' /\ OwnersInv' /\ ZonesInv'
  BY <1>1, <1>5 DEF Core, BlocksInv, OwnersInv, ZonesInv
<1>7. LinksInv' /\ Stamped(linked', next')
  BY <1>1, <1>5 DEF Core, LinksInv
\* where the parts come from
<1> DEFINE from(i) == IF i <= 2 THEN 1 ELSE i - 1
<1>8. \A i \in 1 .. Len(todo') :
         /\ from(i) \in 1 .. Len(todo)
         /\ todo[from(i)][1] <= todo'[i][1] /\ todo'[i][2] <= todo[from(i)][2]
         /\ todo'[i][1] \in Nat /\ todo'[i][2] \in Nat
  <2> SUFFICES ASSUME NEW i \in 1 .. Len(todo')
               PROVE  /\ from(i) \in 1 .. Len(todo)
                      /\ todo[from(i)][1] <= todo'[i][1] /\ todo'[i][2] <= todo[from(i)][2]
                      /\ todo'[i][1] \in Nat /\ todo'[i][2] \in Nat
    OBVIOUS
  <2>1. CASE i = 1
    BY <1>1, <1>2, <1>3, <1>4, <2>1
  <2>2. CASE i = 2
    BY <1>1, <1>2, <1>3, <1>4, <2>2
  <2>3. CASE i \in 3 .. Len(todo) + 1
    <3>1. from(i) = i - 1 /\ i - 1 \in 1 .. Len(todo) /\ todo'[i] = todo[i - 1]
      BY <1>3, <1>4, <2>3
    <3> QED
      BY <1>3, <3>1
  <2> QED
    BY <1>3, <1>4, <2>1, <2>2, <2>3
<1>9. RangesApart(todo')
  <2> SUFFICES ASSUME NEW i \in 1 .. Len(todo'), NEW j \in 1 .. Len(todo'), i # j
               PROVE  todo'[i][2] <= todo'[j][1] \/ todo'[j][2] <= todo'[i][1]
    BY DEF RangesApart
  <2>1. CASE from(i) # from(j)
    <3> DEFINE a == todo[from(i)][1]
               b == todo[from(i)][2]
               c == todo[from(j)][1]
               d == todo[from(j)][2]
               a2 == todo'[i][1]
               b2 == todo'[i][2]
               c2 == todo'[j][1]
               d2 == todo'[j][2]
    <3>1. b <= c \/ d <= a
      BY <1>8, <2>1 DEF Core, BootInv, RangesApart
    <3>2. a \in Nat /\ b \in Nat /\ c \in Nat /\ d \in Nat
      BY <1>3, <1>8
    <3>3. /\ a <= a2 /\ b2 <= b /\ c <= c2 /\ d2 <= d
          /\ a2 \in Nat /\ b2 \in Nat /\ c2 \in Nat /\ d2 \in Nat
      BY <1>8
    <3>4. b2 <= c2 \/ d2 <= a2
      <4> HIDE DEF a, b, c, d, a2, b2, c2, d2
      <4> QED
        BY <3>1, <3>2, <3>3
    <3> QED
      BY <3>4
  <2>2. CASE from(i) = from(j)
    <3>1. i \in {1, 2} /\ j \in {1, 2}
      BY <1>3, <1>4, <2>2
    <3> QED
      BY <1>2, <1>4, <3>1
  <2> QED
    BY <2>1, <2>2
<1>10. ASSUME NEW i \in 1 .. Len(todo'), NEW p \in valid PROVE p < todo'[i][1] \/ todo'[i][2] <= p
  <2>1. p < todo[from(i)][1] \/ todo[from(i)][2] <= p
    BY <1>1, <1>8 DEF Core, BootInv
  <2>2. p \in Nat
    BY ConstAssumption DEF TypeInv, TypeOK, Page
  <2> HIDE DEF from
  <2>3. todo[from(i)][1] \in Nat /\ todo[from(i)][2] \in Nat
    BY <1>3, <1>8
  <2> QED
    BY <1>8, <2>1, <2>2, <2>3
<1>11. BootInv'
  BY <1>1, <1>5, <1>9, <1>10 DEF Core, BootInv
<1> QED
  BY <1>6, <1>7, <1>11 DEF Core

LEMMA AddRangeCore == ASSUME TypeInv, Core, AddRange PROVE Core'
<1> DEFINE s == Head(todo)[1]
           e == Head(todo)[2]
           R == s .. e - 1
<1>1. /\ pc = "boot" /\ pc' = "add" /\ todo # <<>>
      /\ valid' = valid \cup R /\ pos' = s
      /\ high' = IF s >= HighStart THEN high \cup R ELSE high
      /\ UNCHANGED <<next, prev, order, free, todo, cur, want, held, linked>>
  BY DEF AddRange, links
<1>2. todo \in Seq(Nat \X Nat) /\ HighStart \in Nat /\ valid \subseteq Nat
  BY ConstAssumption DEF TypeInv, TypeOK, Page
<1>3. /\ Len(todo) \in Nat \ {0} /\ s = todo[1][1] /\ e = todo[1][2] /\ 1 \in 1 .. Len(todo)
      /\ \A i \in 1 .. Len(todo) : todo[i][1] \in Nat /\ todo[i][2] \in Nat
  BY <1>1, <1>2
<1>4. s \in Nat /\ e \in Nat /\ s <= e
  BY <1>3 DEF TypeInv, RangesFit
<1>5. Unadded = {} /\ Unadded' = R
  BY <1>1 DEF Unadded
<1>r. s >= HighStart \/ e <= HighStart
  BY DEF AddRange
<1> HIDE DEF s, e
<1>6. valid \cap R = {}
  <2> SUFFICES ASSUME NEW p \in valid, p \in R PROVE FALSE
    OBVIOUS
  <2>1. p < s \/ e <= p
    BY <1>1, <1>3 DEF Core, BootInv
  <2> QED
    BY <1>2, <1>4, <2>1
<1>7. valid' \ Unadded' = valid /\ valid \ Unadded = valid
  BY <1>1, <1>5, <1>6
<1>8. Owned' = Owned /\ Busy' = Busy /\ Blocks' = Blocks /\ Listed' = Listed
  BY <1>1 DEF Owned, Busy, Blocks, Listed
<1>9. BlocksInv' /\ OwnersInv'
  BY <1>1, <1>7, <1>8 DEF Core, BlocksInv, OwnersInv
<1>10. linked \subseteq valid
  <2> SUFFICES ASSUME NEW p \in linked PROVE p \in valid
    OBVIOUS
  <2>1. p \in Blocks /\ p \in Nat /\ order[p] \in Order
    BY CoreFacts DEF Blocks
  <2>2. Span(p, order[p]) \subseteq valid
    BY <1>7, <2>1 DEF Core, BlocksInv, Tiles
  <2> QED
    BY <2>1, <2>2, SpanStart
<1>11. LinksInv' /\ Stamped(linked', next')
  <2>1. \A m \in Listed : HeadOf'[m] = HeadOf[m]
    <3> SUFFICES ASSUME NEW m \in Listed PROVE HeadOf'[m] = HeadOf[m]
      OBVIOUS
    <3>1. CASE m \in Page
      <4>1. m \in linked
        BY <3>1, ConstAssumption DEF Listed, ListHead, Page
      <4>2. m \in high' <=> m \in high
        BY <1>1, <1>6, <1>10, <4>1
      <4> QED
        BY <1>1, <3>1, <4>2, CoreFacts DEF HeadOf, ListOf, ZoneOf
    <3>2. CASE m \notin Page
      BY <3>2, CoreFacts DEF HeadOf, ListOf
    <3> QED
      BY <3>1, <3>2
  <2>2. Agree(HeadOf', HeadOf, Listed) /\ Chain(Listed, next, prev, HeadOf)
    BY <2>1 DEF Agree, Core, LinksInv
  <2>3. Chain(Listed, next, prev, HeadOf')
    BY <2>2, AgreeChain
  <2> QED
    BY <1>1, <1>8, <2>3 DEF Core, LinksInv
<1>12. ZonesInv'
  <2>3. high' \subseteq valid'
    BY <1>1 DEF Core, ZonesInv
  <2> SUFFICES ASSUME NEW p \in valid' PROVE p \in high' <=> p >= HighStart
    BY <2>3 DEF ZonesInv
  <2>1. CASE p \in valid
    BY <1>1, <1>6, <2>1 DEF Core, ZonesInv
  <2>2. CASE p \in R
    <3>1. p \notin valid /\ p \in Nat /\ s <= p /\ p < e
      BY <1>4, <1>6, <2>2
    <3>2. CASE s >= HighStart
      BY <1>1, <1>2, <1>4, <2>2, <3>1, <3>2
    <3>3. CASE ~(s >= HighStart)
      BY <1>1, <1>2, <1>4, <1>r, <3>1, <3>3 DEF Core, ZonesInv
    <3> QED
      BY <3>2, <3>3
  <2> QED
    BY <1>1, <2>1, <2>2
<1>13. BootInv'
  <2>1. ASSUME NEW i \in 2 .. Len(todo), NEW p \in valid' PROVE p < todo[i][1] \/ todo[i][2] <= p
    <3>1. i \in 1 .. Len(todo) /\ i # 1
      BY <1>3
    <3>2. CASE p \in valid
      BY <1>1, <3>1, <3>2 DEF Core, BootInv
    <3>3. CASE p \in R
      <4>1. e <= todo[i][1] \/ todo[i][2] <= s
        BY <1>3, <3>1 DEF Core, BootInv, RangesApart
      <4> QED
        BY <1>3, <1>4, <3>1, <3>3, <4>1
    <3> QED
      BY <1>1, <3>2, <3>3
  <2>2. round_up(s) <= s => Aligned(s, MaxOrder)
    <3>1. round_up(s) \in Nat /\ Aligned(round_up(s), MaxOrder) /\ s <= round_up(s)
      BY <1>4, RoundUp
    <3>2. round_up(s) <= s => round_up(s) = s
      BY <1>4, <3>1
    <3> QED
      BY <3>1, <3>2
  <2>3. /\ todo'[1][1] = s /\ todo'[1][2] = e /\ Owned' = {}
    BY <1>1, <1>3, <1>8 DEF Core, BootInv
  <2> QED
    BY <1>1, <1>3, <1>4, <2>1, <2>2, <2>3 DEF Core, BootInv
<1> QED
  BY <1>9, <1>11, <1>12, <1>13 DEF Core

LEMMA AddBlockCore == ASSUME TypeInv, Core, AddBlock PROVE Core'
<1> DEFINE s == round_up(Head(todo)[1])
           e == round_down(Head(todo)[2])
           E == Head(todo)[2]
           k == IF s < e /\ s <= pos /\ pos < e THEN MaxOrder ELSE 0
<1>1. /\ pc = "add" /\ pos < E /\ free_page(pos, k, order) /\ pos' = pos + 2^k
      /\ UNCHANGED <<valid, high, todo, pc, cur, want, held>>
  BY DEF AddBlock
<1>2. /\ todo \in Seq(Nat \X Nat) /\ todo # <<>> /\ pos \in Nat /\ MaxOrder \in Nat
      /\ valid \subseteq Page /\ Page \subseteq Nat
  BY <1>1, ConstAssumption DEF TypeInv, TypeOK, Page
<1>3. /\ Len(todo) \in Nat \ {0} /\ Head(todo) = todo[1] /\ E = todo[1][2]
      /\ todo[1][1] \in Nat /\ E \in Nat
  BY <1>2
<1>4. /\ s = round_up(todo[1][1]) /\ e = round_down(todo[1][2])
      /\ s \in Nat /\ e \in Nat /\ e <= E
      /\ Aligned(s, MaxOrder) /\ Aligned(e, MaxOrder)
  BY <1>3, RoundUp, RoundDown
<1>5. /\ todo[1][1] <= pos /\ pos .. E - 1 \subseteq valid
      /\ s <= pos /\ pos < e => Aligned(pos, MaxOrder)
      /\ Owned = {}
      /\ \A i \in 2 .. Len(todo) : \A p \in valid : p < todo[i][1] \/ todo[i][2] <= p
  BY <1>1, <1>3, <1>4 DEF Core, BootInv
<1>6. k \in Order /\ 2^k \in Nat \ {0}
  BY <1>2, PowType DEF Order
<1>d. /\ s < e /\ s <= pos /\ pos < e => k = MaxOrder
      /\ ~(s < e /\ s <= pos /\ pos < e) => k = 0
  OBVIOUS
<1>u. Unadded = pos .. E - 1 /\ Unadded' = pos' .. E - 1
  BY <1>1 DEF Unadded
<1> HIDE DEF s, e, E, k
<1>7. /\ pos + 2^k <= E /\ Aligned(pos, k)
      /\ s <= pos + 2^k /\ pos + 2^k < e => Aligned(pos + 2^k, MaxOrder)
  <2>1. CASE s < e /\ s <= pos /\ pos < e
    <3>1. k = MaxOrder /\ Aligned(pos, MaxOrder)
      BY <1>d, <1>5, <2>1
    <3>2. pos + 2^MaxOrder <= e /\ Aligned(pos + 2^MaxOrder, MaxOrder)
      BY <1>2, <1>4, <2>1, <3>1, NextAligned
    <3> QED
      BY <1>2, <1>3, <1>4, <1>6, <3>1, <3>2
  <2>2. CASE ~(s < e /\ s <= pos /\ pos < e)
    <3>1. k = 0 /\ 2^k = 1
      BY <1>d, <2>2, PowerAssumption
    <3>2. pos + 1 <= E
      BY <1>1, <1>2, <1>3
    <3>3. Aligned(pos, 0)
      <4>1. pos = pos * 2^0 /\ 0 \in 0 .. MaxOrder + 1
        BY <1>2, PowerAssumption
      <4> QED
        BY <1>2, <4>1, AlignedIff
    <3>4. s <= pos + 1 /\ pos + 1 < e => pos + 1 = s
      BY <1>2, <1>4, <2>2
    <3> QED
      BY <1>4, <3>1, <3>2, <3>3, <3>4
  <2> QED
    BY <2>1, <2>2
<1>8. pos \in Page /\ pos \in valid
  <2>1. pos \in pos .. E - 1
    BY <1>1, <1>2, <1>3
  <2> QED
    BY <1>2, <1>5, <2>1
<1> DEFINE V == valid \ Unadded
<1>9. /\ Span(pos, k) \cap V = {} /\ valid' \ Unadded' = V \cup Span(pos, k)
  <2>1. Span(pos, k) \subseteq pos .. E - 1
    BY <1>2, <1>3, <1>6, <1>7 DEF Span
  <2>2. pos .. E - 1 = Span(pos, k) \cup (pos + 2^k .. E - 1)
    BY <1>2, <1>3, <1>6, <1>7 DEF Span
  <2>3. Span(pos, k) \cap (pos + 2^k .. E - 1) = {}
    BY <1>2, <1>3, <1>6 DEF Span
  <2> QED
    BY <1>1, <1>5, <1>u, <2>1, <2>2, <2>3
<1>10. /\ order' = [order EXCEPT ![pos] = k] /\ free' = free \cup {pos}
       /\ linked' = linked \cup {pos}
  BY <1>1 DEF free_page
<1>11. order'[pos] = k /\ \A q \in Page : q # pos => order'[q] = order[q]
  BY <1>8, <1>10, CoreFacts
<1>12. Tiles(Blocks, order, V) /\ Blocks \in SUBSET Page
  BY CoreFacts DEF Core, BlocksInv
<1> DEFINE W == valid' \ Unadded'
<1>13. W = V \cup Span(pos, k) /\ Span(pos, k) \cap V = {}
  BY <1>9
<1> HIDE DEF V
<1>14. pos \notin Blocks /\ Tiles(Blocks \cup {pos}, order', W)
  <2>1. \A q \in Blocks : q # pos => order'[q] = order[q]
    BY <1>11, <1>12
  <2> HIDE DEF W
  <2> QED
    BY <1>6, <1>7, <1>8, <1>11, <1>12, <1>13, <2>1, TilesAdd
<1>15. /\ Owned' = {} /\ Busy' = {} /\ Busy = {} /\ Blocks' = Blocks \cup {pos}
  BY <1>1, <1>5, <1>10 DEF Owned, Busy, Blocks
<1>16. BlocksInv'
  BY <1>14, <1>15 DEF BlocksInv
<1>17. OwnersInv'
  BY <1>1, <1>10, <1>15 DEF Core, OwnersInv
<1>18. LinksInv' /\ Stamped(linked', next')
  <2>1. \A m \in linked : order[m] = order[m]
    OBVIOUS
  <2>2. /\ TypeOK /\ LinksInv /\ Stamped(linked, next) /\ high' = high
        /\ order \in [Page -> 0 .. MaxOrder + 1] /\ pos \notin linked
    BY <1>1, <1>14, CoreFacts DEF Core, TypeInv, Blocks
  <2> QED
    BY <1>1, <1>6, <1>8, <2>1, <2>2, FreePageLinks
<1>19. ZonesInv'
  BY <1>1 DEF Core, ZonesInv
<1>20. BootInv'
  <2>1. /\ todo[1][1] <= pos + 2^k /\ pos + 2^k <= todo[1][2]
        /\ pos + 2^k .. todo[1][2] - 1 \subseteq valid
    <3>1. pos + 2^k .. E - 1 \subseteq pos .. E - 1
      BY <1>2, <1>3, <1>6
    <3> QED
      BY <1>2, <1>3, <1>5, <1>6, <1>7, <3>1
  <2>2. /\ RangesApart(todo') /\ pc' = "add" /\ todo' = todo /\ pos' = pos + 2^k
        /\ valid' = valid
    BY <1>1 DEF Core, BootInv
  <2> QED
    BY <1>4, <1>5, <1>7, <1>15, <2>1, <2>2 DEF BootInv
<1> QED
  BY <1>16, <1>17, <1>18, <1>19, <1>20 DEF Core

LEMMA AddDoneCore == ASSUME TypeInv, Core, AddDone PROVE Core'
<1>1. /\ pc = "add" /\ pos >= Head(todo)[2] /\ todo' = Tail(todo) /\ pc' = "boot"
      /\ UNCHANGED <<next, prev, order, valid, free, high, pos, cur, want, held, linked>>
  BY DEF AddDone, links, flags
<1>2. /\ todo \in Seq(Nat \X Nat) /\ todo # <<>> /\ pos \in Nat
  BY <1>1 DEF TypeInv, TypeOK
<1>3. /\ Len(todo) \in Nat \ {0} /\ Head(todo)[2] \in Nat
      /\ Len(todo') = Len(todo) - 1
      /\ \A i \in 1 .. Len(todo) - 1 : todo'[i] = todo[i + 1]
  BY <1>1, <1>2
<1>4. Unadded = {} /\ Unadded' = {}
  BY <1>1, <1>2, <1>3 DEF Unadded
<1>5. /\ Owned' = Owned /\ Busy' = Busy /\ Blocks' = Blocks /\ Listed' = Listed
      /\ HeadOf' = HeadOf
  BY <1>1 DEF Owned, Busy, Blocks, Listed, HeadOf, ListOf, ZoneOf
<1>6. BlocksInv' /\ OwnersInv' /\ ZonesInv'
  BY <1>1, <1>4, <1>5 DEF Core, BlocksInv, OwnersInv, ZonesInv
<1>7. LinksInv' /\ Stamped(linked', next')
  BY <1>1, <1>5 DEF Core, LinksInv
<1>8. RangesApart(todo')
  <2> SUFFICES ASSUME NEW i \in 1 .. Len(todo'), NEW j \in 1 .. Len(todo'), i # j
               PROVE  todo'[i][2] <= todo'[j][1] \/ todo'[j][2] <= todo'[i][1]
    BY DEF RangesApart
  <2>1. /\ i + 1 \in 1 .. Len(todo) /\ j + 1 \in 1 .. Len(todo) /\ i + 1 # j + 1
        /\ todo'[i] = todo[i + 1] /\ todo'[j] = todo[j + 1]
    BY <1>3
  <2> QED
    BY <2>1 DEF Core, BootInv, RangesApart
<1>9. ASSUME NEW i \in 1 .. Len(todo'), NEW p \in valid PROVE p < todo'[i][1] \/ todo'[i][2] <= p
  <2>1. i + 1 \in 2 .. Len(todo) /\ todo'[i] = todo[i + 1]
    BY <1>3
  <2> QED
    BY <1>1, <2>1 DEF Core, BootInv
<1>10. BootInv'
  BY <1>1, <1>5, <1>8, <1>9 DEF Core, BootInv
<1> QED
  BY <1>6, <1>7, <1>10 DEF Core

\* A step that changes neither the blocks nor what is left to add
LEMMA SameCore ==
    ASSUME TypeInv, Core, pc' \in {pc, "idle"}, pc' # pc => pc = "boot",
           UNCHANGED <<next, prev, order, valid, free, high, todo, pos, cur, want, held, linked>>
    PROVE  Core'
<1>1. /\ Owned' = Owned /\ Busy' = Busy /\ Blocks' = Blocks /\ Listed' = Listed
      /\ HeadOf' = HeadOf /\ Unadded' = Unadded
  BY DEF Owned, Busy, Blocks, Listed, HeadOf, ListOf, ZoneOf, Unadded
<1>2. BlocksInv' /\ OwnersInv' /\ ZonesInv'
  BY <1>1 DEF Core, BlocksInv, OwnersInv, ZonesInv
<1>3. LinksInv' /\ Stamped(linked', next')
  BY <1>1 DEF Core, LinksInv
<1>4. BootInv'
  BY <1>1 DEF Core, BootInv
<1> QED
  BY <1>2, <1>3, <1>4 DEF Core

LEMMA PartNext ==
    ASSUME PartInv, [Next]_vars
    PROVE  PartInv'
<1>1. TypeInv /\ (mixed = 0 => Core) /\ mixed \in Nat
  BY DEF PartInv, TypeInv, TypeOK
<1>2. TypeInv'
  <2>1. CASE Boot
    BY <1>1, <2>1, BootTypeInv
  <2>2. CASE Step
    BY <1>1, <2>2, StepTypeInv
  <2>3. ASSUME NEW z \in Zone, NEW o \in Order, AllocTake(z, o) PROVE TypeInv'
    BY <1>1, <2>3, AllocTakeTypeInv
  <2>4. ASSUME NEW p \in Page, FreeStart(p) PROVE TypeInv'
    BY <1>1, <2>4, FreeStartTypeInv
  <2>5. CASE UNCHANGED vars
    BY <1>1, <2>5 DEF vars, TypeInv, TypeOK, RangesFit, OrderFits
  <2> QED
    BY <2>1, <2>2, <2>3, <2>4, <2>5 DEF Next, AllocNull
<1>3. ASSUME mixed' = 0 PROVE Core'
  <2>1. CASE Boot
    <3>1. mixed' = mixed
      BY <2>1 DEF Boot, AddSplit, AddRange, AddBlock, AddDone, BootDone
    <3>2. Core
      BY <1>1, <1>3, <3>1
    <3>3. CASE BootDone
      BY <1>1, <3>2, <3>3, SameCore DEF BootDone, links, flags
    <3> QED
      BY <1>1, <2>1, <3>2, <3>3, AddSplitCore, AddRangeCore, AddBlockCore, AddDoneCore DEF Boot
  <2>2. CASE Step
    <3>1. mixed = 0
      BY <1>1, <1>3, <2>2 DEF Step, AllocSplit, AllocDone, FreeMerge, FreeDone, FreeWild
    <3>2. Core
      BY <1>1, <3>1
    <3> QED
      BY <1>1, <1>3, <2>2, <3>2, AllocSplitCore, AllocDoneCore, FreeMergeCore, FreeDoneCore,
         FreeWildCore DEF Step
  <2>3. ASSUME NEW z \in Zone, NEW o \in Order, AllocTake(z, o) PROVE Core'
    <3>1. mixed = 0
      BY <1>1, <1>3, <2>3 DEF AllocTake, Begin
    <3> QED
      BY <1>1, <2>3, <3>1, AllocTakeCore
  <2>4. ASSUME NEW p \in Page, FreeStart(p) PROVE Core'
    <3>1. mixed = 0
      BY <1>1, <1>3, <2>4 DEF FreeStart, Begin
    <3> QED
      BY <1>1, <2>4, <3>1, FreeStartCore
  <2>5. CASE UNCHANGED vars
    BY <1>1, <1>3, <2>5, SameCore DEF vars
  <2> QED
    BY <2>1, <2>2, <2>3, <2>4, <2>5 DEF Next, AllocNull
<1> QED
  BY <1>2, <1>3 DEF PartInv

LEMMA PartitionFromCore == ASSUME TypeInv, Core, mixed = 0 PROVE Partition
<1>1. \A p : Extent(p) = Span(p, order[p])
  BY DEF Extent, Span
<1>2. Tiles(Blocks, order, valid \ Unadded)
  BY DEF Core, BlocksInv
<1>3. \A p, q \in Blocks : p # q => Extent(p) \cap Extent(q) = {}
  BY <1>1, <1>2 DEF Tiles
<1>4. UNION {Extent(p) : p \in Blocks} = valid \ Unadded
  BY <1>1, <1>2 DEF Tiles
<1> QED
  BY <1>3, <1>4 DEF Partition, Core, BlocksInv, OwnersInv

\* As long as free_pages merged only blocks of equal order, the free blocks,
\* the blocks callers own and the one being split or merged tile the RAM that
\* add_free_pages was given, for any number of pages and orders and any RAM
\* ranges that do not overlap (page.c adds each range of the e820 map as it
\* comes and never looks whether a page was added before).
THEOREM PartitionCorrect ==
    ASSUME RangesApart(Regions)
    PROVE  Spec => []Partition
<1>1. Init => PartInv
  BY InitTypeInv, InitCore DEF PartInv
<1>2. PartInv /\ [Next]_vars => PartInv'
  BY PartNext
<1>3. PartInv => Partition
  <2> SUFFICES ASSUME PartInv PROVE Partition
    OBVIOUS
  <2>1. CASE mixed = 0
    BY <2>1, PartitionFromCore DEF PartInv
  <2>2. CASE mixed # 0
    BY <2>2 DEF Partition
  <2> QED
    BY <2>1, <2>2
<1> QED
  BY <1>1, <1>2, <1>3, PTL DEF Spec

----------------------------------------------------------------------------
(* The lists, walked *)

LEMMA NatMin ==
    ASSUME NEW T \in SUBSET Nat, T # {}
    PROVE  \E m \in T : \A k \in T : m <= k
<1>1. PICK m \in T : \A k \in T : <<k, m>> \notin OpToRel(<, Nat)
  BY WFMin, NatLessThanWellFounded
<1>2. \A k \in T : ~(k < m)
  BY <1>1 DEF OpToRel
<1> QED
  BY <1>2

\* w lists the nodes reached from n by 0 to N links of f.
Reaches(w, f, n, N) ==
    /\ w \in [0 .. N -> Node] /\ w[0] = n
    /\ \A k \in 1 .. N : w[k] = f[w[k - 1]]

LEMMA ReachExists ==
    ASSUME NEW f \in [Node -> Node], NEW n \in Node, NEW N \in Nat
    PROVE  \E w : Reaches(w, f, n, N)
<1> DEFINE T == {i \in Nat : ~\E w : Reaches(w, f, n, i)}
<1> SUFFICES ASSUME T # {} PROVE FALSE
  OBVIOUS
<1>1. PICK m \in T : \A k \in T : m <= k
  <2>1. T \in SUBSET Nat
    OBVIOUS
  <2> HIDE DEF T
  <2> QED
    BY <2>1, NatMin
<1>2. m \in Nat /\ ~\E w : Reaches(w, f, n, m)
  OBVIOUS
<1>3. m # 0
  <2> DEFINE w0 == [i \in 0 .. 0 |-> n]
  <2>1. Reaches(w0, f, n, 0)
    BY DEF Reaches
  <2> QED
    BY <1>2, <2>1
<1>4. m - 1 \in Nat /\ m - 1 \notin T
  BY <1>1, <1>2, <1>3
<1>5. PICK v : Reaches(v, f, n, m - 1)
  BY <1>4
<1> DEFINE u == [i \in 0 .. m |-> IF i = m THEN f[v[m - 1]] ELSE v[i]]
<1>6. v \in [0 .. m - 1 -> Node] /\ v[0] = n /\ \A k \in 1 .. m - 1 : v[k] = f[v[k - 1]]
  BY <1>5 DEF Reaches
<1>7. u \in [0 .. m -> Node]
  BY <1>2, <1>3, <1>6
<1>8. u[0] = n
  BY <1>2, <1>3, <1>6
<1>9. ASSUME NEW k \in 1 .. m PROVE u[k] = f[u[k - 1]]
  <2>1. CASE k = m
    BY <2>1, <1>2, <1>3
  <2>2. CASE k # m
    <3>1. k \in 1 .. m - 1 /\ k \in 0 .. m /\ k - 1 \in 0 .. m /\ k - 1 # m
      BY <2>2, <1>2
    <3> QED
      BY <2>2, <3>1, <1>6
  <2> QED
    BY <2>1, <2>2
<1> HIDE DEF u
<1>10. Reaches(u, f, n, m)
  BY <1>7, <1>8, <1>9 DEF Reaches
<1> QED
  BY <1>2, <1>10

LEMMA WalkReaches ==
    ASSUME NEW f \in [Node -> Node], NEW n \in Node
    PROVE  \E w : /\ Reaches(w, f, n, NPages + 1)
                  /\ Walk(f, n) = {w[k] : k \in 0 .. NPages + 1}
<1> DEFINE N == NPages + 1
           R(g) == [k \in 0 .. N |-> IF k = 0 THEN n ELSE f[g[k - 1]]]
           w == CHOOSE g : g = R(g)
<1>1. N \in Nat
  BY ConstAssumption
<1>2. PICK g0 : Reaches(g0, f, n, N)
  BY <1>1, ReachExists
<1>3. R(g0) = g0
  <2>1. \A k \in 0 .. N : R(g0)[k] = g0[k]
    BY <1>1, <1>2 DEF Reaches
  <2>2. g0 \in [0 .. N -> Node]
    BY <1>2 DEF Reaches
  <2> QED
    BY <2>1, <2>2
<1>4. w = R(w)
  <2> HIDE DEF R
  <2> QED
    BY <1>3
<1>5. Walk(f, n) = {w[k] : k \in 0 .. N}
  BY DEF Walk
<1> HIDE DEF w
<1>6. w[0] = n /\ \A k \in 1 .. N : w[k] = f[w[k - 1]]
  <2>1. \A k \in 0 .. N : R(w)[k] = IF k = 0 THEN n ELSE f[w[k - 1]]
    OBVIOUS
  <2> HIDE DEF R
  <2>2. \A k \in 0 .. N : w[k] = IF k = 0 THEN n ELSE f[w[k - 1]]
    BY <1>4, <2>1
  <2>3. 0 \in 0 .. N /\ \A k \in 1 .. N : k \in 0 .. N /\ k # 0
    BY <1>1
  <2> QED
    BY <2>2, <2>3
<1>7. \A k \in 0 .. N : w[k] \in Node
  <2> DEFINE T == {k \in 0 .. N : w[k] \notin Node}
  <2> SUFFICES ASSUME T # {} PROVE FALSE
    OBVIOUS
  <2>1. PICK m \in T : \A k \in T : m <= k
    <3>1. T \in SUBSET Nat
      BY <1>1
    <3> HIDE DEF T
    <3> QED
      BY <3>1, NatMin
  <2>2. m \in 0 .. N /\ w[m] \notin Node /\ m # 0
    BY <1>6
  <2>3. m - 1 \in 0 .. N /\ m \in 1 .. N /\ m - 1 \notin T
    BY <1>1, <2>1, <2>2
  <2> QED
    BY <1>6, <2>2, <2>3
<1>8. w \in [0 .. N -> Node]
  <2>1. w = [k \in 0 .. N |-> w[k]]
    BY <1>4
  <2> QED
    BY <1>7, <2>1
<1> QED
  BY <1>5, <1>6, <1>8 DEF Reaches

\* f leads round a circle: from h through every member of M, its rank falling,
\* and back to h.
Circle(f, g, M, h, rank, top) ==
    /\ \A m \in M \cup {h} : f[m] \in M \cup {h} /\ g[m] \in M \cup {h} /\ f[g[m]] = m
    /\ \A m \in M : rank[m] \in Nat /\ rank[m] <= top
    /\ \A m \in M : f[m] \in M => rank[f[m]] < rank[m]

LEMMA WalkExact ==
    ASSUME NEW f \in [Node -> Node], NEW g, NEW M \in SUBSET Page, NEW h \in Node, h \notin M,
           NEW rank, NEW top \in Nat, Circle(f, g, M, h, rank, top)
    PROVE  Walk(f, h) = M \cup {h}
<1> DEFINE N == NPages + 1
<1>1. N \in Nat \ {0} /\ NPages \in Nat
  BY ConstAssumption
<1>2. PICK w : /\ Reaches(w, f, h, N) /\ Walk(f, h) = {w[k] : k \in 0 .. N}
  BY WalkReaches
<1>3. /\ w \in [0 .. N -> Node] /\ w[0] = h /\ \A k \in 1 .. N : w[k] = f[w[k - 1]]
  BY <1>2 DEF Reaches
<1>4. \A k \in 0 .. N : w[k] \in M \cup {h}
  <2> DEFINE T == {k \in 0 .. N : w[k] \notin M \cup {h}}
  <2> SUFFICES ASSUME T # {} PROVE FALSE
    OBVIOUS
  <2>1. PICK m \in T : \A k \in T : m <= k
    <3>1. T \in SUBSET Nat
      BY <1>1
    <3> HIDE DEF T
    <3> QED
      BY <3>1, NatMin
  <2>2. m \in 0 .. N /\ w[m] \notin M \cup {h} /\ m # 0
    BY <1>3
  <2>3. m - 1 \in 0 .. N /\ m \in 1 .. N /\ m - 1 \notin T
    BY <1>1, <2>1, <2>2
  <2>4. w[m - 1] \in M \cup {h} /\ w[m] = f[w[m - 1]]
    BY <1>3, <2>3
  <2> QED
    BY <2>2, <2>4 DEF Circle
<1>5. PICK c \in 1 .. N : w[c] = h
  <2> SUFFICES ASSUME \A c \in 1 .. N : w[c] # h PROVE FALSE
    OBVIOUS
  <2>1. \A k \in 1 .. N : w[k] \in M
    BY <1>1, <1>4
  <2>2. ASSUME NEW i \in 1 .. N, NEW j \in 1 .. N, i < j PROVE rank[w[j]] < rank[w[i]]
    <3> DEFINE T == {k \in 1 .. N : i < k /\ ~(rank[w[k]] < rank[w[i]])}
    <3> SUFFICES ASSUME T # {} PROVE FALSE
      BY <2>2
    <3>1. PICK m \in T : \A k \in T : m <= k
      <4>1. T \in SUBSET Nat
        BY <1>1
      <4> HIDE DEF T
      <4> QED
        BY <4>1, NatMin
    <3>2. m \in 1 .. N /\ i < m /\ ~(rank[w[m]] < rank[w[i]])
      OBVIOUS
    <3>3. m - 1 \in 1 .. N /\ i <= m - 1 /\ m - 1 \notin T
      BY <1>1, <3>1, <3>2
    <3>4. rank[w[m - 1]] <= rank[w[i]]
      <4>1. CASE i = m - 1
        BY <2>1, <4>1 DEF Circle
      <4>2. CASE i < m - 1
        <5>1. rank[w[m - 1]] < rank[w[i]]
          BY <3>3, <4>2
        <5>2. rank[w[m - 1]] \in Nat /\ rank[w[i]] \in Nat
          BY <2>1, <3>3 DEF Circle
        <5> QED
          BY <5>1, <5>2
      <4> QED
        BY <1>1, <3>3, <4>1, <4>2
    <3>5. w[m] = f[w[m - 1]] /\ w[m] \in M /\ w[m - 1] \in M /\ w[i] \in M
      BY <1>3, <2>1, <3>2, <3>3
    <3>6. rank[w[m]] < rank[w[m - 1]]
      BY <3>5 DEF Circle
    <3>7. rank[w[m]] \in Nat /\ rank[w[m - 1]] \in Nat /\ rank[w[i]] \in Nat
      BY <3>5 DEF Circle
    <3> HIDE DEF T
    <3> QED
      BY <3>2, <3>4, <3>6, <3>7
  <2> DEFINE v == [k \in 1 .. N |-> w[k]]
  <2>3. v \in [1 .. N -> Page]
    BY <2>1
  <2>4. Cardinality(1 .. N) = N /\ IsFiniteSet(1 .. N)
    BY <1>1, FS_Interval
  <2>5. Cardinality(Page) = NPages /\ IsFiniteSet(Page)
    <3>1. /\ IsFiniteSet(0 .. NPages - 1)
          /\ Cardinality(0 .. NPages - 1) = IF 0 > NPages - 1 THEN 0 ELSE NPages - 1 - 0 + 1
      BY <1>1, FS_Interval
    <3> QED
      BY <1>1, <3>1, ConstAssumption DEF Page
  <2>6. PICK i \in 1 .. N, j \in 1 .. N : i # j /\ v[i] = v[j]
    <3>1. Cardinality(Page) < Cardinality(1 .. N)
      BY <1>1, <2>4, <2>5
    <3> DEFINE D == 1 .. N
    <3>2. /\ v \in [D -> Page] /\ IsFiniteSet(D) /\ IsFiniteSet(Page)
          /\ Cardinality(Page) < Cardinality(D)
      BY <2>3, <2>4, <2>5, <3>1
    <3>3. \E i, j \in D : i # j /\ v[i] = v[j]
      <4> HIDE DEF v, D
      <4> QED
        BY <3>2, FS_PigeonHole
    <3> QED
      BY <3>3
  <2>7. w[i] = w[j] /\ rank[w[i]] \in Nat
    BY <2>1, <2>6 DEF Circle
  <2>8. i < j \/ j < i
    BY <1>1, <2>6
  <2> QED
    BY <2>2, <2>7, <2>8
<1> DEFINE S == {w[k] : k \in 0 .. c - 1}
<1>6. h \in S /\ S \subseteq Walk(f, h)
  <2>1. 0 \in 0 .. c - 1 /\ 0 .. c - 1 \subseteq 0 .. N
    BY <1>1
  <2> QED
    BY <1>2, <1>3, <2>1
<1>7. \A s \in S : f[s] \in S
  <2> SUFFICES ASSUME NEW k \in 0 .. c - 1 PROVE f[w[k]] \in S
    OBVIOUS
  <2>1. k + 1 \in 1 .. N /\ k + 1 - 1 = k
    BY <1>1
  <2>2. f[w[k]] = w[k + 1]
    BY <1>3, <2>1
  <2>3. CASE k + 1 = c
    BY <1>5, <1>6, <2>2, <2>3
  <2>4. CASE k + 1 # c
    <3>1. k + 1 \in 0 .. c - 1
      BY <1>1, <2>4
    <3> QED
      BY <2>2, <3>1
  <2> QED
    BY <2>3, <2>4
<1> HIDE DEF S
<1>8. M \subseteq S
  <2> DEFINE T == {top - rank[m] : m \in M \ S}
  <2> SUFFICES ASSUME T # {} PROVE FALSE
    OBVIOUS
  <2>1. T \in SUBSET Nat
    BY DEF Circle
  <2>2. PICK t \in T : \A k \in T : t <= k
    <3> HIDE DEF T
    <3> QED
      BY <2>1, NatMin
  <2>3. PICK m \in M \ S : t = top - rank[m]
    OBVIOUS
  <2>4. g[m] \in M \cup {h} /\ f[g[m]] = m
    BY DEF Circle
  <2>5. g[m] \notin S
    BY <1>7, <2>3, <2>4
  <2>6. g[m] \in M \ S
    BY <1>6, <2>4, <2>5
  <2>7. rank[m] < rank[g[m]] /\ rank[m] \in Nat /\ rank[g[m]] \in Nat
    BY <2>3, <2>4, <2>6 DEF Circle
  <2>8. top - rank[g[m]] \in T
    BY <2>6
  <2>9. top - rank[m] <= top - rank[g[m]]
    BY <2>2, <2>3, <2>8
  <2> QED
    BY <2>7, <2>9
<1> QED
  BY <1>2, <1>4, <1>6, <1>8

\* The free list of order i in zone z
Members(z, i) == {p \in linked : order[p] = i /\ (z = 1 <=> p >= HighStart)}

LEMMA ListMember ==
    ASSUME TypeInv, Core, NEW z \in Zone, NEW i \in Order, NEW n \in Listed
    PROVE  HeadOf[n] = free_lists(z, i) <=> n \in Members(z, i) \cup {free_lists(z, i)}
<1> DEFINE c == free_lists(z, i)
<1>1. c \in Node /\ c \notin Page /\ n \in Node
  BY HeadInNode, CoreFacts
<1>2. CASE n \in Page
  <2>1. n \in linked
    BY <1>2, ConstAssumption DEF Listed, ListHead, Page
  <2>2. n \in Blocks /\ n \in Nat /\ order[n] \in Order
    BY <2>1, CoreFacts DEF Blocks
  <2>3. n \in valid
    <3>1. Span(n, order[n]) \subseteq valid
      BY <2>2 DEF Core, BlocksInv, Tiles
    <3> QED
      BY <2>2, <3>1, SpanStart
  <2>4. ZoneOf(n) \in Zone /\ (ZoneOf(n) = 1 <=> n >= HighStart)
    BY <2>3, ZoneOfType DEF Core, ZonesInv, ZoneOf
  <2>5. HeadOf[n] = free_lists(ZoneOf(n), order[n])
    BY <1>1, <1>2 DEF HeadOf, ListOf
  <2>6. HeadOf[n] = c <=> ZoneOf(n) = z /\ order[n] = i
    BY <2>2, <2>4, <2>5, HeadsDiffer
  <2>7. ZoneOf(n) = z <=> (z = 1 <=> n >= HighStart)
    BY <2>4 DEF Zone
  <2> QED
    BY <1>1, <1>2, <2>1, <2>6, <2>7 DEF Members
<1>3. CASE n \notin Page
  <2>1. HeadOf[n] = n /\ n \notin linked
    BY <1>1, <1>3, CoreFacts DEF HeadOf, ListOf
  <2> QED
    BY <2>1 DEF Members
<1> QED
  BY <1>2, <1>3

\* next leads round each list, and prev round it the other way.
LEMMA ListCircles ==
    ASSUME TypeInv, Core, NEW z \in Zone, NEW i \in Order,
           NEW M, M = Members(z, i), NEW h, h = free_lists(z, i)
    PROVE  \E now \in Nat : \E stamp, age :
              Circle(next, prev, M, h, stamp, now) /\ Circle(prev, next, M, h, age, now)
<1>1. PICK now \in Nat, stamp \in [Page -> Nat] :
        /\ \A p \in Page : stamp[p] < now
        /\ \A p \in linked : next[p] \in linked => stamp[next[p]] < stamp[p]
  BY DEF Core, Stamped
<1> DEFINE age == [p \in Page |-> now - stamp[p]]
<1>2. M \subseteq linked /\ M \subseteq Page /\ h \in Listed
  <2>1. h \in Node /\ h \notin Page
    BY HeadInNode
  <2> QED
    BY <2>1, CoreFacts DEF Members, Listed, Node
<1>3. \A n \in Listed : HeadOf[n] = h <=> n \in M \cup {h}
  BY ListMember
<1>4. Chain(Listed, next, prev, HeadOf) /\ M \cup {h} \subseteq Listed
  BY <1>2 DEF Core, LinksInv, Listed
<1>5. ASSUME NEW m \in M \cup {h}
      PROVE  /\ next[m] \in M \cup {h} /\ prev[m] \in M \cup {h}
             /\ next[prev[m]] = m /\ prev[next[m]] = m
  <2>1. /\ next[m] \in Listed /\ prev[m] \in Listed
        /\ next[prev[m]] = m /\ prev[next[m]] = m
        /\ HeadOf[next[m]] = HeadOf[m] /\ HeadOf[next[prev[m]]] = HeadOf[prev[m]]
    BY <1>4 DEF Chain
  <2>2. HeadOf[m] = h
    BY <1>3, <1>4
  <2> QED
    BY <1>3, <2>1, <2>2
<1>6. \A m \in M : stamp[m] \in Nat /\ stamp[m] <= now
  BY <1>1, <1>2
<1>7. \A m \in M : next[m] \in M => stamp[next[m]] < stamp[m]
  BY <1>1, <1>2
<1>8. Circle(next, prev, M, h, stamp, now)
  BY <1>5, <1>6, <1>7 DEF Circle
<1>9. \A m \in M : age[m] = now - stamp[m] /\ age[m] \in Nat /\ age[m] <= now
  BY <1>1, <1>2, <1>6
<1>10. ASSUME NEW m \in M, prev[m] \in M PROVE age[prev[m]] < age[m]
  <2>1. stamp[m] < stamp[prev[m]]
    BY <1>5, <1>7, <1>10
  <2> QED
    BY <1>6, <1>9, <1>10, <2>1
<1> HIDE DEF age
<1>11. Circle(prev, next, M, h, age, now)
  BY <1>5, <1>9, <1>10 DEF Circle
<1> QED
  BY <1>1, <1>8, <1>11

LEMMA ListsFromCore == ASSUME TypeInv, Core PROVE ListsExact
<1> SUFFICES ASSUME NEW z \in Zone, NEW i \in Order
             PROVE  LET h == free_lists(z, i)
                        members == {p \in linked : order[p] = i /\ (z = 1 <=> p >= HighStart)}
                    IN  /\ Walk(next, h) = members \cup {h}
                        /\ Walk(prev, h) = members \cup {h}
                        /\ members \subseteq free
  BY DEF ListsExact
<1> DEFINE h == free_lists(z, i)
           M == Members(z, i)
<1>1. h \in Node /\ h \notin M /\ M \in SUBSET Page
  BY HeadInNode, CoreFacts DEF Members
<1>2. next \in [Node -> Node] /\ prev \in [Node -> Node]
  BY DEF TypeInv, TypeOK
<1>3. M \subseteq free
  BY DEF Members, Core, OwnersInv
<1>4. M = {p \in linked : order[p] = i /\ (z = 1 <=> p >= HighStart)}
  BY DEF Members
<1>5. M = Members(z, i) /\ h = free_lists(z, i)
  OBVIOUS
<1> HIDE DEF M, h
<1>6. PICK now \in Nat : \E stamp, age :
        Circle(next, prev, M, h, stamp, now) /\ Circle(prev, next, M, h, age, now)
  BY <1>5, ListCircles
<1>7. Walk(next, h) = M \cup {h} /\ Walk(prev, h) = M \cup {h}
  <2>1. PICK stamp, age :
          Circle(next, prev, M, h, stamp, now) /\ Circle(prev, next, M, h, age, now)
    BY <1>6
  <2> QED
    BY <1>1, <1>2, <2>1, WalkExact
<1> QED
  BY <1>3, <1>4, <1>5, <1>7

\* Under the same condition each free list, walked by next or by prev from its
\* head, is a circle through exactly the free blocks of its order and zone:
\* list_insert and list_remove of include/list.h, as alloc_pages, free_pages
\* and init_free_pages use them, never drop, duplicate or misplace a block,
\* however many blocks a list holds.
THEOREM ListsCorrect ==
    ASSUME RangesApart(Regions)
    PROVE  Spec => []ListsExact
<1>1. Init => PartInv
  BY InitTypeInv, InitCore DEF PartInv
<1>2. PartInv /\ [Next]_vars => PartInv'
  BY PartNext
<1>3. PartInv => ListsExact
  <2> SUFFICES ASSUME PartInv PROVE ListsExact
    OBVIOUS
  <2>1. CASE mixed = 0
    BY <2>1, ListsFromCore DEF PartInv
  <2>2. CASE mixed # 0
    BY <2>2 DEF ListsExact
  <2> QED
    BY <2>1, <2>2
<1> QED
  BY <1>1, <1>2, <1>3, PTL DEF Spec

=============================================================================
