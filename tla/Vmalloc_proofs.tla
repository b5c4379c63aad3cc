--------------------------- MODULE Vmalloc_proofs ---------------------------
(* The areas of mm/vmalloc.c, their lists, the tree and the page tables, for *)
(* every range of addresses, every set of frames and every size of tables.   *)
EXTENDS Vmalloc, FiniteSetTheorems, SequenceTheorems, WellFoundedInduction, TLAPS

----------------------------------------------------------------------------
(* Powers of two, ilog2 and ilog2_roundup *)

Power == 0 .. MaxPower

LEMMA NatMin ==
    ASSUME NEW T \in SUBSET Nat, T # {}
    PROVE  \E m \in T : \A k \in T : m <= k
<1>1. PICK m \in T : \A k \in T : <<k, m>> \notin OpToRel(<, Nat)
  BY WFMin, NatLessThanWellFounded
<1>2. \A k \in T : ~(k < m)
  BY <1>1 DEF OpToRel
<1> QED
  BY <1>2

LEMMA PowType ==
    /\ \A k \in Power : 2 ^ k \in Nat \ {0}
    /\ \A k \in Power : 2 ^ (k + 1) = 2 * 2 ^ k
    /\ 2 ^ 0 = 1 /\ Power \subseteq Nat /\ 0 \in Power
<1>1. /\ \A k \in Power : 2 ^ k \in Nat \ {0} /\ 2 ^ (k + 1) = 2 * 2 ^ k
      /\ 2 ^ 0 = 1
  BY PowerAssumption DEF Power
<1>2. Power \subseteq Nat /\ 0 \in Power
  BY DEF Power, MaxPower
<1> QED
  BY <1>1, <1>2

LEMMA PowUp ==
    ASSUME NEW j \in Power, NEW k \in Power, j < k
    PROVE  2 * 2 ^ j <= 2 ^ k
<1> DEFINE T == {i \in Power : j < i /\ ~(2 * 2 ^ j <= 2 ^ i)}
<1> SUFFICES ASSUME T # {} PROVE FALSE
  OBVIOUS
<1>1. PICK m \in T : \A i \in T : m <= i
  <2>1. T \in SUBSET Nat
    BY PowType
  <2> HIDE DEF T
  <2> QED
    BY <2>1, NatMin
<1>2. m \in Power /\ j < m /\ ~(2 * 2 ^ j <= 2 ^ m)
  OBVIOUS
<1>3. m - 1 \in Power /\ j <= m - 1 /\ m - 1 < m /\ m \in Nat /\ j \in Nat
  BY <1>2 DEF Power, MaxPower
<1>4. 2 ^ ((m - 1) + 1) = 2 * 2 ^ (m - 1) /\ 2 ^ (m - 1) \in Nat /\ 2 ^ j \in Nat
  BY <1>3, PowType
<1>5. 2 ^ m = 2 * 2 ^ (m - 1)
  <2>1. (m - 1) + 1 = m
    BY <1>3
  <2> QED
    BY <1>4, <2>1
<1>6. m - 1 \notin T
  <2> HIDE DEF T
  <2> QED
    BY <1>1, <1>3
<1>7. CASE j = m - 1
  BY <1>2, <1>4, <1>5, <1>7
<1>8. CASE j # m - 1
  <2>1. j < m - 1
    BY <1>3, <1>8
  <2>2. 2 * 2 ^ j <= 2 ^ (m - 1)
    BY <1>3, <1>6, <2>1
  <2> QED
    BY <1>2, <1>4, <1>5, <2>2
<1> QED
  BY <1>7, <1>8

LEMMA PowMono ==
    ASSUME NEW j \in Power, NEW k \in Power, j <= k
    PROVE  2 ^ j <= 2 ^ k
<1>1. j \in Nat /\ k \in Nat /\ 2 ^ j \in Nat /\ 2 ^ k \in Nat
  BY PowType
<1>2. CASE j = k
  BY <1>1, <1>2
<1>3. CASE j # k
  <2>1. j < k
    BY <1>1, <1>3
  <2>2. 2 * 2 ^ j <= 2 ^ k
    BY <2>1, PowUp
  <2> QED
    BY <1>1, <2>2
<1> QED
  BY <1>2, <1>3

LEMMA Consts ==
    /\ MAX_VMA_ORDER \in Nat /\ MAX_VMA_ORDER \in Power /\ MAX_VMA_ORDER \in Order
    /\ Order \subseteq Power /\ Order \subseteq Nat
    /\ VMALLOC_END \in Nat /\ VMALLOC_END > 1 /\ VMALLOC_END - 1 < 2 ^ (MAX_VMA_ORDER + 1)
<1>1. MAX_VMA_ORDER \in Nat /\ MAX_VMA_ORDER <= 20
  BY AreaAssumption DEF MaxPower
<1>2. VMALLOC_END \in Nat /\ VMALLOC_END > 1
  BY AreaAssumption DEF VMALLOC_START
<1>3. /\ MAX_VMA_ORDER \in Power /\ MAX_VMA_ORDER \in Order
      /\ Order \subseteq Power /\ Order \subseteq Nat
  BY <1>1 DEF Order, Power, MaxPower
<1>4. 2 ^ (MAX_VMA_ORDER + 1) > VMALLOC_END - VMALLOC_START
  BY AreaAssumption
<1>5. 2 ^ (MAX_VMA_ORDER + 1) \in Nat
  <2>1. 2 ^ (MAX_VMA_ORDER + 1) = 2 * 2 ^ MAX_VMA_ORDER /\ 2 ^ MAX_VMA_ORDER \in Nat
    BY <1>3, PowType
  <2> QED
    BY <2>1
<1> QED
  BY <1>1, <1>2, <1>3, <1>4, <1>5 DEF VMALLOC_START

\* ilog2 is the number of the highest bit set.
LEMMA LogIs ==
    ASSUME NEW n \in Nat \ {0}, n < 2 ^ (MAX_VMA_ORDER + 1)
    PROVE  /\ ilog2(n) \in Order /\ 2 ^ ilog2(n) <= n /\ n < 2 ^ (ilog2(n) + 1)
<1> DEFINE T == {i \in Order : n < 2 ^ (i + 1)}
<1>1. PICK m \in T : \A i \in T : m <= i
  <2>1. T \in SUBSET Nat /\ T # {}
    BY Consts
  <2> HIDE DEF T
  <2> QED
    BY <2>1, NatMin
<1>2. m \in Order /\ m \in Power /\ m \in Nat /\ n < 2 ^ (m + 1)
  BY Consts
<1>3. 2 ^ m <= n
  <2>1. CASE m = 0
    BY <2>1, PowType
  <2>2. CASE m # 0
    <3>1. m - 1 \in Order /\ m - 1 < m
      BY Consts, <1>2, <2>2 DEF Order
    <3>2. m - 1 \notin T
      <4> HIDE DEF T
      <4> QED
        BY <1>1, <1>2, <3>1
    <3>3. ~(n < 2 ^ ((m - 1) + 1)) /\ (m - 1) + 1 = m
      BY <1>2, <3>1, <3>2
    <3> QED
      BY <1>2, <3>3, PowType
  <2> QED
    BY <2>1, <2>2
<1> DEFINE G(k) == 2 ^ k <= n /\ n < 2 ^ (k + 1)
<1>4. G(m)
  BY <1>2, <1>3
<1>5. ilog2(n) = CHOOSE k \in Power : G(k)
  BY DEF ilog2, Power
<1>6. ilog2(n) \in Power /\ G(ilog2(n))
  <2> HIDE DEF G
  <2> QED
    BY <1>2, <1>4, <1>5
<1>7. ilog2(n) <= m
  <2>1. PICK k : k = ilog2(n)
    OBVIOUS
  <2>2. k \in Power /\ k \in Nat /\ 2 ^ k <= n /\ n < 2 ^ (k + 1)
    BY <1>6, <2>1, PowType
  <2> SUFFICES ASSUME m < k PROVE FALSE
    BY <1>2, <2>1, <2>2
  <2>3. 2 * 2 ^ m <= 2 ^ k /\ 2 ^ (m + 1) = 2 * 2 ^ m /\ 2 ^ m \in Nat /\ 2 ^ k \in Nat
    BY <1>2, <2>2, PowUp, PowType
  <2> QED
    BY <1>2, <2>2, <2>3
<1>8. ilog2(n) \in Nat /\ m \in 0 .. MAX_VMA_ORDER /\ MAX_VMA_ORDER \in Nat
  BY <1>2, <1>6, Consts, PowType DEF Order
<1>9. ilog2(n) \in Order
  BY <1>7, <1>8 DEF Order
<1> QED
  BY <1>6, <1>9

\* the sizes alloc_vma is called with: vmalloc's, and vmap's
Asked == Sizes \cup {1}

\* ilog2_roundup is the least power of two not below n.
LEMMA RoundupIs ==
    ASSUME NEW n \in Asked
    PROVE  ilog2_roundup(n) \in Power /\ n <= 2 ^ ilog2_roundup(n) /\ n \in Nat \ {0}
<1>0. n \in Nat \ {0} /\ n <= 2 ^ MaxPower /\ MaxPower \in Power /\ MaxPower \in Nat
  <2>1. MaxPower \in Power /\ MaxPower \in Nat
    BY DEF Power, MaxPower
  <2>2. 2 ^ MaxPower \in Nat \ {0}
    BY <2>1, PowType
  <2>3. Sizes \subseteq 1 .. 2 ^ MaxPower
    BY AreaAssumption
  <2> QED
    BY <2>1, <2>2, <2>3 DEF Asked
<1> DEFINE T == {i \in Power : n <= 2 ^ i}
<1>1. PICK m \in T : \A i \in T : m <= i
  <2>1. T \in SUBSET Nat /\ T # {}
    BY <1>0, PowType
  <2> HIDE DEF T
  <2> QED
    BY <2>1, NatMin
<1>2. m \in Power /\ m \in Nat /\ n <= 2 ^ m
  BY PowType
<1>3. m = 0 \/ 2 ^ (m - 1) < n
  <2> SUFFICES ASSUME m # 0 PROVE 2 ^ (m - 1) < n
    OBVIOUS
  <2>1. m - 1 \in Power /\ m - 1 < m
    BY <1>2 DEF Power, MaxPower
  <2>2. m - 1 \notin T
    <3> HIDE DEF T
    <3> QED
      BY <1>1, <1>2, <2>1
  <2> QED
    BY <1>0, <2>1, <2>2, PowType
<1> DEFINE G(k) == n <= 2 ^ k /\ (k = 0 \/ 2 ^ (k - 1) < n)
<1>4. G(m)
  BY <1>2, <1>3
<1>5. ilog2_roundup(n) = CHOOSE k \in Power : G(k)
  BY DEF ilog2_roundup, Power
<1>6. ilog2_roundup(n) \in Power /\ G(ilog2_roundup(n))
  <2> HIDE DEF G
  <2> QED
    BY <1>2, <1>4, <1>5
<1> QED
  BY <1>0, <1>6

----------------------------------------------------------------------------
(* The lists: each is empty or has one area *)

LEMMA RemoveOne ==
    ASSUME NEW a, NEW e
    PROVE  /\ RemoveFirst(<<>>, e) = <<>>
           /\ RemoveFirst(<<e>>, e) = <<>>
           /\ a # e => RemoveFirst(<<a>>, e) = <<a>>
           /\ a # e => RemoveFirst(<<a, e>>, e) = <<a>>
<1>1. RemoveFirst(<<>>, e) = <<>>
  BY DEF RemoveFirst
<1>2. a # e => RemoveFirst(<<a>>, e) = <<a>>
  <2>1. Len(<<a>>) = 1 /\ <<a>>[1] = a /\ \A i \in 1 .. 1 : i = 1
    OBVIOUS
  <2>2. a # e => ~\E i \in 1 .. Len(<<a>>) : <<a>>[i] = e
    BY <2>1
  <2> QED
    BY <2>2 DEF RemoveFirst
<1>3. ASSUME NEW s, NEW i \in Nat, {j \in 1 .. Len(s) : s[j] = e} = {i}
      PROVE  RemoveFirst(s, e) = RemoveAt(s, i)
  <2>1. \E j \in 1 .. Len(s) : s[j] = e
    BY <1>3
  <2>2. Min({i}) = i
    BY DEF Min
  <2>3. SelectInSeq(s, LAMBDA v : v = e) = i
    BY <1>3, <2>2 DEF SelectInSeq
  <2> QED
    BY <2>1, <2>3 DEF RemoveFirst
<1>4. RemoveFirst(<<e>>, e) = <<>>
  <2>1. {j \in 1 .. Len(<<e>>) : <<e>>[j] = e} = {1}
    OBVIOUS
  <2>2. RemoveFirst(<<e>>, e) = RemoveAt(<<e>>, 1)
    BY <1>3, <2>1
  <2> QED
    BY <2>2 DEF RemoveAt
<1>5. ASSUME a # e PROVE RemoveFirst(<<a, e>>, e) = <<a>>
  <2>1. {j \in 1 .. Len(<<a, e>>) : <<a, e>>[j] = e} = {2}
    <3>1. Len(<<a, e>>) = 2 /\ <<a, e>>[1] = a /\ <<a, e>>[2] = e
      OBVIOUS
    <3> QED
      BY <1>5, <3>1
  <2>2. RemoveFirst(<<a, e>>, e) = RemoveAt(<<a, e>>, 2)
    BY <1>3, <2>1
  <2>3. PICK s : s = <<a, e>>
    OBVIOUS
  <2>4. s \in Seq({a, e}) /\ Len(s) = 2 /\ s[1] = a /\ s[2] = e
    BY <2>3
  <2>5. SubSeq(s, 3, 2) = <<>>
    BY <2>4
  <2>6. SubSeq(s, 1, 1) = <<a>>
    <3>1. SubSeq(s, 1, 1) \in Seq({a, e}) /\ Len(SubSeq(s, 1, 1)) = 1 /\ SubSeq(s, 1, 1)[1] = a
      BY <2>4
    <3>2. <<a>> \in Seq({a, e}) /\ Len(<<a>>) = 1 /\ <<a>>[1] = a /\ \A i \in 1 .. 1 : i = 1
      OBVIOUS
    <3> QED
      BY <3>1, <3>2, SeqEqual
  <2>7. RemoveAt(s, 2) = SubSeq(s, 1, 2 - 1) \o SubSeq(s, 2 + 1, 2)
    BY <2>4 DEF RemoveAt
  <2>8. 2 - 1 = 1 /\ 2 + 1 = 3 /\ <<a>> \o <<>> = <<a>>
    OBVIOUS
  <2> QED
    BY <2>2, <2>3, <2>5, <2>6, <2>7, <2>8
<1> QED
  BY <1>1, <1>2, <1>4, <1>5

NoList == [q \in Order |-> <<>>]
OneList(o, s) == [q \in Order |-> IF q = o THEN <<s>> ELSE <<>>]

----------------------------------------------------------------------------
(* vma_list after alloc_vma *)

Area == [start : Nat, end : Nat, free : BOOLEAN, pages : Seq(Nat)]
InUse(s, e, p) == vm_area(s, e, FALSE, p)
Free(s, e) == vm_area(s, e, TRUE, <<>>)

LEMMA Replaced ==
    ASSUME NEW S, NEW s \in Seq(S), NEW i \in 1 .. Len(s), NEW x \in S, NEW t, t = [s EXCEPT ![i] = x]
    PROVE  /\ t \in Seq(S) /\ Len(t) = Len(s) /\ t[i] = x
           /\ \A j \in 1 .. Len(s) : j # i => t[j] = s[j]
OBVIOUS

LEMMA AreaIs ==
    ASSUME NEW v \in Area
    PROVE  /\ v = [start |-> v.start, end |-> v.end, free |-> v.free, pages |-> v.pages]
           /\ v.start \in Nat /\ v.end \in Nat /\ v.free \in BOOLEAN /\ v.pages \in Seq(Nat)
BY DEF Area

LEMMA AreaType ==
    ASSUME NEW s \in Nat, NEW e \in Nat, NEW b \in BOOLEAN, NEW p \in Seq(Nat)
    PROVE  vm_area(s, e, b, p) \in Area
BY DEF vm_area, Area

LEMMA NewAreas ==
    ASSUME NEW s \in Nat, NEW e \in Nat, NEW p \in Seq(Nat)
    PROVE  /\ InUse(s, e, p) \in Area /\ Free(s, e) \in Area
           /\ InUse(s, e, p).start = s /\ InUse(s, e, p).end = e
           /\ ~InUse(s, e, p).free /\ InUse(s, e, p).pages = p
           /\ Free(s, e).start = s /\ Free(s, e).end = e /\ Free(s, e).free
<1>1. <<>> \in Seq(Nat)
  OBVIOUS
<1>2. InUse(s, e, p) \in Area /\ Free(s, e) \in Area
  BY <1>1, AreaType DEF InUse, Free
<1>3. /\ InUse(s, e, p).start = s /\ InUse(s, e, p).end = e
      /\ ~InUse(s, e, p).free /\ InUse(s, e, p).pages = p
  BY DEF InUse, vm_area
<1>4. Free(s, e).start = s /\ Free(s, e).end = e /\ Free(s, e).free
  BY DEF Free, vm_area
<1> QED
  BY <1>2, <1>3, <1>4

\* B is A with its last area in use up to e and, if m is 1, the rest after it.
Cut(A, B, e, p, m) ==
    /\ B \in Seq(Area) /\ Len(B) = Len(A) + m
    /\ \A i \in 1 .. Len(A) - 1 : B[i] = A[i]
    /\ B[Len(A)] = InUse(A[Len(A)].start, e, p)
    /\ m = 1 => B[Len(B)] = Free(e, A[Len(A)].end)

\* E is A with u as its last element and b after it; or without b
WithRest(S, A, E, u, b) ==
    /\ E \in Seq(S) /\ Len(E) = Len(A) + 1 /\ E[Len(A)] = u /\ E[Len(A) + 1] = b
    /\ \A i \in 1 .. Len(A) - 1 : E[i] = A[i]
NoRest(S, A, E, u) ==
    /\ E \in Seq(S) /\ Len(E) = Len(A) /\ E[Len(A)] = u
    /\ \A i \in 1 .. Len(A) - 1 : E[i] = A[i]

LEMMA InsertLast ==
    ASSUME NEW S, NEW A \in Seq(S), NEW L, L = Len(A), L > 0,
           NEW w \in S, NEW u \in S, NEW b \in S,
           NEW D, D = InsertAt(ReplaceAt(A, L, w), L + 1, b),
           NEW E, E = ReplaceAt(D, L, u)
    PROVE  D[L] = w /\ WithRest(S, A, E, u, b)
<1>1. L \in Nat \ {0} /\ L \in 1 .. Len(A)
  OBVIOUS
<1> DEFINE R == [A EXCEPT ![L] = w]
<1>2. D = InsertAt(R, L + 1, b)
  BY DEF ReplaceAt
<1>3. R \in Seq(S) /\ Len(R) = L /\ R[L] = w /\ \A i \in 1 .. L - 1 : R[i] = A[i]
  BY <1>1, Replaced
<1> HIDE DEF R
<1>4. D = Append(R, b)
  <2>1. D = SubSeq(R, 1, L) \o <<b>> \o SubSeq(R, L + 1, L)
    <3>1. (L + 1) - 1 = L /\ Len(R) = L
      BY <1>1, <1>3
    <3> QED
      BY <1>2, <3>1 DEF InsertAt
  <2>2. SubSeq(R, 1, L) = R /\ SubSeq(R, L + 1, L) = <<>>
    BY <1>1, <1>3
  <2>3. D = R \o <<b>> \o <<>>
    BY <2>1, <2>2
  <2>4. R \o <<b>> \o <<>> = Append(R, b)
    BY <1>3
  <2> QED
    BY <2>3, <2>4
<1>5. /\ D \in Seq(S) /\ Len(D) = L + 1 /\ D[L + 1] = b /\ \A i \in 1 .. L : D[i] = R[i]
  BY <1>1, <1>3, <1>4
<1>6. PICK B : B = [D EXCEPT ![L] = u]
  OBVIOUS
<1>7. L \in 1 .. Len(D) /\ \A i \in 1 .. L - 1 : i \in 1 .. L /\ i \in 1 .. L + 1 /\ i # L
  BY <1>1, <1>5
<1>8. /\ B \in Seq(S) /\ Len(B) = L + 1 /\ B[L] = u
      /\ \A i \in 1 .. L + 1 : i # L => B[i] = D[i]
  BY <1>5, <1>6, <1>7, Replaced
<1>9. B[L + 1] = b /\ \A i \in 1 .. L - 1 : B[i] = A[i]
  <2>1. L + 1 \in 1 .. L + 1 /\ L + 1 # L
    BY <1>1
  <2>2. B[L + 1] = b
    BY <1>5, <1>8, <2>1
  <2>3. ASSUME NEW i \in 1 .. L - 1 PROVE B[i] = A[i]
    <3>1. B[i] = D[i] /\ D[i] = R[i] /\ R[i] = A[i]
      BY <1>3, <1>5, <1>7, <1>8
    <3> QED
      BY <3>1
  <2> QED
    BY <2>2, <2>3
<1>10. D[L] = w
  BY <1>1, <1>3, <1>5
<1> QED
  BY <1>6, <1>8, <1>9, <1>10 DEF ReplaceAt, WithRest

LEMMA ReplaceLast ==
    ASSUME NEW S, NEW A \in Seq(S), NEW L, L = Len(A), L > 0, NEW w \in S, NEW u \in S,
           NEW D, D = ReplaceAt(A, L, w), NEW E, E = ReplaceAt(D, L, u)
    PROVE  D[L] = w /\ NoRest(S, A, E, u)
<1>1. L \in Nat \ {0} /\ L \in 1 .. Len(A) /\ \A i \in 1 .. L - 1 : i \in 1 .. L /\ i # L
  OBVIOUS
<1>2. D = [A EXCEPT ![L] = w]
  BY DEF ReplaceAt
<1>3. D \in Seq(S) /\ Len(D) = L /\ D[L] = w /\ \A i \in 1 .. L : i # L => D[i] = A[i]
  BY <1>1, <1>2, Replaced
<1>4. PICK B : B = [D EXCEPT ![L] = u]
  OBVIOUS
<1>5. B \in Seq(S) /\ Len(B) = L /\ B[L] = u /\ \A i \in 1 .. L : i # L => B[i] = D[i]
  BY <1>1, <1>3, <1>4, Replaced
<1>6. \A i \in 1 .. L - 1 : B[i] = A[i]
  BY <1>1, <1>3, <1>5
<1> QED
  BY <1>3, <1>4, <1>5, <1>6 DEF ReplaceAt, NoRest

LEMMA UseParts ==
    ASSUME NEW v \in Area, NEW e \in Nat, NEW p \in Seq(Nat),
           NEW w, w = InUse(v.start, e, <<>>)
    PROVE  /\ v.start \in Nat /\ v.end \in Nat /\ w \in Area
           /\ InUse(v.start, e, p) \in Area /\ Free(e, v.end) \in Area
<1>1. v.start \in Nat /\ v.end \in Nat /\ <<>> \in Seq(Nat)
  BY AreaIs
<1>2. w \in Area
  BY <1>1, NewAreas
<1>3. InUse(v.start, e, p) \in Area /\ Free(e, v.end) \in Area
  BY <1>1, NewAreas
<1> QED
  BY <1>1, <1>2, <1>3

LEMMA CutRest ==
    ASSUME NEW A \in Seq(Area), NEW L, L = Len(A), L > 0, NEW e \in Nat, NEW p \in Seq(Nat),
           NEW v, v = A[L],
           NEW D, D = InsertAt(ReplaceAt(A, L, InUse(v.start, e, <<>>)), L + 1, Free(e, v.end))
    PROVE  Cut(A, Fill(D, L, p), e, p, 1)
<1>1. v \in Area
  OBVIOUS
<1>2. PICK w, u, b : w = InUse(v.start, e, <<>>) /\ u = InUse(v.start, e, p) /\ b = Free(e, v.end)
  OBVIOUS
<1>3. w \in Area /\ u \in Area /\ b \in Area
  BY <1>1, <1>2, UseParts
<1>0. vm_area(w.start, w.end, w.free, p) = u
  BY <1>2 DEF InUse, vm_area
<1>6. D = InsertAt(ReplaceAt(A, L, w), L + 1, b)
  BY <1>2
<1>4. D[L] = w /\ WithRest(Area, A, ReplaceAt(D, L, u), u, b)
  BY <1>3, <1>6, InsertLast
<1>5. Fill(D, L, p) = ReplaceAt(D, L, u)
  BY <1>0, <1>4 DEF Fill
<1> QED
  BY <1>2, <1>4, <1>5 DEF Cut, WithRest

LEMMA CutAll ==
    ASSUME NEW A \in Seq(Area), NEW L, L = Len(A), L > 0, NEW p \in Seq(Nat),
           NEW v, v = A[L],
           NEW D, D = ReplaceAt(A, L, InUse(v.start, v.end, <<>>))
    PROVE  Cut(A, Fill(D, L, p), v.end, p, 0)
<1>1. v \in Area /\ v.end \in Nat
  BY AreaIs
<1>2. PICK w, u : w = InUse(v.start, v.end, <<>>) /\ u = InUse(v.start, v.end, p)
  OBVIOUS
<1>3. w \in Area /\ u \in Area
  BY <1>1, <1>2, UseParts
<1>0. vm_area(w.start, w.end, w.free, p) = u
  BY <1>2 DEF InUse, vm_area
<1>6. D = ReplaceAt(A, L, w)
  BY <1>2
<1>4. D[L] = w /\ NoRest(Area, A, ReplaceAt(D, L, u), u)
  BY <1>3, <1>6, ReplaceLast
<1>5. Fill(D, L, p) = ReplaceAt(D, L, u)
  BY <1>0, <1>4 DEF Fill
<1> QED
  BY <1>2, <1>4, <1>5 DEF Cut, NoRest

----------------------------------------------------------------------------
(* The inductive invariant of the areas.  vfree and vunmap never return, so  *)
(* areas are only ever cut from the front of the last one: it is the only    *)
(* one that may be free, and at most one list has an area.                   *)

Ordered(A) ==
    /\ \A i \in 1 .. Len(A) : A[i].start < A[i].end
    /\ A[1].start = VMALLOC_START /\ A[Len(A)].end = VMALLOC_END
    /\ \A i \in 1 .. Len(A) - 1 : A[i].end = A[i + 1].start /\ ~A[i].free
    /\ \A i, j \in 1 .. Len(A) : i < j => A[i].end <= A[j].start

Spans(A) == {<<A[i].start, A[i].end - 1>> : i \in {j \in 1 .. Len(A) : ~A[j].free}}

LastArea == areas[Len(areas)]

AreasInv ==
    /\ areas \in Seq(Area) /\ Len(areas) > 0
    /\ Ordered(areas)
    /\ members \subseteq Spans(areas)
    /\ ~untracked => members = Spans(areas)

ListsInv ==
    \/ lists = NoList /\ (LastArea.free => unlisted)
    \/ LastArea.free /\ lists = OneList(ilog2(vma_length(LastArea)), LastArea.start)

LEMMA AreaBounds ==
    ASSUME NEW A \in Seq(Area), Len(A) > 0, Ordered(A), NEW i \in 1 .. Len(A)
    PROVE  /\ A[i] \in Area /\ A[i].start \in Nat /\ A[i].end \in Nat
           /\ 1 <= A[i].start /\ A[i].start < A[i].end /\ A[i].end <= VMALLOC_END
<1>1. \A j \in 1 .. Len(A) : A[j] \in Area
  OBVIOUS
<1>2. \A j \in 1 .. Len(A) : A[j].start \in Nat /\ A[j].end \in Nat /\ A[j].start < A[j].end
  BY <1>1, AreaIs DEF Ordered
<1>3. Len(A) \in Nat \ {0} /\ 1 \in 1 .. Len(A) /\ Len(A) \in 1 .. Len(A)
  OBVIOUS
<1>4. A[1].start = 1 /\ A[Len(A)].end = VMALLOC_END /\ VMALLOC_END \in Nat
  BY Consts DEF Ordered, VMALLOC_START
<1>5. 1 <= A[i].start
  <2>1. CASE i = 1
    BY <1>4, <2>1
  <2>2. CASE i # 1
    <3>1. 1 < i
      BY <2>2
    <3>2. A[1].end <= A[i].start
      BY <1>3, <3>1 DEF Ordered
    <3> QED
      BY <1>2, <1>3, <1>4, <3>2
  <2> QED
    BY <2>1, <2>2
<1>6. A[i].end <= VMALLOC_END
  <2>1. CASE i = Len(A)
    BY <1>2, <1>4, <2>1
  <2>2. CASE i # Len(A)
    <3>1. i < Len(A)
      BY <1>3, <2>2
    <3>2. A[i].end <= A[Len(A)].start
      BY <1>3, <3>1 DEF Ordered
    <3> QED
      BY <1>2, <1>3, <1>4, <3>2
  <2> QED
    BY <2>1, <2>2
<1> QED
  BY <1>1, <1>2, <1>5, <1>6

\* Cutting the last area keeps the order.
LEMMA OrderedCut ==
    ASSUME NEW A \in Seq(Area), NEW L, L = Len(A), L > 0, Ordered(A), NEW B, NEW e \in Nat,
           NEW p \in Seq(Nat), NEW m \in {0, 1}, Cut(A, B, e, p, m),
           NEW v, v = A[L], v.start < e, m = 1 => e < v.end, m = 0 => e = v.end
    PROVE  Ordered(B)
<1>1. L \in Nat \ {0} /\ L \in 1 .. L /\ Len(B) = L + m
  BY DEF Cut
<1>2. /\ \A i \in 1 .. L - 1 : B[i] = A[i]
      /\ B[L] = InUse(v.start, e, p)
      /\ m = 1 => B[L + 1] = Free(e, v.end)
  BY DEF Cut
<1>3. v \in Area /\ v.start \in Nat /\ v.end \in Nat
  BY AreaIs
<1>4. B[L].start = v.start /\ B[L].end = e /\ ~B[L].free
  BY <1>2, <1>3, NewAreas
<1>5. m = 1 => B[L + 1].start = e /\ B[L + 1].end = v.end
  BY <1>2, <1>3, NewAreas
<1>6. \A i \in 1 .. L : A[i].start \in Nat /\ A[i].end \in Nat /\ A[i].start < A[i].end
  BY <1>1, AreaBounds
<1>7. \A i \in 1 .. L : i # L => i \in 1 .. L - 1 /\ i < L
  BY <1>1
<1>8. \A i \in 1 .. L : B[i].start = A[i].start /\ (i # L => B[i].end = A[i].end)
  BY <1>2, <1>4, <1>7
<1>9. \A i \in 1 .. Len(B) : i \in 1 .. L \/ (m = 1 /\ i = L + 1)
  BY <1>1
<1>10. \A i \in 1 .. Len(B) : B[i].start < B[i].end
  <2> SUFFICES ASSUME NEW i \in 1 .. Len(B) PROVE B[i].start < B[i].end
    OBVIOUS
  <2>1. CASE i = L
    BY <1>4, <2>1
  <2>2. CASE i \in 1 .. L /\ i # L
    BY <1>6, <1>8, <2>2
  <2>3. CASE m = 1 /\ i = L + 1
    BY <1>5, <2>3
  <2> QED
    BY <1>9, <2>1, <2>2, <2>3
<1>11. B[1].start = VMALLOC_START
  <2>1. 1 \in 1 .. L
    BY <1>1
  <2> QED
    BY <1>8, <2>1 DEF Ordered
<1>12. B[Len(B)].end = VMALLOC_END
  <2>1. v.end = VMALLOC_END
    BY DEF Ordered
  <2>2. CASE m = 0
    BY <1>1, <1>4, <2>1, <2>2
  <2>3. CASE m = 1
    BY <1>1, <1>5, <2>1, <2>3
  <2> QED
    BY <2>2, <2>3
<1>13. ASSUME NEW i \in 1 .. Len(B) - 1 PROVE B[i].end = B[i + 1].start /\ ~B[i].free
  <2>1. i \in 1 .. L /\ (i # L => i \in 1 .. L - 1 /\ i + 1 \in 1 .. L) /\ (i = L => m = 1)
    BY <1>1
  <2>2. CASE i = L
    BY <1>4, <1>5, <2>1, <2>2
  <2>3. CASE i # L
    <3>1. A[i].end = A[i + 1].start /\ ~A[i].free
      BY <2>1, <2>3 DEF Ordered
    <3>2. B[i] = A[i] /\ B[i + 1].start = A[i + 1].start
      BY <1>2, <1>8, <2>1, <2>3
    <3> QED
      BY <3>1, <3>2
  <2> QED
    BY <2>2, <2>3
<1>14. ASSUME NEW i \in 1 .. Len(B), NEW j \in 1 .. Len(B), i < j PROVE B[i].end <= B[j].start
  <2>1. i \in 1 .. L /\ i \in Nat /\ j \in Nat
    BY <1>1, <1>14
  <2>2. CASE j \in 1 .. L
    <3>1. i # L /\ i \in 1 .. L - 1
      BY <1>1, <1>14, <2>2
    <3>2. A[i].end <= A[j].start
      BY <1>14, <2>1, <2>2 DEF Ordered
    <3> QED
      BY <1>8, <2>1, <2>2, <3>1, <3>2
  <2>3. CASE m = 1 /\ j = L + 1
    <3>1. CASE i = L
      BY <1>4, <1>5, <2>3, <3>1
    <3>2. CASE i # L
      <4>1. i < L /\ A[i].end <= A[L].start
        BY <1>1, <1>7, <2>1, <3>2 DEF Ordered
      <4>2. A[i].end \in Nat /\ B[i].end = A[i].end
        BY <1>6, <1>8, <2>1, <3>2
      <4> QED
        BY <1>3, <1>5, <2>3, <4>1, <4>2
    <3> QED
      BY <3>1, <3>2
  <2> QED
    BY <1>9, <2>2, <2>3
<1> QED
  BY <1>10, <1>11, <1>12, <1>13, <1>14 DEF Ordered

LEMMA SpansCut ==
    ASSUME NEW A \in Seq(Area), NEW L, L = Len(A), L > 0, NEW B, NEW e \in Nat,
           NEW p \in Seq(Nat), NEW m \in {0, 1}, Cut(A, B, e, p, m),
           NEW v, v = A[L], v.free
    PROVE  Spans(B) = Spans(A) \cup {<<v.start, e - 1>>}
<1>1. L \in Nat \ {0} /\ L \in 1 .. L /\ Len(B) = L + m
  BY DEF Cut
<1>2. /\ \A i \in 1 .. L - 1 : B[i] = A[i]
      /\ B[L] = InUse(v.start, e, p)
      /\ m = 1 => B[L + 1] = Free(e, v.end)
  BY DEF Cut
<1>3. v \in Area /\ v.start \in Nat /\ v.end \in Nat
  BY AreaIs
<1>4. B[L].start = v.start /\ B[L].end = e /\ ~B[L].free
  BY <1>2, <1>3, NewAreas
<1>5. m = 1 => B[L + 1].free
  BY <1>2, <1>3, NewAreas
<1>6. \A i : (i \in 1 .. Len(B) /\ ~B[i].free) <=> (i = L \/ (i \in 1 .. L - 1 /\ ~A[i].free))
  <2> SUFFICES ASSUME NEW i
               PROVE (i \in 1 .. Len(B) /\ ~B[i].free) <=> (i = L \/ (i \in 1 .. L - 1 /\ ~A[i].free))
    OBVIOUS
  <2>1. i \in 1 .. Len(B) <=> (i = L \/ i \in 1 .. L - 1 \/ (m = 1 /\ i = L + 1))
    BY <1>1
  <2>2. CASE i = L
    BY <1>4, <2>1, <2>2
  <2>3. CASE i \in 1 .. L - 1
    BY <1>1, <1>2, <2>1, <2>3
  <2>4. CASE m = 1 /\ i = L + 1
    <3>1. i # L /\ i \notin 1 .. L - 1
      BY <1>1, <2>4
    <3> QED
      BY <1>5, <2>4, <3>1
  <2> QED
    BY <2>1, <2>2, <2>3, <2>4
<1>7. \A i : (i \in 1 .. Len(A) /\ ~A[i].free) <=> (i \in 1 .. L - 1 /\ ~A[i].free)
  <2>1. \A i : i \in 1 .. L <=> (i = L \/ i \in 1 .. L - 1)
    BY <1>1
  <2> QED
    BY <2>1
<1>8. Spans(B) = {<<B[i].start, B[i].end - 1>> : i \in {j \in 1 .. Len(B) : ~B[j].free}}
  BY DEF Spans
<1>9. Spans(A) = {<<A[i].start, A[i].end - 1>> : i \in {j \in 1 .. Len(A) : ~A[j].free}}
  BY DEF Spans
<1>10. ASSUME NEW x \in Spans(B) PROVE x \in Spans(A) \cup {<<v.start, e - 1>>}
  <2>1. PICK i \in {j \in 1 .. Len(B) : ~B[j].free} : x = <<B[i].start, B[i].end - 1>>
    BY <1>8, <1>10
  <2>2. i = L \/ (i \in 1 .. L - 1 /\ ~A[i].free)
    BY <1>6, <2>1
  <2>3. CASE i = L
    BY <1>4, <2>1, <2>3
  <2>4. CASE i \in 1 .. L - 1 /\ ~A[i].free
    <3>1. x = <<A[i].start, A[i].end - 1>> /\ i \in {j \in 1 .. Len(A) : ~A[j].free}
      BY <1>2, <1>7, <2>1, <2>4
    <3> QED
      BY <1>9, <3>1
  <2> QED
    BY <2>2, <2>3, <2>4
<1>11. ASSUME NEW x \in Spans(A) PROVE x \in Spans(B)
  <2>1. PICK i \in {j \in 1 .. Len(A) : ~A[j].free} : x = <<A[i].start, A[i].end - 1>>
    BY <1>9, <1>11
  <2>2. i \in 1 .. L - 1 /\ ~A[i].free
    BY <1>7, <2>1
  <2>3. x = <<B[i].start, B[i].end - 1>> /\ i \in {j \in 1 .. Len(B) : ~B[j].free}
    BY <1>2, <1>6, <2>1, <2>2
  <2> QED
    BY <1>8, <2>3
<1>12. <<v.start, e - 1>> \in Spans(B)
  <2>1. L \in {j \in 1 .. Len(B) : ~B[j].free} /\ <<B[L].start, B[L].end - 1>> = <<v.start, e - 1>>
    BY <1>4, <1>6
  <2> QED
    BY <1>8, <2>1
<1> QED
  BY <1>10, <1>11, <1>12

----------------------------------------------------------------------------
(* alloc_vma takes the last area *)

LEMMA LastIs ==
    ASSUME AreasInv
    PROVE  /\ Len(areas) \in Nat \ {0} /\ Len(areas) \in 1 .. Len(areas) /\ LastArea \in Area
           /\ LastArea.start \in Nat /\ LastArea.end \in Nat /\ 1 <= LastArea.start
           /\ LastArea.start < LastArea.end /\ LastArea.end = VMALLOC_END
           /\ vma_length(LastArea) \in Nat \ {0}
           /\ vma_length(LastArea) < 2 ^ (MAX_VMA_ORDER + 1)
<1>1. areas \in Seq(Area) /\ Len(areas) > 0 /\ Ordered(areas)
  BY DEF AreasInv
<1>2. Len(areas) \in Nat \ {0} /\ Len(areas) \in 1 .. Len(areas)
  BY <1>1
<1>3. /\ LastArea \in Area /\ LastArea.start \in Nat /\ LastArea.end \in Nat
      /\ 1 <= LastArea.start /\ LastArea.start < LastArea.end
  BY <1>1, <1>2, AreaBounds DEF LastArea
<1>4. LastArea.end = VMALLOC_END
  BY <1>1 DEF Ordered, LastArea
<1>5. 2 ^ (MAX_VMA_ORDER + 1) \in Nat
  <2>1. 2 ^ (MAX_VMA_ORDER + 1) = 2 * 2 ^ MAX_VMA_ORDER /\ 2 ^ MAX_VMA_ORDER \in Nat
    BY Consts, PowType
  <2> QED
    BY <2>1
<1>6. VMALLOC_END \in Nat /\ VMALLOC_END - 1 < 2 ^ (MAX_VMA_ORDER + 1)
  BY Consts
<1>7. vma_length(LastArea) = VMALLOC_END - LastArea.start
  BY <1>4 DEF vma_length
<1> QED
  BY <1>2, <1>3, <1>4, <1>5, <1>6, <1>7

\* The area found is the last one, free and long enough.
LEMMA TakenIs ==
    ASSUME AreasInv, ListsInv, NEW n \in Asked, Candidates(n) # {}
    PROVE  /\ Taken(n) = Len(areas) /\ LastArea.free
           /\ lists = OneList(ilog2(vma_length(LastArea)), LastArea.start)
           /\ n <= vma_length(LastArea) /\ n \in Nat \ {0}
<1> DEFINE o == ilog2(vma_length(LastArea))
           s == LastArea.start
           r == ilog2_roundup(n)
<1>1. o \in Order /\ 2 ^ o <= vma_length(LastArea)
  BY LastIs, LogIs
<1>2. r \in Power /\ n <= 2 ^ r /\ n \in Nat \ {0}
  BY RoundupIs
<1>3. Candidates(n) = {q \in r .. MAX_VMA_ORDER : lists[q] # <<>>}
  BY DEF Candidates
<1>4. \A q \in r .. MAX_VMA_ORDER : q \in Order
  <2>1. r \in Nat /\ MAX_VMA_ORDER \in Nat
    BY <1>2, Consts, PowType
  <2> HIDE DEF r
  <2> QED
    BY <2>1 DEF Order
<1>5. LastArea.free /\ lists = OneList(o, s)
  <2>1. lists # NoList
    BY <1>3, <1>4 DEF NoList
  <2> QED
    BY <2>1 DEF ListsInv
<1> HIDE DEF o, s, r
<1>6. \A q \in Order : lists[q] = IF q = o THEN <<s>> ELSE <<>>
  BY <1>5 DEF OneList
<1>7. o \in r .. MAX_VMA_ORDER /\ Candidates(n) = {o}
  <2>1. \A q \in Candidates(n) : q = o /\ q \in r .. MAX_VMA_ORDER
    BY <1>3, <1>4, <1>6
  <2> QED
    BY <2>1
<1>8. n <= vma_length(LastArea)
  <2>1. o \in Power /\ r <= o /\ o \in Nat /\ r \in Nat
    BY <1>1, <1>2, <1>7, Consts, PowType
  <2>2. 2 ^ r <= 2 ^ o /\ 2 ^ r \in Nat /\ 2 ^ o \in Nat
    BY <1>2, <2>1, PowMono, PowType
  <2>3. vma_length(LastArea) \in Nat
    BY LastIs
  <2> QED
    BY <1>1, <1>2, <2>2, <2>3
<1>9. Min(Candidates(n)) = o
  <2>1. o \in Nat
    BY <1>1, Consts
  <2>2. Min({o}) = o
    BY <2>1 DEF Min
  <2> QED
    BY <1>7, <2>2
<1>10. Head(lists[o]) = s
  <2>1. lists[o] = <<s>>
    BY <1>1, <1>6
  <2> QED
    BY <2>1
<1>11. Taken(n) = CHOOSE i \in DOMAIN areas : areas[i].start = s
  BY <1>9, <1>10 DEF Taken
<1>12. DOMAIN areas = 1 .. Len(areas) /\ Len(areas) \in DOMAIN areas
  BY LastIs DEF AreasInv
<1>13. ASSUME NEW i \in 1 .. Len(areas), areas[i].start = s PROVE i = Len(areas)
  <2> SUFFICES ASSUME i # Len(areas) PROVE FALSE
    OBVIOUS
  <2>1. i < Len(areas) /\ Len(areas) \in 1 .. Len(areas)
    BY LastIs
  <2>2. areas[i].end <= LastArea.start
    BY <2>1 DEF AreasInv, Ordered, LastArea
  <2>3. areas[i].start < areas[i].end /\ areas[i].start \in Nat /\ areas[i].end \in Nat
    BY AreaBounds DEF AreasInv
  <2> QED
    BY <1>13, <2>2, <2>3, LastIs DEF s
<1>14. Taken(n) = Len(areas)
  <2>1. areas[Len(areas)].start = s
    BY DEF s, LastArea
  <2> QED
    BY <1>11, <1>12, <1>13, <2>1
<1> QED
  BY <1>2, <1>5, <1>8, <1>14 DEF o, s

LEMMA RelistIs ==
    ASSUME AreasInv, ListsInv, NEW n \in Asked, Candidates(n) # {}
    PROVE  /\ Splits(n) <=> vma_length(LastArea) >= n + 1
           /\ Splits(n) => /\ ilog2(vma_length(LastArea) - n) \in Order
                           /\ Relist(n) = OneList(ilog2(vma_length(LastArea) - n), LastArea.start + n)
           /\ ~Splits(n) => Relist(n) = NoList /\ vma_length(LastArea) = n
<1> DEFINE len == vma_length(LastArea)
           s == LastArea.start
           o == IF Splits(n) THEN ilog2(len - n) ELSE -1
           with == [q \in Order |-> IF q = o THEN <<s + n>> \o lists[q] ELSE lists[q]]
<1>1. /\ Taken(n) = Len(areas) /\ lists = OneList(ilog2(len), s)
      /\ n <= len /\ n \in Nat \ {0}
  BY TakenIs
<1>2. areas[Taken(n)] = LastArea
  BY <1>1 DEF LastArea
<1>3. Splits(n) <=> len >= n + 1
  BY <1>2 DEF Splits
<1>4. Relist(n) = [q \in Order |-> RemoveFirst(with[q], s)]
  BY <1>2 DEF Relist
<1>5. len \in Nat \ {0} /\ len < 2 ^ (MAX_VMA_ORDER + 1) /\ s \in Nat
  BY LastIs
<1>6. 2 ^ (MAX_VMA_ORDER + 1) \in Nat
  <2>1. 2 ^ (MAX_VMA_ORDER + 1) = 2 * 2 ^ MAX_VMA_ORDER /\ 2 ^ MAX_VMA_ORDER \in Nat
    BY Consts, PowType
  <2> QED
    BY <2>1
<1>7. Splits(n) => ilog2(len - n) \in Order
  <2> SUFFICES ASSUME Splits(n) PROVE ilog2(len - n) \in Order
    OBVIOUS
  <2>1. PICK d : d = len - n
    OBVIOUS
  <2> HIDE DEF len
  <2>2. d \in Nat \ {0} /\ d < 2 ^ (MAX_VMA_ORDER + 1)
    BY <1>1, <1>3, <1>5, <1>6, <2>1
  <2> QED
    BY <2>1, <2>2, LogIs
<1> DEFINE l == ilog2(len)
<1>8. \A q \in Order : lists[q] = IF q = l THEN <<s>> ELSE <<>>
  BY <1>1 DEF OneList
<1>9. \A q \in Order : with[q] = IF q = o THEN <<s + n>> \o lists[q] ELSE lists[q]
  OBVIOUS
<1>10. s + n # s
  BY <1>1, <1>5
<1> HIDE DEF with, o, l
<1>11. \A q \in Order : RemoveFirst(with[q], s) = IF q = o THEN <<s + n>> ELSE <<>>
  <2> SUFFICES ASSUME NEW q \in Order
               PROVE  RemoveFirst(with[q], s) = IF q = o THEN <<s + n>> ELSE <<>>
    OBVIOUS
  <2> HIDE DEF s
  <2>1. PICK a : a = s + n
    OBVIOUS
  <2>2. a # s
    BY <1>10, <2>1
  <2>3. /\ <<a>> \o <<s>> = <<a, s>> /\ <<a>> \o <<>> = <<a>>
    <3>1. <<a>> \o <<s>> \in Seq({a, s}) /\ <<a, s>> \in Seq({a, s})
      OBVIOUS
    <3>2. Len(<<a>> \o <<s>>) = 2 /\ (<<a>> \o <<s>>)[1] = a /\ (<<a>> \o <<s>>)[2] = s
      OBVIOUS
    <3>3. Len(<<a, s>>) = 2 /\ <<a, s>>[1] = a /\ <<a, s>>[2] = s /\ \A i \in 1 .. 2 : i = 1 \/ i = 2
      OBVIOUS
    <3>4. <<a>> \o <<s>> = <<a, s>>
      BY <3>1, <3>2, <3>3, SeqEqual
    <3>5. <<a>> \o <<>> = <<a>>
      OBVIOUS
    <3> QED
      BY <3>4, <3>5
  <2>4. CASE q = o /\ q = l
    <3>1. with[q] = <<a, s>>
      BY <1>8, <1>9, <2>1, <2>3, <2>4
    <3>2. RemoveFirst(<<a, s>>, s) = <<a>>
      BY <2>2, RemoveOne
    <3> QED
      BY <2>1, <2>4, <3>1, <3>2
  <2>5. CASE q = o /\ q # l
    <3>1. with[q] = <<a>>
      BY <1>8, <1>9, <2>1, <2>3, <2>5
    <3>2. RemoveFirst(<<a>>, s) = <<a>>
      BY <2>2, RemoveOne
    <3> QED
      BY <2>1, <2>5, <3>1, <3>2
  <2>6. CASE q # o /\ q = l
    <3>1. with[q] = <<s>>
      BY <1>8, <1>9, <2>6
    <3>2. RemoveFirst(<<s>>, s) = <<>>
      BY RemoveOne
    <3> QED
      BY <2>6, <3>1, <3>2
  <2>7. CASE q # o /\ q # l
    <3>1. with[q] = <<>>
      BY <1>8, <1>9, <2>7
    <3>2. RemoveFirst(<<>>, s) = <<>>
      BY RemoveOne
    <3> QED
      BY <2>7, <3>1, <3>2
  <2> QED
    BY <2>4, <2>5, <2>6, <2>7
<1>12. Relist(n) = [q \in Order |-> IF q = o THEN <<s + n>> ELSE <<>>]
  BY <1>4, <1>11
<1>13. Relist(n) = OneList(o, s + n)
  BY <1>12 DEF OneList
<1>14. ASSUME Splits(n) PROVE Relist(n) = OneList(ilog2(len - n), s + n)
  BY <1>13, <1>14 DEF o
<1>15. ASSUME ~Splits(n) PROVE Relist(n) = NoList /\ len = n
  <2>1. o = -1
    BY <1>15 DEF o
  <2>2. \A q \in Order : q # o
    BY <2>1, Consts
  <2>3. Relist(n) = NoList
    BY <1>12, <2>2 DEF NoList
  <2> HIDE DEF len
  <2> QED
    BY <1>1, <1>3, <1>5, <1>15, <2>3
<1> QED
  BY <1>3, <1>7, <1>14, <1>15

Rest(n) == IF Splits(n) THEN 1 ELSE 0

LEMMA SplitIs ==
    ASSUME AreasInv, ListsInv, NEW n \in Asked, Candidates(n) # {}, NEW p \in Seq(Nat)
    PROVE  Cut(areas, Fill(Split(n), Taken(n), p), LastArea.start + n, p, Rest(n))
<1> DEFINE L == Len(areas)
           e == LastArea.start + n
<1>1. /\ areas \in Seq(Area) /\ L > 0 /\ Taken(n) = L /\ e \in Nat /\ LastArea = areas[L]
      /\ n \in Nat \ {0}
  BY TakenIs, LastIs DEF AreasInv, LastArea
<1>2. CASE Splits(n)
  <2>1. Split(n) = InsertAt(ReplaceAt(areas, L, InUse(LastArea.start, e, <<>>)), L + 1,
                            Free(e, LastArea.end))
    BY <1>1, <1>2 DEF Split, InUse, Free
  <2>2. Cut(areas, Fill(Split(n), L, p), e, p, 1)
    <3> HIDE DEF e
    <3> QED
      BY <1>1, <2>1, CutRest
  <2> QED
    BY <1>1, <1>2, <2>2 DEF Rest
<1>3. CASE ~Splits(n)
  <2>1. vma_length(LastArea) = n
    BY <1>3, RelistIs
  <2>2. LastArea.end = e
    BY <1>1, <2>1, LastIs DEF vma_length
  <2>3. Split(n) = ReplaceAt(areas, L, InUse(LastArea.start, LastArea.end, <<>>))
    BY <1>1, <1>3 DEF Split, InUse
  <2>4. Cut(areas, Fill(Split(n), L, p), LastArea.end, p, 0)
    BY <1>1, <2>3, CutAll
  <2> QED
    BY <1>1, <1>3, <2>2, <2>4 DEF Rest
<1> QED
  BY <1>2, <1>3

\* What alloc_vma does to the areas, their lists and the tree
LEMMA AllocStep ==
    ASSUME AreasInv, ListsInv, NEW n \in Asked, Candidates(n) # {}, NEW p \in Seq(Nat),
           areas' = Fill(Split(n), Taken(n), p), lists' = Relist(n), Insert(n),
           UNCHANGED unlisted
    PROVE  /\ AreasInv' /\ ListsInv'
           /\ Cut(areas, areas', LastArea.start + n, p, Rest(n))
<1> DEFINE L == Len(areas)
           v == LastArea
           e == v.start + n
<1>1. Cut(areas, areas', e, p, Rest(n))
  BY SplitIs
<1>2. /\ areas \in Seq(Area) /\ L > 0 /\ L \in Nat \ {0} /\ Taken(n) = L /\ v = areas[L] /\ v.free
      /\ v.start \in Nat /\ v.end \in Nat /\ n \in Nat \ {0} /\ Ordered(areas)
  BY TakenIs, LastIs DEF AreasInv, LastArea
<1>3. /\ e \in Nat /\ v.start < e /\ (Rest(n) = 1 => e < v.end) /\ (Rest(n) = 0 => e = v.end)
      /\ Rest(n) \in {0, 1}
  <2>1. vma_length(v) = v.end - v.start
    BY DEF vma_length
  <2>2. CASE Splits(n)
    <3>1. vma_length(v) >= n + 1
      BY <2>2, RelistIs
    <3> HIDE DEF v
    <3> QED
      BY <1>2, <2>1, <2>2, <3>1 DEF Rest
  <2>3. CASE ~Splits(n)
    <3>1. vma_length(v) = n
      BY <2>3, RelistIs
    <3> HIDE DEF v
    <3> QED
      BY <1>2, <2>1, <2>3, <3>1 DEF Rest
  <2> QED
    BY <2>2, <2>3
<1> HIDE DEF v, e, L
<1>4. Ordered(areas')
  BY <1>1, <1>2, <1>3, OrderedCut DEF L
<1>5. Spans(areas') = Spans(areas) \cup {<<v.start, e - 1>>}
  BY <1>1, <1>2, <1>3, SpansCut DEF L
<1>6. areas' \in Seq(Area) /\ Len(areas') = L + Rest(n) /\ Len(areas') > 0
  BY <1>1, <1>2, <1>3 DEF Cut, L
<1>7. /\ members' \subseteq Spans(areas') /\ (~untracked' => members' = Spans(areas'))
  <2>1. areas[Taken(n)].start = v.start
    BY <1>2
  <2>2. members \subseteq Spans(areas) /\ (~untracked => members = Spans(areas))
    BY DEF AreasInv
  <2>3. CASE Tree!Add(<<v.start, v.start + n - 1>>) /\ UNCHANGED untracked
    <3>1. members' = members \cup {<<v.start, v.start + n - 1>>}
      BY <2>3 DEF Tree!Add
    <3>2. v.start + n - 1 = e - 1
      BY <1>2 DEF e
    <3> QED
      BY <1>5, <2>2, <2>3, <3>1, <3>2
  <2>4. CASE Tree!NoMemory /\ untracked' = TRUE
    <3>1. members' = members /\ untracked'
      BY <2>4 DEF Tree!NoMemory
    <3> QED
      BY <1>5, <2>2, <3>1
  <2> QED
    BY <2>1, <2>3, <2>4 DEF Insert
<1>8. AreasInv'
  BY <1>4, <1>6, <1>7 DEF AreasInv
<1>9. ListsInv'
  <2>1. CASE Splits(n)
    <3>1. Rest(n) = 1 /\ Len(areas') = Len(areas) + 1
      BY <1>6, <2>1 DEF Rest, L
    <3>2. LastArea' = Free(e, v.end)
      BY <1>1, <1>2, <3>1 DEF Cut, LastArea, L
    <3>3. LastArea'.start = e /\ LastArea'.end = v.end /\ LastArea'.free
      <4>1. <<>> \in Seq(Nat)
        OBVIOUS
      <4> QED
        BY <1>2, <1>3, <3>2, <4>1, NewAreas
    <3>4. vma_length(LastArea)' = vma_length(v) - n
      BY <1>2, <1>3, <3>3 DEF vma_length, e
    <3>5. lists' = OneList(ilog2(vma_length(v) - n), v.start + n)
      BY <2>1, RelistIs DEF v
    <3>6. lists' = OneList(ilog2(vma_length(LastArea)), LastArea.start)'
      <4>1. LastArea'.start = v.start + n
        BY <3>3 DEF e
      <4>2. OneList(ilog2(vma_length(LastArea)), LastArea.start)' = OneList(ilog2(vma_length(LastArea)'), LastArea'.start)
        BY DEF OneList, ilog2, vma_length
      <4> QED
        BY <3>4, <3>5, <4>1, <4>2
    <3> QED
      BY <3>3, <3>6 DEF ListsInv
  <2>2. CASE ~Splits(n)
    <3>1. Rest(n) = 0 /\ Len(areas') = Len(areas)
      BY <1>2, <1>6, <2>2 DEF Rest, L
    <3>2. LastArea' = InUse(v.start, e, p)
      BY <1>1, <1>2, <3>1 DEF Cut, LastArea, L
    <3>3. ~LastArea'.free
      BY <1>2, <1>3, <3>2, NewAreas
    <3>4. lists' = NoList
      BY <2>2, RelistIs
    <3> QED
      BY <3>3, <3>4 DEF ListsInv, NoList
  <2> QED
    BY <2>1, <2>2
<1> QED
  BY <1>1, <1>8, <1>9 DEF e, v

----------------------------------------------------------------------------
(* Page tables *)

Slots == 0 .. TABLES - 1
Entry == Nat \cup {None}
Leaf == [0 .. PER_TABLE - 1 -> Entry]

\* the frames that were given to tables, and an entry that points to none
TableFrames(t) == DOMAIN t.pte
NoTable == {None, Stale}

IsTable(t) ==
    /\ t = [dir |-> t.dir, pte |-> t.pte, free |-> t.free]
    /\ t.dir \in [Slots -> TableFrames(t) \cup NoTable]
    /\ t.pte \in [TableFrames(t) -> Leaf]
    /\ \A i, j \in Slots : t.dir[i] = t.dir[j] /\ t.dir[i] \notin NoTable => i = j
    /\ t.free \subseteq Nat /\ IsFiniteSet(t.free)
    /\ t.free \cap TableFrames(t) = {} /\ TableFrames(t) \subseteq Nat

\* u translates every address as t does
Same(t, u) == \A w \in Virt : Translate(u, w) = Translate(t, w)

LEMMA MulLess ==
    ASSUME NEW m \in Nat \ {0}, NEW a \in Int, NEW b \in Int, a * m < b * m
    PROVE  a < b
<1> SUFFICES ASSUME b <= a PROVE FALSE
  OBVIOUS
<1>1. b * m <= a * m
  OBVIOUS
<1> QED
  BY <1>1

LEMMA IndexIs ==
    /\ \A va \in Virt : va \in Nat /\ pde_index(va) \in Slots /\ pte_index(va) \in 0 .. PER_TABLE - 1
    /\ \A v, w \in Virt : pde_index(v) = pde_index(w) /\ pte_index(v) = pte_index(w) => v = w
<1>1. PER_TABLE \in Nat \ {0} /\ TABLES \in Nat \ {0}
  BY TableAssumption
<1>2. PICK m \in Nat \ {0}, b \in Nat \ {0} : m = PER_TABLE /\ b = TABLES
  BY <1>1
<1>3. ASSUME NEW va \in 0 .. m * b - 1
      PROVE  /\ va \in Nat /\ va \div m \in 0 .. b - 1 /\ va % m \in 0 .. m - 1
             /\ va = (va \div m) * m + (va % m)
  <2>1. va \in Nat /\ m * b \in Nat
    OBVIOUS
  <2>2. PICK q, r : q = va \div m /\ r = va % m
    OBVIOUS
  <2>3. q \in Nat /\ r \in 0 .. m - 1 /\ va = q * m + r
    BY <2>1, <2>2
  <2>4. q * m < b * m
    <3>1. q * m <= va /\ va < m * b /\ m * b = b * m /\ q * m \in Nat
      BY <1>3, <2>1, <2>3
    <3> QED
      BY <2>1, <3>1
  <2>5. q < b
    BY <2>3, <2>4, MulLess
  <2> QED
    BY <2>1, <2>2, <2>3, <2>5
<1>4. Virt = 0 .. m * b - 1 /\ Slots = 0 .. b - 1
  BY <1>2 DEF Virt, Slots
<1>5. \A va : pde_index(va) = va \div m /\ pte_index(va) = va % m
  BY <1>2 DEF pde_index, pte_index
<1>6. \A va \in Virt : /\ va \in Nat /\ pde_index(va) \in Slots /\ pte_index(va) \in 0 .. PER_TABLE - 1
                       /\ va = pde_index(va) * m + pte_index(va)
  <2> SUFFICES ASSUME NEW va \in Virt
               PROVE  /\ va \in Nat /\ pde_index(va) \in Slots /\ pte_index(va) \in 0 .. PER_TABLE - 1
                      /\ va = pde_index(va) * m + pte_index(va)
    OBVIOUS
  <2>1. /\ va \in Nat /\ va \div m \in 0 .. b - 1 /\ va % m \in 0 .. m - 1
        /\ va = (va \div m) * m + (va % m)
    BY <1>3, <1>4
  <2> QED
    BY <1>2, <1>4, <1>5, <2>1
<1> QED
  BY <1>6

LEMMA GetPteIs ==
    ASSUME NEW t, IsTable(t), NEW va \in Virt, NEW k, k = pde_index(va),
           t.dir[k] # None \/ t.free # {}, t.dir[k] # Stale, NEW u, u = get_pte(t, va)
    PROVE  /\ IsTable(u) /\ u.dir[k] \notin NoTable /\ Same(t, u)
           /\ TableFrames(u) \cup u.free = TableFrames(t) \cup t.free
           /\ t.dir[k] # None => u = t
           /\ t.dir[k] = None => /\ \E f \in t.free : u.free = t.free \ {f}
                                 /\ \A i \in Slots : i # k => u.dir[i] = t.dir[i]
<1>1. k \in Slots
  BY IndexIs
<1>2. CASE t.dir[k] # None
  <2>1. u = t
    BY <1>2 DEF get_pte
  <2> QED
    BY <1>2, <2>1 DEF Same, NoTable
<1>3. CASE t.dir[k] = None
  <2> DEFINE f == Min(t.free)
             zero == [i \in 0 .. PER_TABLE - 1 |-> None]
             dir == [t.dir EXCEPT ![k] = f]
             pte == [g \in DOMAIN t.pte \cup {f} |-> IF g = f THEN zero ELSE t.pte[g]]
  <2>1. u = [dir |-> dir, pte |-> pte, free |-> t.free \ {f}]
    BY <1>3 DEF get_pte
  <2>2. f \in t.free
    <3>1. t.free \in SUBSET Nat /\ t.free # {}
      BY <1>3 DEF IsTable
    <3>2. PICK x \in t.free : \A y \in t.free : x <= y
      BY <3>1, NatMin
    <3> QED
      BY <3>2 DEF Min
  <2>3. f \in Nat /\ f \notin NoTable /\ f \notin TableFrames(t)
    BY <2>2 DEF IsTable, None, Stale, NoTable
  <2>4. t.dir \in [Slots -> TableFrames(t) \cup NoTable] /\ t.pte \in [TableFrames(t) -> Leaf]
    BY DEF IsTable
  <2>5. zero \in Leaf /\ \A j \in 0 .. PER_TABLE - 1 : zero[j] = None
    BY DEF Leaf, Entry
  <2> HIDE DEF f, zero
  <2>6. /\ dir \in [Slots -> TableFrames(t) \cup {f} \cup NoTable] /\ dir[k] = f
        /\ \A i \in Slots : i # k => dir[i] = t.dir[i]
    BY <1>1, <2>3, <2>4
  <2>7. pte \in [TableFrames(t) \cup {f} -> Leaf] /\ pte[f] = zero
        /\ \A g \in TableFrames(t) : pte[g] = t.pte[g]
    <3>1. DOMAIN t.pte = TableFrames(t)
      BY <2>4
    <3>2. \A g \in TableFrames(t) : g # f /\ t.pte[g] \in Leaf
      BY <2>3, <2>4
    <3> QED
      BY <2>5, <3>1, <3>2
  <2>8. u.dir = dir /\ u.pte = pte /\ u.free = t.free \ {f}
        /\ u = [dir |-> u.dir, pte |-> u.pte, free |-> u.free]
    BY <2>1
  <2> HIDE DEF dir, pte
  <2>9. TableFrames(u) = TableFrames(t) \cup {f}
    BY <2>7, <2>8 DEF TableFrames
  <2>10. \A i \in Slots : i # k => dir[i] # f
    BY <2>3, <2>4, <2>6
  <2>11. IsTable(u)
    <3>1. \A i, j \in Slots : u.dir[i] = u.dir[j] /\ u.dir[i] \notin NoTable => i = j
      <4> SUFFICES ASSUME NEW i \in Slots, NEW j \in Slots, dir[i] = dir[j], dir[i] \notin NoTable
                   PROVE  i = j
        BY <2>8
      <4>1. CASE i = k \/ j = k
        BY <2>6, <2>10, <4>1
      <4>2. CASE i # k /\ j # k
        <5>1. t.dir[i] = t.dir[j] /\ t.dir[i] \notin NoTable
          BY <2>6, <4>2
        <5> QED
          BY <5>1 DEF IsTable
      <4> QED
        BY <4>1, <4>2
    <3>2. IsFiniteSet(t.free \ {f})
      BY FS_RemoveElement DEF IsTable
    <3>3. u.free \subseteq Nat /\ u.free \cap TableFrames(u) = {} /\ TableFrames(u) \subseteq Nat
      BY <2>3, <2>8, <2>9 DEF IsTable
    <3> QED
      BY <2>6, <2>7, <2>8, <2>9, <3>1, <3>2, <3>3 DEF IsTable
  <2>12. Same(t, u)
    <3> SUFFICES ASSUME NEW w \in Virt PROVE Translate(u, w) = Translate(t, w)
      BY DEF Same
    <3>1. pde_index(w) \in Slots /\ pte_index(w) \in 0 .. PER_TABLE - 1
      BY IndexIs
    <3>2. PICK i, j : i = pde_index(w) /\ j = pte_index(w)
      OBVIOUS
    <3>3. CASE i = k
      <4>1. Translate(u, w) = pte[f][j] /\ Translate(t, w) = None
        BY <1>3, <2>3, <2>6, <2>8, <3>2, <3>3 DEF Translate, NoTable
      <4>2. pte[f][j] = None
        BY <2>5, <2>7, <3>1, <3>2
      <4> QED
        BY <4>1, <4>2
    <3>4. CASE i # k
      <4>1. u.dir[i] = t.dir[i]
        BY <2>6, <2>8, <3>1, <3>2, <3>4
      <4>2. CASE t.dir[i] \in NoTable
        BY <3>2, <4>1, <4>2 DEF Translate, NoTable
      <4>3. CASE t.dir[i] \notin NoTable
        <5>1. t.dir[i] \in TableFrames(t)
          BY <2>4, <3>1, <3>2, <4>3
        <5>2. u.pte[t.dir[i]] = t.pte[t.dir[i]]
          BY <2>7, <2>8, <5>1
        <5> QED
          BY <3>2, <4>1, <4>3, <5>2 DEF Translate, NoTable
      <4> QED
        BY <4>2, <4>3
    <3> QED
      BY <3>3, <3>4
  <2>13. TableFrames(u) \cup u.free = TableFrames(t) \cup t.free
    BY <2>2, <2>8, <2>9
  <2> QED
    BY <1>3, <2>2, <2>3, <2>6, <2>8, <2>11, <2>12, <2>13
<1> QED
  BY <1>2, <1>3

LEMMA TableParts ==
    ASSUME NEW a, NEW b, NEW c, NEW t, t = [dir |-> a, pte |-> b, free |-> c]
    PROVE  /\ t.dir = a /\ t.pte = b /\ t.free = c
           /\ t = [dir |-> t.dir, pte |-> t.pte, free |-> t.free]
OBVIOUS

SetPte(u, d, j, pa) == [u EXCEPT !.pte[d][j] = pa]

LEMMA SetPteIs ==
    ASSUME NEW u, IsTable(u), NEW va \in Virt, NEW pa \in Nat, NEW d, d = u.dir[pde_index(va)],
           d \notin NoTable, NEW x, x = SetPte(u, d, pte_index(va), pa)
    PROVE  /\ IsTable(x) /\ x.dir = u.dir /\ x.free = u.free /\ TableFrames(x) = TableFrames(u)
           /\ Translate(x, va) = pa
           /\ \A w \in Virt : w # va => Translate(x, w) = Translate(u, w)
<1> DEFINE k == pde_index(va)
           j == pte_index(va)
<1>1. k \in Slots /\ j \in 0 .. PER_TABLE - 1
  BY IndexIs
<1>2. /\ u = [dir |-> u.dir, pte |-> u.pte, free |-> u.free]
      /\ u.dir \in [Slots -> TableFrames(u) \cup NoTable] /\ u.pte \in [TableFrames(u) -> Leaf]
  BY DEF IsTable
<1>3. d \in TableFrames(u)
  BY <1>1, <1>2
<1> DEFINE leaf == [u.pte[d] EXCEPT ![j] = pa]
           pte == [u.pte EXCEPT ![d] = leaf]
<1>4. x = [dir |-> u.dir, pte |-> pte, free |-> u.free]
  BY <1>2 DEF SetPte
<1>5. u.pte[d] \in Leaf
  BY <1>2, <1>3
<1> HIDE DEF k, j
<1>6. leaf \in Leaf /\ leaf[j] = pa /\ \A i \in 0 .. PER_TABLE - 1 : i # j => leaf[i] = u.pte[d][i]
  BY <1>1, <1>5 DEF Leaf, Entry
<1> HIDE DEF leaf
<1>7. pte \in [TableFrames(u) -> Leaf] /\ pte[d] = leaf /\ \A g \in TableFrames(u) : g # d => pte[g] = u.pte[g]
  BY <1>2, <1>3, <1>6
<1> HIDE DEF pte
<1>8. x.dir = u.dir /\ x.pte = pte /\ x.free = u.free /\ x = [dir |-> x.dir, pte |-> x.pte, free |-> x.free]
  BY <1>4, TableParts
<1>9. TableFrames(x) = TableFrames(u)
  BY <1>7, <1>8 DEF TableFrames
<1>10. IsTable(x)
  BY <1>7, <1>8, <1>9 DEF IsTable
<1>11. Translate(x, va) = pa
  BY <1>6, <1>7, <1>8 DEF Translate, NoTable, k, j
<1>12. ASSUME NEW w \in Virt, w # va PROVE Translate(x, w) = Translate(u, w)
  <2>1. PICK a, b : a = pde_index(w) /\ b = pte_index(w)
    OBVIOUS
  <2>2. a \in Slots /\ b \in 0 .. PER_TABLE - 1 /\ (a # k \/ b # j)
    BY <1>12, <2>1, IndexIs DEF k, j
  <2>3. CASE u.dir[a] \in NoTable
    BY <1>8, <2>1, <2>3 DEF Translate, NoTable
  <2>4. CASE u.dir[a] \notin NoTable
    <3>1. Translate(x, w) = pte[u.dir[a]][b] /\ Translate(u, w) = u.pte[u.dir[a]][b]
      BY <1>8, <2>1, <2>4 DEF Translate, NoTable
    <3>2. u.dir[a] \in TableFrames(u)
      BY <1>2, <2>2, <2>4
    <3>3. CASE a = k
      <4>1. u.dir[a] = d /\ b # j
        BY <2>2, <3>3 DEF k
      <4> QED
        BY <1>6, <1>7, <2>2, <3>1, <4>1
    <3>4. CASE a # k
      <4>1. u.dir[a] # d
        BY <1>1, <2>2, <2>4, <3>4 DEF IsTable, k
      <4> QED
        BY <1>7, <3>1, <3>2, <4>1
    <3> QED
      BY <3>3, <3>4
  <2> QED
    BY <2>3, <2>4
<1> QED
  BY <1>8, <1>9, <1>10, <1>11, <1>12

\* The slots of the addresses vas that have no table yet
Missing(t, vas) == {i \in Slots : t.dir[i] = None /\ \E va \in vas : pde_index(va) = i}

LEMMA FaultsIs ==
    ASSUME NEW t, NEW vas
    PROVE  Faults(t, vas) <=> \/ Cardinality(Missing(t, vas)) > Cardinality(t.free)
                              \/ \E va \in vas : t.dir[pde_index(va)] = Stale
BY DEF Faults, Missing, Slots

\* u maps va to pa besides what t maps, with frames of t for the tables.
MapsOne(t, u, va, pa) ==
    /\ IsTable(u) /\ Translate(u, va) = pa
    /\ \A w \in Virt : w # va => Translate(u, w) = Translate(t, w)
    /\ TableFrames(u) \cup u.free = TableFrames(t) \cup t.free

LEMMA MapStep ==
    ASSUME NEW t, IsTable(t), NEW vas \in SUBSET Virt, ~Faults(t, vas), NEW va \in vas,
           NEW pa \in Nat, NEW x, x = page_map(t, va, pa)
    PROVE  MapsOne(t, x, va, pa) /\ ~Faults(x, vas)
<1>1. va \in Virt
  OBVIOUS
<1>2. PICK k : k = pde_index(va)
  OBVIOUS
<1>3. k \in Slots /\ IsFiniteSet(Slots) /\ IsFiniteSet(Missing(t, vas))
  <2>1. k \in Slots
    BY <1>1, <1>2, IndexIs
  <2>2. IsFiniteSet(Slots)
    BY TableAssumption, FS_Interval DEF Slots
  <2>3. Missing(t, vas) \subseteq Slots
    BY DEF Missing
  <2> QED
    BY <2>1, <2>2, <2>3, FS_Subset
<1>4. /\ Cardinality(Missing(t, vas)) \in Nat /\ Cardinality(t.free) \in Nat
      /\ Cardinality(Missing(t, vas)) <= Cardinality(t.free)
  <2>1. IsFiniteSet(t.free)
    BY DEF IsTable
  <2>2. Cardinality(Missing(t, vas)) \in Nat /\ Cardinality(t.free) \in Nat
    BY <1>3, <2>1, FS_CardinalityType
  <2>3. ~(Cardinality(Missing(t, vas)) > Cardinality(t.free))
    BY FaultsIs
  <2> QED
    BY <2>2, <2>3
<1>5. t.dir[k] = None => k \in Missing(t, vas)
  BY <1>2, <1>3 DEF Missing
<1>6. t.dir[k] # None \/ t.free # {}
  <2> SUFFICES ASSUME t.dir[k] = None, t.free = {} PROVE FALSE
    OBVIOUS
  <2>1. Cardinality(t.free) = 0
    BY FS_EmptySet
  <2>2. Cardinality(Missing(t, vas)) = 0
    BY <1>4, <2>1
  <2>3. Missing(t, vas) = {}
    BY <1>3, <2>2, FS_EmptySet
  <2> QED
    BY <1>5, <2>3
<1>7. PICK u : u = get_pte(t, va)
  OBVIOUS
<1>0. \A w \in vas : t.dir[pde_index(w)] # Stale
  BY FaultsIs
<1>8. /\ IsTable(u) /\ u.dir[k] \notin NoTable /\ Same(t, u)
      /\ TableFrames(u) \cup u.free = TableFrames(t) \cup t.free
      /\ t.dir[k] # None => u = t
      /\ t.dir[k] = None => /\ \E f \in t.free : u.free = t.free \ {f}
                            /\ \A i \in Slots : i # k => u.dir[i] = t.dir[i]
  BY <1>0, <1>1, <1>2, <1>6, <1>7, GetPteIs
<1>9. PICK d : d = u.dir[pde_index(va)]
  OBVIOUS
<1>10. x = SetPte(u, d, pte_index(va), pa)
  BY <1>7, <1>9 DEF page_map, SetPte
<1>11. d \notin NoTable
  BY <1>2, <1>8, <1>9
<1>12. /\ IsTable(x) /\ x.dir = u.dir /\ x.free = u.free /\ TableFrames(x) = TableFrames(u)
       /\ Translate(x, va) = pa
       /\ \A w \in Virt : w # va => Translate(x, w) = Translate(u, w)
  BY <1>1, <1>8, <1>9, <1>10, <1>11, SetPteIs
<1>13. MapsOne(t, x, va, pa)
  BY <1>8, <1>12 DEF MapsOne, Same
<1>14. Missing(x, vas) = Missing(u, vas)
  BY <1>12 DEF Missing
<1>16. \A w \in vas : x.dir[pde_index(w)] # Stale
  <2> SUFFICES ASSUME NEW w \in vas PROVE u.dir[pde_index(w)] # Stale
    BY <1>12
  <2>1. PICK i : i = pde_index(w)
    OBVIOUS
  <2>2. i \in Slots /\ t.dir[i] # Stale
    BY <1>0, <2>1, IndexIs
  <2>3. CASE i = k
    BY <1>8, <2>1, <2>3 DEF NoTable
  <2>4. CASE i # k
    BY <1>8, <2>1, <2>2, <2>4
  <2> QED
    BY <2>3, <2>4
<1>15. ~Faults(x, vas)
  <2>1. CASE t.dir[k] # None
    <3>1. Missing(x, vas) = Missing(t, vas) /\ x.free = t.free
      BY <1>8, <1>12, <1>14, <2>1
    <3>2. ~(Cardinality(Missing(x, vas)) > Cardinality(x.free))
      BY <1>4, <3>1
    <3> QED
      BY <1>16, <3>2, FaultsIs
  <2>2. CASE t.dir[k] = None
    <3>1. PICK f \in t.free : u.free = t.free \ {f}
      BY <1>8, <2>2
    <3>2. Missing(u, vas) = Missing(t, vas) \ {k}
      BY <1>8, <2>2 DEF Missing, NoTable
    <3>3. Cardinality(Missing(t, vas) \ {k}) = Cardinality(Missing(t, vas)) - 1
      BY <1>3, <1>5, <2>2, FS_RemoveElement
    <3>4. Cardinality(t.free \ {f}) = Cardinality(t.free) - 1
      <4>1. IsFiniteSet(t.free) /\ f \in t.free
        BY DEF IsTable
      <4> QED
        BY <4>1, FS_RemoveElement
    <3>5. Cardinality(Missing(x, vas)) = Cardinality(Missing(t, vas)) - 1
      BY <1>14, <3>2, <3>3
    <3>6. Cardinality(x.free) = Cardinality(t.free) - 1
      BY <1>12, <3>1, <3>4
    <3>7. ~(Cardinality(Missing(x, vas)) > Cardinality(x.free))
      BY <1>4, <3>5, <3>6
    <3> QED
      BY <1>16, <3>7, FaultsIs
  <2> QED
    BY <2>1, <2>2
<1> QED
  BY <1>13, <1>15

\* g has the tables after the first k pages, for every k up to n.
Steps(g, t, s, p, n) ==
    /\ g = [k \in 0 .. n |-> g[k]] /\ g[0] = t
    /\ \A k \in 1 .. n : g[k] = page_map(g[k - 1], s + k - 1, p[k])

LEMMA StepsExist ==
    ASSUME NEW t, NEW s, NEW p, NEW N \in Nat
    PROVE  \E g : Steps(g, t, s, p, N)
<1> DEFINE T == {n \in 0 .. N : ~\E g : Steps(g, t, s, p, n)}
<1> SUFFICES ASSUME T # {} PROVE FALSE
  OBVIOUS
<1>1. PICK m \in T : \A k \in T : m <= k
  <2>1. T \in SUBSET Nat
    OBVIOUS
  <2> HIDE DEF T
  <2> QED
    BY <2>1, NatMin
<1>2. m \in 0 .. N /\ ~\E g : Steps(g, t, s, p, m)
  OBVIOUS
<1>3. m # 0
  <2> DEFINE g == [j \in 0 .. 0 |-> t]
  <2>1. Steps(g, t, s, p, 0)
    BY DEF Steps
  <2> QED
    BY <1>2, <2>1
<1>4. m - 1 \in 0 .. N /\ m - 1 \notin T
  <2> HIDE DEF T
  <2> QED
    BY <1>1, <1>2, <1>3
<1>5. PICK f : Steps(f, t, s, p, m - 1)
  BY <1>4
<1> HIDE DEF T
<1> DEFINE w == page_map(f[m - 1], s + m - 1, p[m])
           g == [j \in 0 .. m |-> IF j = m THEN w ELSE f[j]]
<1>6. f[0] = t /\ \A k \in 1 .. m - 1 : f[k] = page_map(f[k - 1], s + k - 1, p[k])
  BY <1>5 DEF Steps
<1>7. g[m] = w /\ \A j \in 0 .. m - 1 : g[j] = f[j]
  <2> HIDE DEF w
  <2> QED
    BY <1>2
<1>8. g = [k \in 0 .. m |-> g[k]]
  <2> HIDE DEF w
  <2> QED
    OBVIOUS
<1> HIDE DEF w, g
<1>9. ASSUME NEW k \in 1 .. m PROVE g[k] = page_map(g[k - 1], s + k - 1, p[k])
  <2>1. k - 1 \in 0 .. m - 1 /\ g[k - 1] = f[k - 1]
    BY <1>2, <1>7
  <2>2. CASE k = m
    BY <1>7, <2>1, <2>2 DEF w
  <2>3. CASE k # m
    <3>1. k \in 1 .. m - 1 /\ k \in 0 .. m - 1
      BY <1>2, <2>3
    <3> QED
      BY <1>6, <1>7, <2>1, <3>1
  <2> QED
    BY <2>2, <2>3
<1>10. g[0] = t
  BY <1>2, <1>3, <1>6, <1>7
<1>11. Steps(g, t, s, p, m)
  BY <1>8, <1>9, <1>10 DEF Steps
<1> QED
  BY <1>2, <1>11

LEMMA MapIs ==
    ASSUME NEW t, NEW s, NEW p, Len(p) \in Nat, NEW f, Steps(f, t, s, p, Len(p))
    PROVE  map_vm_area(t, s, p) = f[Len(p)]
<1> DEFINE R(g) == [i \in 0 .. Len(p) |->
                      IF i = 0 THEN t ELSE page_map(g[i - 1], s + i - 1, p[i])]
           w == CHOOSE g : g = R(g)
<1>1. map_vm_area(t, s, p) = w[Len(p)]
  BY DEF map_vm_area
<1>2. f = [k \in 0 .. Len(p) |-> f[k]] /\ f[0] = t
      /\ \A k \in 1 .. Len(p) : f[k] = page_map(f[k - 1], s + k - 1, p[k])
  BY DEF Steps
<1>3. R(f) = f
  <2>1. \A k \in 0 .. Len(p) : R(f)[k] = f[k]
    <3> SUFFICES ASSUME NEW k \in 0 .. Len(p) PROVE R(f)[k] = f[k]
      OBVIOUS
    <3>1. CASE k = 0
      BY <1>2, <3>1
    <3>2. CASE k # 0
      <4>1. k \in 1 .. Len(p)
        BY <3>2
      <4>2. f[k] = page_map(f[k - 1], s + k - 1, p[k])
        BY <1>2, <4>1
      <4> QED
        BY <3>2, <4>2
    <3> QED
      BY <3>1, <3>2
  <2>2. R(f) = [k \in 0 .. Len(p) |-> R(f)[k]]
    OBVIOUS
  <2> HIDE DEF R
  <2> QED
    BY <1>2, <2>1, <2>2
<1>4. w = R(w)
  <2> HIDE DEF R
  <2> QED
    BY <1>3
<1> HIDE DEF w
<1>5. \A k \in 0 .. Len(p) : w[k] = IF k = 0 THEN t ELSE page_map(w[k - 1], s + k - 1, p[k])
  <2>1. \A k \in 0 .. Len(p) : R(w)[k] = IF k = 0 THEN t ELSE page_map(w[k - 1], s + k - 1, p[k])
    OBVIOUS
  <2> HIDE DEF R
  <2> QED
    BY <1>4, <2>1
<1>6. \A k \in 0 .. Len(p) : w[k] = f[k]
  <2> DEFINE T == {k \in 0 .. Len(p) : w[k] # f[k]}
  <2> SUFFICES ASSUME T # {} PROVE FALSE
    OBVIOUS
  <2>1. PICK m \in T : \A k \in T : m <= k
    <3>1. T \in SUBSET Nat
      OBVIOUS
    <3> HIDE DEF T
    <3> QED
      BY <3>1, NatMin
  <2>2. m \in 0 .. Len(p) /\ w[m] # f[m]
    OBVIOUS
  <2>3. m # 0
    BY <1>2, <1>5, <2>2
  <2>4. m \in 1 .. Len(p) /\ m - 1 \in 0 .. Len(p) /\ m - 1 \notin T
    BY <2>1, <2>2, <2>3
  <2>5. w[m - 1] = f[m - 1]
    BY <2>4
  <2>6. w[m] = page_map(w[m - 1], s + m - 1, p[m])
    BY <1>5, <2>2, <2>3
  <2>7. f[m] = page_map(f[m - 1], s + m - 1, p[m])
    BY <1>2, <2>4
  <2> QED
    BY <2>2, <2>5, <2>6, <2>7
<1> QED
  BY <1>1, <1>6

\* u maps the addresses from s on to the first n of p besides what t maps.
MapsAll(t, u, s, p, n) ==
    /\ IsTable(u)
    /\ \A w \in Virt : Translate(u, w) = IF w \in s .. s + n - 1 THEN p[w - s + 1] ELSE Translate(t, w)
    /\ TableFrames(u) \cup u.free = TableFrames(t) \cup t.free

LEMMA MapAll ==
    ASSUME NEW t, IsTable(t), NEW s \in Nat, NEW p \in Seq(Nat), Range1(s, Len(p)) \subseteq Virt,
           ~Faults(t, Range1(s, Len(p)))
    PROVE  MapsAll(t, map_vm_area(t, s, p), s, p, Len(p))
<1> DEFINE N == Len(p)
           vas == Range1(s, N)
<1>1. N \in Nat /\ \A k \in 1 .. N : p[k] \in Nat
  OBVIOUS
<1>2. PICK g : Steps(g, t, s, p, N)
  BY <1>1, StepsExist
<1>3. map_vm_area(t, s, p) = g[N]
  BY <1>1, <1>2, MapIs
<1>4. vas = s .. s + N - 1 /\ vas \subseteq Virt /\ ~Faults(t, vas)
  BY DEF Range1
<1> HIDE DEF N, vas
<1> DEFINE T == {k \in 0 .. N : ~(MapsAll(t, g[k], s, p, k) /\ ~Faults(g[k], vas))}
<1>5. T = {}
  <2> SUFFICES ASSUME T # {} PROVE FALSE
    OBVIOUS
  <2>1. PICK m \in T : \A k \in T : m <= k
    <3>1. T \in SUBSET Nat
      BY <1>1
    <3> HIDE DEF T
    <3> QED
      BY <3>1, NatMin
  <2>2. m \in 0 .. N /\ ~(MapsAll(t, g[m], s, p, m) /\ ~Faults(g[m], vas))
    OBVIOUS
  <2>3. m # 0
    <3> SUFFICES ASSUME m = 0 PROVE FALSE
      OBVIOUS
    <3>1. g[m] = t
      BY <1>2 DEF Steps
    <3>2. s .. s + m - 1 = {}
      OBVIOUS
    <3>3. MapsAll(t, t, s, p, m)
      BY <3>2 DEF MapsAll
    <3> QED
      BY <1>4, <2>2, <3>1, <3>3
  <2>4. m - 1 \in 0 .. N /\ m - 1 \notin T /\ m \in 1 .. N /\ m \in Nat
    <3> HIDE DEF T
    <3> QED
      BY <1>1, <2>1, <2>2, <2>3
  <2>5. MapsAll(t, g[m - 1], s, p, m - 1) /\ ~Faults(g[m - 1], vas)
    BY <2>4
  <2> HIDE DEF T
  <2>6. PICK va : va = s + m - 1
    OBVIOUS
  <2>7. va \in vas /\ p[m] \in Nat /\ va \in Virt
    <3>1. va \in s .. s + N - 1
      BY <1>1, <2>4, <2>6
    <3> QED
      BY <1>1, <1>4, <2>4, <3>1
  <2>8. g[m] = page_map(g[m - 1], va, p[m])
    BY <1>2, <2>4, <2>6 DEF Steps
  <2>9. IsTable(g[m - 1])
    BY <2>5 DEF MapsAll
  <2>10. MapsOne(g[m - 1], g[m], va, p[m]) /\ ~Faults(g[m], vas)
    BY <1>4, <2>5, <2>7, <2>8, <2>9, MapStep
  <2>11. MapsAll(t, g[m], s, p, m)
    <3>1. ASSUME NEW w \in Virt
          PROVE  Translate(g[m], w) = IF w \in s .. s + m - 1 THEN p[w - s + 1] ELSE Translate(t, w)
      <4>1. w \in Nat
        BY IndexIs
      <4>2. Translate(g[m - 1], w) = IF w \in s .. s + (m - 1) - 1 THEN p[w - s + 1] ELSE Translate(t, w)
        BY <2>5 DEF MapsAll
      <4>3. CASE w = va
        <5>1. w - s + 1 = m /\ w \in s .. s + m - 1
          BY <2>4, <2>6, <4>3
        <5>2. Translate(g[m], w) = p[m]
          BY <2>10, <4>3 DEF MapsOne
        <5> QED
          BY <5>1, <5>2
      <4>4. CASE w # va
        <5>1. Translate(g[m], w) = Translate(g[m - 1], w)
          BY <2>10, <4>4 DEF MapsOne
        <5>2. w \in s .. s + m - 1 <=> w \in s .. s + (m - 1) - 1
          BY <2>4, <2>6, <4>1, <4>4
        <5> QED
          BY <4>2, <5>1, <5>2
      <4> QED
        BY <4>3, <4>4
    <3>2. IsTable(g[m]) /\ TableFrames(g[m]) \cup g[m].free = TableFrames(t) \cup t.free
      BY <2>5, <2>10 DEF MapsAll, MapsOne
    <3> QED
      BY <3>1, <3>2 DEF MapsAll
  <2> QED
    BY <2>2, <2>10, <2>11
<1>6. MapsAll(t, g[N], s, p, N)
  <2>1. N \in 0 .. N
    BY <1>1
  <2> QED
    BY <1>5, <2>1
<1> QED
  BY <1>3, <1>6 DEF N

----------------------------------------------------------------------------
(* What is mapped.  t and u are functions that give every address its page,  *)
(* or None; the tables have it as long as no start_paging has cleared it.     *)

PageMap == [Virt -> Nat \cup {None}]

MapOf(A, t) ==
    \A i \in 1 .. Len(A) : ~A[i].free =>
        \A va \in A[i].start .. A[i].end - 1 :
            t[va] = A[i].pages[va - A[i].start + 1] /\ t[va] # None

OnlyUsed(A, t) ==
    \A va \in Virt : t[va] # None =>
        \E i \in 1 .. Len(A) : ~A[i].free /\ va \in A[i].start .. A[i].end - 1

OneToOne(t) ==
    \A v, w \in Virt : t[v] = t[w] /\ t[v] # None => v = w

MappedBy(t) == {t[va] : va \in Virt} \ {None}
Others(x) == TableFrames(x) \cup x.free

\* A frame is mapped once, or another of the normal zone, or of the high zone.
FramesSplit(t, o, h) ==
    /\ MappedBy(t) \cap o = {} /\ MappedBy(t) \cap h = {} /\ o \cap h = {}
    /\ MappedBy(t) \cup o \cup h = High \cup Normal

\* u maps the addresses from s to e - 1 to p besides what t maps.
Extends(t, u, s, e, p) ==
    \A w \in Virt : u[w] = IF w \in s .. e - 1 THEN p[w - s + 1] ELSE t[w]

LEMMA Offset ==
    ASSUME NEW a \in Nat, NEW n \in Nat, NEW b, b = a + n, NEW x \in a .. b - 1
    PROVE  x - a + 1 \in 1 .. n
OBVIOUS

LEMMA Below ==
    ASSUME NEW a \in Nat, NEW b \in Nat, NEW c \in Nat, NEW e \in Nat, NEW z \in Nat,
           b <= c, b <= z, NEW x \in a .. b - 1
    PROVE  x \in Nat /\ x \notin c .. e - 1 /\ x <= z - 1
OBVIOUS

Unmapped(t, s, e) == \A w \in s .. e - 1 : t[w] = None

\* B is A with its last area in use up to e, within the addresses there are.
LastCut(A, B, e, p, m) ==
    /\ A \in Seq(Area) /\ Len(A) > 0 /\ Ordered(A) /\ A[Len(A)].free
    /\ Cut(A, B, e, p, m) /\ A[Len(A)].start .. e - 1 \subseteq Virt

\* t is the map of A, and u extends it by the new area.
CutMap(A, B, e, p, m, s, t, u) ==
    /\ e \in Nat /\ p \in Seq(Nat) /\ m \in {0, 1}
    /\ LastCut(A, B, e, p, m) /\ s = A[Len(A)].start /\ e = s + Len(p)
    /\ MapOf(A, t) /\ OnlyUsed(A, t) /\ Extends(t, u, s, e, p)

LEMMA MapOfCut ==
    ASSUME NEW A, NEW B, NEW e, NEW p, NEW m, NEW s, NEW t, NEW u, CutMap(A, B, e, p, m, s, t, u)
    PROVE  MapOf(B, u) /\ OnlyUsed(B, u) /\ Unmapped(t, s, e)
<1>0. PICK L, v : L = Len(A) /\ v = A[L]
  OBVIOUS
<1>a. /\ A \in Seq(Area) /\ L = Len(A) /\ L > 0 /\ Ordered(A) /\ Cut(A, B, e, p, m)
      /\ v = A[L] /\ v.free /\ v.start .. e - 1 \subseteq Virt /\ Extends(t, u, v.start, e, p)
      /\ e \in Nat /\ p \in Seq(Nat) /\ m \in {0, 1} /\ MapOf(A, t) /\ OnlyUsed(A, t) /\ s = v.start
      /\ e = s + Len(p)
  BY <1>0 DEF CutMap, LastCut
<1> USE <1>a
<1>1. L \in Nat \ {0} /\ L \in 1 .. L /\ Len(B) = L + m
  BY DEF Cut
<1>2. /\ \A i \in 1 .. L - 1 : B[i] = A[i]
      /\ B[L] = InUse(v.start, e, p)
      /\ m = 1 => B[L + 1] = Free(e, v.end)
  BY DEF Cut
<1>3. v \in Area /\ v.start \in Nat /\ v.end \in Nat
  BY AreaIs
<1>4. B[L].start = v.start /\ B[L].end = e /\ ~B[L].free /\ B[L].pages = p
  BY <1>2, <1>3, NewAreas
<1>5. m = 1 => B[L + 1].free
  <2>1. Free(e, v.end).free
    BY DEF Free, vm_area
  <2> QED
    BY <1>2, <2>1
<1>6. ASSUME NEW i \in 1 .. L, i # L
      PROVE  /\ i \in 1 .. L - 1 /\ A[i].start \in Nat /\ A[i].end \in Nat /\ A[i].end <= v.start
             /\ 1 <= A[i].start /\ A[i].end <= VMALLOC_END
  <2>1. i \in 1 .. L - 1 /\ i < L
    BY <1>1, <1>6
  <2>2. A[i].start \in Nat /\ A[i].end \in Nat /\ 1 <= A[i].start /\ A[i].end <= VMALLOC_END
    BY AreaBounds
  <2>3. A[i].end <= v.start
    BY <1>1, <2>1 DEF Ordered
  <2> QED
    BY <2>1, <2>2, <2>3
<1>7. \A i \in 1 .. Len(B) : i \in 1 .. L \/ (m = 1 /\ i = L + 1)
  BY <1>1
<1>8. \A i \in 1 .. L : i \in 1 .. Len(B)
  BY <1>1
<1>9. \A w \in v.start .. e - 1 : t[w] = None
  <2> SUFFICES ASSUME NEW w \in v.start .. e - 1, t[w] # None PROVE FALSE
    OBVIOUS
  <2>1. PICK i \in 1 .. L : ~A[i].free /\ w \in A[i].start .. A[i].end - 1
    BY DEF OnlyUsed
  <2>2. i # L
    BY <2>1
  <2>3. A[i].start \in Nat /\ A[i].end \in Nat /\ A[i].end <= v.start
    BY <1>6, <2>2
  <2>4. PICK a, b, c : a = A[i].start /\ b = A[i].end /\ c = v.start
    OBVIOUS
  <2>5. /\ a \in Nat /\ b \in Nat /\ c \in Nat /\ b <= c /\ b <= b
        /\ w \in a .. b - 1 /\ w \in c .. e - 1
    BY <1>3, <2>1, <2>3, <2>4
  <2> QED
    BY <2>5, Below
<1>10. MapOf(B, u)
  <2> SUFFICES ASSUME NEW i \in 1 .. Len(B), ~B[i].free, NEW va \in B[i].start .. B[i].end - 1
               PROVE  u[va] = B[i].pages[va - B[i].start + 1] /\ u[va] # None
    BY DEF MapOf
  <2>1. CASE i = L
    <3>1. va \in v.start .. e - 1 /\ B[i].pages = p /\ B[i].start = v.start
      BY <1>4, <2>1
    <3>2. va \in Virt
      BY <3>1
    <3>3. u[va] = p[va - v.start + 1]
      BY <3>1, <3>2 DEF Extends
    <3>4. p[va - v.start + 1] \in Nat
      <4>1. PICK a, n : a = v.start /\ n = Len(p)
        OBVIOUS
      <4>2. a \in Nat /\ n \in Nat /\ e = a + n /\ va \in a .. e - 1
        BY <1>3, <3>1, <4>1
      <4>3. va - a + 1 \in 1 .. n
        BY <4>2, Offset
      <4>4. PICK k : k = va - a + 1
        OBVIOUS
      <4>5. p[k] \in Nat
        <5>1. \A j \in 1 .. Len(p) : p[j] \in Nat
          BY ElementOfSeq
        <5> QED
          BY <4>1, <4>3, <4>4, <5>1, Zenon
      <4> QED
        BY <4>1, <4>4, <4>5, Zenon
    <3>5. u[va] # None
      BY <3>3, <3>4 DEF None
    <3> QED
      BY <3>1, <3>3, <3>5
  <2>2. CASE i \in 1 .. L /\ i # L
    <3>1. /\ i \in 1 .. L - 1 /\ A[i].start \in Nat /\ A[i].end \in Nat /\ A[i].end <= v.start
          /\ 1 <= A[i].start /\ A[i].end <= VMALLOC_END
      BY <1>6, <2>2
    <3>2. B[i] = A[i]
      BY <1>2, <3>1
    <3>3. t[va] = A[i].pages[va - A[i].start + 1] /\ t[va] # None
      BY <2>2, <3>2 DEF MapOf
    <3>4. va \in Nat /\ va \notin v.start .. e - 1 /\ va <= VMALLOC_END - 1
      <4>1. va \in A[i].start .. A[i].end - 1 /\ VMALLOC_END \in Nat
        BY <3>2, Consts
      <4>2. PICK a, b : a = A[i].start /\ b = A[i].end
        OBVIOUS
      <4>3. a \in Nat /\ b \in Nat /\ b <= v.start /\ b <= VMALLOC_END /\ va \in a .. b - 1
        BY <3>1, <4>1, <4>2
      <4> QED
        BY <1>3, <4>1, <4>3, Below
    <3>5. va \in Virt
      <4>1. VMALLOC_END <= PER_TABLE * TABLES /\ VMALLOC_END \in Nat /\ PER_TABLE \in Nat /\ TABLES \in Nat
        BY AreaAssumption, TableAssumption
      <4>2. PICK z : z = PER_TABLE * TABLES
        OBVIOUS
      <4>3. z \in Nat /\ VMALLOC_END <= z
        BY <4>1, <4>2
      <4>4. va \in 0 .. z - 1
        BY <3>4, <4>1, <4>3
      <4> QED
        BY <4>2, <4>4 DEF Virt
    <3>6. u[va] = t[va]
      BY <3>4, <3>5 DEF Extends
    <3> QED
      BY <3>2, <3>3, <3>6
  <2>3. CASE m = 1 /\ i = L + 1
    BY <1>5, <2>3
  <2> QED
    BY <1>7, <2>1, <2>2, <2>3
<1>11. OnlyUsed(B, u)
  <2> SUFFICES ASSUME NEW va \in Virt, u[va] # None
               PROVE  \E i \in 1 .. Len(B) : ~B[i].free /\ va \in B[i].start .. B[i].end - 1
    BY DEF OnlyUsed
  <2>1. CASE va \in v.start .. e - 1
    BY <1>1, <1>4, <1>8, <2>1
  <2>2. CASE va \notin v.start .. e - 1
    <3>1. t[va] # None
      BY <2>2 DEF Extends
    <3>2. PICK i \in 1 .. L : ~A[i].free /\ va \in A[i].start .. A[i].end - 1
      BY <3>1 DEF OnlyUsed
    <3>3. i # L
      BY <3>2
    <3>4. B[i] = A[i]
      BY <1>2, <1>6, <3>3
    <3> QED
      BY <1>8, <3>2, <3>4
  <2> QED
    BY <2>1, <2>2
<1> QED
  BY <1>0, <1>9, <1>10, <1>11 DEF Unmapped

LEMMA FramesStep ==
    ASSUME NEW t, OneToOne(t), NEW o, NEW h, FramesSplit(t, o, h),
           NEW n \in Nat, NEW p \in Seq(Nat), Len(p) = n, IsInjective(p), Range(p) \subseteq o \cup h,
           NEW s \in Nat, s .. s + n - 1 \subseteq Virt,
           \A w \in s .. s + n - 1 : t[w] = None,
           NEW u, Extends(t, u, s, s + n, p)
    PROVE  OneToOne(u) /\ FramesSplit(u, o \ Range(p), h \ Range(p))
<1>1. /\ Range(p) = {p[k] : k \in 1 .. n} /\ Range(p) \subseteq Nat
      /\ \A k \in 1 .. n : p[k] \in Nat /\ p[k] # None /\ p[k] \in Range(p)
  <2>1. DOMAIN p = 1 .. n /\ \A k \in 1 .. n : p[k] \in Nat
    OBVIOUS
  <2>2. Range(p) = {p[k] : k \in 1 .. n}
    BY <2>1 DEF Range
  <2>3. Range(p) \subseteq Nat /\ \A k \in 1 .. n : p[k] \in Range(p)
    BY <2>1, <2>2
  <2>4. \A x \in Nat : x # None
    BY DEF None
  <2> QED
    BY <2>1, <2>2, <2>3, <2>4
<1>2. \A j, k \in 1 .. n : p[j] = p[k] => j = k
  BY DEF IsInjective
<1>3. \A w \in s .. s + n - 1 : w - s + 1 \in 1 .. n /\ w \in Virt /\ w \in Nat
  OBVIOUS
<1>4. \A k \in 1 .. n : s + k - 1 \in s .. s + n - 1 /\ (s + k - 1) - s + 1 = k
  OBVIOUS
<1>5. /\ \A w \in s .. s + n - 1 : u[w] = p[w - s + 1]
      /\ \A w \in Virt : w \notin s .. s + n - 1 => u[w] = t[w]
  BY <1>3 DEF Extends
<1>6. Range(p) \cap MappedBy(t) = {}
  BY DEF FramesSplit
<1>7. \A w \in Virt : t[w] # None => t[w] \in MappedBy(t)
  BY DEF MappedBy
<1>8. MappedBy(u) = MappedBy(t) \cup Range(p)
  <2>1. ASSUME NEW x \in MappedBy(u) PROVE x \in MappedBy(t) \cup Range(p)
    <3>1. PICK w \in Virt : x = u[w] /\ x # None
      BY <2>1 DEF MappedBy
    <3>2. CASE w \in s .. s + n - 1
      BY <1>1, <1>3, <1>5, <3>1, <3>2
    <3>3. CASE w \notin s .. s + n - 1
      BY <1>5, <1>7, <3>1, <3>3
    <3> QED
      BY <3>2, <3>3
  <2>2. ASSUME NEW x \in Range(p) PROVE x \in MappedBy(u)
    <3>1. PICK k \in 1 .. n : x = p[k]
      BY <1>1, <2>2
    <3>2. PICK w : w = s + k - 1
      OBVIOUS
    <3>3. w \in s .. s + n - 1 /\ w - s + 1 = k
      BY <1>4, <3>2
    <3>4. u[w] = x /\ w \in Virt /\ x # None
      BY <1>1, <1>3, <1>5, <3>1, <3>3
    <3> QED
      BY <3>4 DEF MappedBy
  <2>3. ASSUME NEW x \in MappedBy(t) PROVE x \in MappedBy(u)
    <3>1. PICK w \in Virt : x = t[w] /\ x # None
      BY <2>3 DEF MappedBy
    <3>2. w \notin s .. s + n - 1
      BY <3>1
    <3>3. u[w] = x
      BY <1>5, <3>1, <3>2
    <3> QED
      BY <3>1, <3>3 DEF MappedBy
  <2> QED
    BY <2>1, <2>2, <2>3
<1>9. FramesSplit(u, o \ Range(p), h \ Range(p))
  <2>1. /\ MappedBy(t) \cap o = {} /\ MappedBy(t) \cap h = {} /\ o \cap h = {}
        /\ MappedBy(t) \cup o \cup h = High \cup Normal
        /\ Range(p) \subseteq o \cup h
    BY DEF FramesSplit
  <2> QED
    BY <1>8, <2>1 DEF FramesSplit
<1>10. OneToOne(u)
  <2> SUFFICES ASSUME NEW v \in Virt, NEW w \in Virt, u[v] = u[w],
                      u[v] # None
               PROVE  v = w
    BY DEF OneToOne
  <2>1. CASE v \in s .. s + n - 1 /\ w \in s .. s + n - 1
    <3>1. v - s + 1 = w - s + 1
      BY <1>2, <1>3, <1>5, <2>1
    <3> QED
      BY <1>3, <2>1, <3>1
  <2>2. CASE v \in s .. s + n - 1 /\ w \notin s .. s + n - 1
    <3>1. u[v] \in Range(p) /\ u[w] = t[w]
      BY <1>1, <1>3, <1>5, <2>2
    <3> QED
      BY <1>6, <1>7, <3>1
  <2>3. CASE v \notin s .. s + n - 1 /\ w \in s .. s + n - 1
    <3>1. u[w] \in Range(p) /\ u[v] = t[v]
      BY <1>1, <1>3, <1>5, <2>3
    <3> QED
      BY <1>6, <1>7, <3>1
  <2>4. CASE v \notin s .. s + n - 1 /\ w \notin s .. s + n - 1
    BY <1>5, <2>4 DEF OneToOne
  <2> QED
    BY <2>1, <2>2, <2>3, <2>4
<1> QED
  BY <1>9, <1>10

----------------------------------------------------------------------------
(* The pages of an area *)

\* As many pages as there are frames for, each another one
PagesOk(p, n, zone) ==
    /\ p \in Seq(Nat) /\ Len(p) = n /\ IsInjective(p) /\ Range(p) \subseteq zone

LEMMA PagesExist ==
    ASSUME NEW zone, IsFiniteSet(zone), NEW n \in Nat, Cardinality(zone) >= n
    PROVE  \E s \in [1 .. n -> zone] : IsInjective(s)
<1>1. PICK c : c = Cardinality(zone)
  OBVIOUS
<1>2. c \in Nat /\ ExistsBijection(1 .. c, zone)
  BY <1>1, FS_CardinalityType
<1>3. PICK f : f \in Bijection(1 .. c, zone)
  BY <1>2 DEF ExistsBijection
<1>4. f \in [1 .. c -> zone] /\ \A i, j \in 1 .. c : f[i] = f[j] => i = j
  BY <1>3 DEF Bijection, Injection, IsInjective
<1>5. \A i \in 1 .. n : i \in 1 .. c
  BY <1>1, <1>2
<1> DEFINE s == [i \in 1 .. n |-> f[i]]
<1>6. s \in [1 .. n -> zone]
  BY <1>4, <1>5
<1>7. IsInjective(s)
  BY <1>4, <1>5 DEF IsInjective
<1> QED
  BY <1>6, <1>7

LEMMA PagesIs ==
    ASSUME NEW zone, IsFiniteSet(zone), zone \subseteq Nat, NEW n \in Nat, Cardinality(zone) >= n
    PROVE  PagesOk(Pages(n, zone), n, zone)
<1>1. PICK p : p = Pages(n, zone)
  OBVIOUS
<1>2. p \in [1 .. n -> zone] /\ IsInjective(p)
  BY <1>1, PagesExist DEF Pages
<1>3. p \in Seq(Nat) /\ Len(p) = n
  <2>1. p \in [1 .. n -> Nat]
    BY <1>2
  <2> QED
    BY <2>1
<1>4. Range(p) \subseteq zone
  BY <1>2 DEF Range
<1> QED
  BY <1>1, <1>2, <1>3, <1>4 DEF PagesOk

\* f alone
LEMMA OnePage ==
    ASSUME NEW f \in Nat, NEW zone, f \in zone
    PROVE  PagesOk(<<f>>, 1, zone) /\ Range(<<f>>) = {f}
<1>1. PICK p : p = <<f>>
  OBVIOUS
<1>2. p \in Seq(Nat) /\ Len(p) = 1 /\ p[1] = f /\ DOMAIN p = {1}
  BY <1>1
<1>3. IsInjective(p) /\ Range(p) = {f}
  BY <1>2 DEF IsInjective, Range
<1> QED
  BY <1>1, <1>2, <1>3 DEF PagesOk

----------------------------------------------------------------------------
(* The inductive invariant of the page tables *)

\* m is the map of the areas A, and shares no frame with the others.
IsMap(m, A, o, h) ==
    m \in PageMap /\ MapOf(A, m) /\ OnlyUsed(A, m) /\ OneToOne(m) /\ FramesSplit(m, o, h)

\* Table t translates as m says, but for the addresses l it has lost.
Agrees(t, m, l) ==
    \A va \in Virt :
        /\ va \in l => m[va] # None
        /\ m[va] # None => Translate(t, va) = IF va \in l THEN None ELSE m[va]
        /\ m[va] = None => Translate(t, va) \in NoTable

MapInv ==
    /\ IsTable(pt) /\ high \subseteq Nat /\ IsFiniteSet(high)
    /\ \E m : IsMap(m, areas, Others(pt), high) /\ Agrees(pt, m, lost)

\* Table t without the frames of p among its free ones
Without(t, p) == [t EXCEPT !.free = @ \ Range(p)]

LEMMA WithoutIs ==
    ASSUME NEW t, IsTable(t), NEW p, NEW x, x = Without(t, p)
    PROVE  /\ IsTable(x) /\ TableFrames(x) = TableFrames(t) /\ x.free = t.free \ Range(p)
           /\ Same(t, x)
<1>1. t = [dir |-> t.dir, pte |-> t.pte, free |-> t.free]
  BY DEF IsTable
<1>2. x = [dir |-> t.dir, pte |-> t.pte, free |-> t.free \ Range(p)]
  BY <1>1 DEF Without
<1>3. /\ x.dir = t.dir /\ x.pte = t.pte /\ x.free = t.free \ Range(p)
      /\ x = [dir |-> x.dir, pte |-> x.pte, free |-> x.free]
  BY <1>2, TableParts
<1>4. TableFrames(x) = TableFrames(t)
  BY <1>3 DEF TableFrames
<1>5. IsFiniteSet(t.free) /\ IsFiniteSet(t.free \ Range(p))
  <2>1. IsFiniteSet(t.free) /\ t.free \ Range(p) \subseteq t.free
    BY DEF IsTable
  <2> QED
    BY <2>1, FS_Subset
<1>6. IsTable(x)
  BY <1>3, <1>4, <1>5 DEF IsTable
<1>7. Same(t, x)
  BY <1>3 DEF Same, Translate
<1> QED
  BY <1>3, <1>4, <1>6, <1>7

\* The pages of a new area are mapped, and nothing else changes.
LEMMA MapInvStep ==
    ASSUME AreasInv, ListsInv, MapInv, NEW n \in Asked, Candidates(n) # {},
           NEW p, PagesOk(p, n, pt.free \cup high),
           Cut(areas, areas', LastArea.start + n, p, Rest(n)),
           NEW x, x = Without(pt, p), ~Faults(x, Range1(LastArea.start, n)),
           pt' = map_vm_area(x, LastArea.start, p), high' = high \ Range(p), lost' = lost
    PROVE  MapInv'
<1> DEFINE v == LastArea
           s == v.start
           e == s + n
           L == Len(areas)
<1>1. /\ areas \in Seq(Area) /\ L > 0 /\ v = areas[L] /\ v.free /\ Ordered(areas)
      /\ s \in Nat /\ v.end \in Nat /\ n \in Nat \ {0} /\ 1 <= s /\ v.end = VMALLOC_END
      /\ n <= vma_length(v)
  BY TakenIs, LastIs DEF AreasInv, LastArea
<1>2. e \in Nat /\ e <= v.end
  <2>1. vma_length(v) = v.end - s
    BY DEF vma_length
  <2> HIDE DEF v
  <2> QED
    BY <1>1, <2>1
<1>3. Rest(n) \in {0, 1}
  BY DEF Rest
<1>4. /\ p \in Seq(Nat) /\ Len(p) = n /\ IsInjective(p) /\ Range(p) \subseteq pt.free \cup high
  BY DEF PagesOk
<1>0. e = s + n /\ s = v.start /\ L = Len(areas) /\ v = LastArea
  OBVIOUS
<1> HIDE DEF v, s, e, L
<1>5. s .. e - 1 \subseteq Virt /\ Range1(s, n) = s .. e - 1
  <2>1. VMALLOC_END <= PER_TABLE * TABLES /\ VMALLOC_END \in Nat /\ PER_TABLE \in Nat /\ TABLES \in Nat
    BY AreaAssumption, TableAssumption
  <2>2. PICK z : z = PER_TABLE * TABLES
    OBVIOUS
  <2>3. z \in Nat /\ VMALLOC_END <= z
    BY <2>1, <2>2
  <2>4. \A w \in s .. e - 1 : w \in 0 .. z - 1
    BY <1>1, <1>2, <2>1, <2>3
  <2> QED
    BY <1>0, <1>1, <1>2, <2>2, <2>4 DEF Virt, Range1
<1>a. IsTable(pt) /\ high \subseteq Nat /\ IsFiniteSet(high)
  BY DEF MapInv
<1>b. PICK t : IsMap(t, areas, Others(pt), high) /\ Agrees(pt, t, lost)
  BY DEF MapInv
<1>6. /\ IsTable(pt) /\ high \subseteq Nat /\ IsFiniteSet(high) /\ t \in PageMap
      /\ MapOf(areas, t) /\ OnlyUsed(areas, t) /\ OneToOne(t) /\ FramesSplit(t, Others(pt), high)
  BY <1>a, <1>b DEF IsMap
<1>7. /\ IsTable(x) /\ TableFrames(x) = TableFrames(pt) /\ x.free = pt.free \ Range(p) /\ Same(pt, x)
  BY <1>6, WithoutIs
<1>8. MapsAll(x, pt', s, p, n)
  <2>1. Range1(s, Len(p)) \subseteq Virt /\ ~Faults(x, Range1(s, Len(p))) /\ pt' = map_vm_area(x, s, p)
    BY <1>4, <1>5 DEF s, v
  <2>2. MapsAll(x, pt', s, p, Len(p))
    BY <1>1, <1>4, <1>7, <2>1, MapAll
  <2> QED
    BY <1>4, <2>2
<1> DEFINE u == [w \in Virt |-> IF w \in s .. e - 1 THEN p[w - s + 1] ELSE t[w]]
<1>9. Extends(t, u, s, e, p) /\ u \in PageMap /\ \A w \in s .. e - 1 : u[w] \in Nat
  <2>1. ASSUME NEW w \in s .. e - 1 PROVE p[w - s + 1] \in Nat
    <3>1. w - s + 1 \in 1 .. Len(p)
      BY <1>0, <1>1, <1>2, <1>4, Offset
    <3> QED
      BY <1>4, <3>1
  <2>2. \A w \in Virt : t[w] \in Nat \cup {None}
    BY <1>6 DEF PageMap
  <2>3. u \in PageMap
    BY <2>1, <2>2 DEF PageMap
  <2>4. \A w \in s .. e - 1 : u[w] \in Nat
    BY <1>5, <2>1
  <2> QED
    BY <2>3, <2>4 DEF Extends
<1> HIDE DEF u
<1>c. /\ \A w \in s .. e - 1 : Translate(pt', w) = u[w]
      /\ \A w \in Virt : w \notin s .. e - 1 => Translate(pt', w) = Translate(pt, w) /\ u[w] = t[w]
  <2>1. \A w \in Virt : Translate(x, w) = Translate(pt, w)
    BY <1>7 DEF Same
  <2>2. \A w \in Virt : Translate(pt', w) = IF w \in s .. e - 1 THEN p[w - s + 1] ELSE Translate(x, w)
    BY <1>0, <1>1, <1>2, <1>8 DEF MapsAll
  <2> QED
    BY <1>5, <1>9, <2>1, <2>2 DEF Extends
<1>10. IsTable(pt') /\ Others(pt') = Others(pt) \ Range(p)
  <2>1. IsTable(pt') /\ TableFrames(pt') \cup pt'.free = TableFrames(x) \cup x.free
    BY <1>8 DEF MapsAll
  <2>2. Range(p) \cap TableFrames(pt) = {}
    <3>1. pt.free \cap TableFrames(pt) = {}
      BY <1>6 DEF IsTable
    <3>2. high \cap TableFrames(pt) = {}
      BY <1>6 DEF FramesSplit, Others
    <3> QED
      BY <1>4, <3>1, <3>2
  <2> QED
    BY <1>7, <2>1, <2>2 DEF Others
<1>11. MapOf(areas', u) /\ OnlyUsed(areas', u) /\ \A w \in s .. e - 1 : t[w] = None
  <2>1. PICK m : m = Rest(n)
    OBVIOUS
  <2>2. m \in {0, 1} /\ Cut(areas, areas', e, p, m)
    BY <1>0, <1>3, <2>1
  <2>3. LastCut(areas, areas', e, p, m) /\ s = areas[Len(areas)].start
    BY <1>0, <1>1, <1>5, <2>2 DEF LastCut
  <2>4. e \in Nat /\ p \in Seq(Nat) /\ e = s + Len(p)
    BY <1>0, <1>2, <1>4
  <2>5. MapOf(areas, t) /\ OnlyUsed(areas, t)
    BY <1>6
  <2>6. CutMap(areas, areas', e, p, m, s, t, u)
    BY <1>9, <2>2, <2>3, <2>4, <2>5 DEF CutMap
  <2>7. MapOf(areas', u) /\ OnlyUsed(areas', u) /\ Unmapped(t, s, e)
    BY <2>6, MapOfCut
  <2> QED
    BY <2>7 DEF Unmapped
<1>12. OneToOne(u) /\ FramesSplit(u, Others(pt) \ Range(p), high \ Range(p))
  <2>1. s .. s + n - 1 \subseteq Virt /\ \A w \in s .. s + n - 1 : t[w] = None
    BY <1>0, <1>1, <1>2, <1>5, <1>11, SMTT(30)
  <2>2. Extends(t, u, s, s + n, p)
    BY <1>0, <1>1, <1>2, <1>9
  <2>3. Range(p) \subseteq Others(pt) \cup high
    BY <1>4 DEF Others
  <2>4. n \in Nat
    BY <1>1
  <2>5. PICK o : o = Others(pt)
    OBVIOUS
  <2>6. /\ FramesSplit(t, o, high) /\ Range(p) \subseteq o \cup high /\ OneToOne(t)
        /\ p \in Seq(Nat) /\ Len(p) = n /\ IsInjective(p) /\ s \in Nat
    BY <1>1, <1>4, <1>6, <2>3, <2>5
  <2>7. OneToOne(u) /\ FramesSplit(u, o \ Range(p), high \ Range(p))
    BY <2>1, <2>2, <2>4, <2>6, FramesStep
  <2> QED
    BY <2>5, <2>7
<1>13. high' \subseteq Nat /\ IsFiniteSet(high')
  <2>1. high' \subseteq high
    OBVIOUS
  <2> QED
    BY <1>6, <2>1, FS_Subset
<1>14. IsMap(u, areas', Others(pt'), high')
  BY <1>9, <1>10, <1>11, <1>12 DEF IsMap
<1>15. Agrees(pt', u, lost)
  <2> SUFFICES ASSUME NEW w \in Virt
               PROVE  /\ w \in lost => u[w] # None
                      /\ u[w] # None => Translate(pt', w) = IF w \in lost THEN None ELSE u[w]
                      /\ u[w] = None => Translate(pt', w) \in NoTable
    BY DEF Agrees
  <2>1. /\ w \in lost => t[w] # None
        /\ t[w] # None => Translate(pt, w) = IF w \in lost THEN None ELSE t[w]
        /\ t[w] = None => Translate(pt, w) \in NoTable
    BY <1>b DEF Agrees
  <2>2. CASE w \in s .. e - 1
    <3>1. u[w] # None
      BY <1>9, <2>2 DEF None
    <3>2. w \notin lost
      BY <1>11, <2>1, <2>2
    <3> QED
      BY <1>c, <2>2, <3>1, <3>2
  <2>3. CASE w \notin s .. e - 1
    BY <1>c, <2>1, <2>3
  <2> QED
    BY <2>2, <2>3
<1>16. IsTable(pt') /\ \E m : IsMap(m, areas', Others(pt'), high') /\ Agrees(pt', m, lost')
  BY <1>10, <1>14, <1>15
<1> QED
  BY <1>13, <1>16 DEF MapInv, Others

LEMMA UsedIs ==
    ASSUME AreasInv
    PROVE  /\ DOMAIN areas = 1 .. Len(areas) /\ Used = {i \in 1 .. Len(areas) : ~areas[i].free}
           /\ Used \subseteq 1 .. Len(areas)
           /\ DOMAIN areas \ Used = IF LastArea.free THEN {Len(areas)} ELSE {}
<1>1. areas \in Seq(Area) /\ Len(areas) \in Nat \ {0} /\ Ordered(areas)
  BY LastIs DEF AreasInv
<1>2. DOMAIN areas = 1 .. Len(areas)
  BY <1>1
<1>3. Used = {i \in 1 .. Len(areas) : ~areas[i].free}
  BY <1>2 DEF Used
<1>4. \A i \in 1 .. Len(areas) : i = Len(areas) \/ i \in 1 .. Len(areas) - 1
  BY <1>1
<1>5. \A i \in 1 .. Len(areas) - 1 : ~areas[i].free
  BY <1>1 DEF Ordered
<1>6. \A i \in 1 .. Len(areas) : areas[i].free => i = Len(areas)
  BY <1>4, <1>5
<1>7. Len(areas) \in 1 .. Len(areas)
  BY <1>1
<1>8. DOMAIN areas \ Used = {i \in 1 .. Len(areas) : areas[i].free}
  BY <1>2, <1>3
<1>9. CASE LastArea.free
  <2>1. areas[Len(areas)].free
    BY <1>9 DEF LastArea
  <2>2. {i \in 1 .. Len(areas) : areas[i].free} = {Len(areas)}
    BY <1>6, <1>7, <2>1
  <2> QED
    BY <1>2, <1>3, <1>8, <1>9, <2>2
<1>10. CASE ~LastArea.free
  <2>1. ~areas[Len(areas)].free
    BY <1>10 DEF LastArea
  <2>2. {i \in 1 .. Len(areas) : areas[i].free} = {}
    BY <1>6, <2>1
  <2> QED
    BY <1>2, <1>3, <1>8, <1>10, <2>2
<1> QED
  BY <1>9, <1>10

\* A map of the areas has a page for exactly the addresses in use.
LEMMA InUseIs ==
    ASSUME AreasInv, NEW m, NEW o, NEW h, IsMap(m, areas, o, h), NEW w \in Virt
    PROVE  InUseAt(w) <=> m[w] # None
<1>1. Used = {i \in 1 .. Len(areas) : ~areas[i].free}
  BY UsedIs
<1>2. MapOf(areas, m) /\ OnlyUsed(areas, m)
  BY DEF IsMap
<1>3. InUseAt(w) => m[w] # None
  BY <1>1, <1>2 DEF InUseAt, MapOf
<1>4. m[w] # None => InUseAt(w)
  BY <1>1, <1>2 DEF InUseAt, OnlyUsed
<1> QED
  BY <1>3, <1>4

\* start_paging takes from the tables what entry 0 had, and nothing else.
LEMMA StartPagingIs ==
    ASSUME NEW t, IsTable(t), NEW x, x = start_paging(t)
    PROVE  /\ IsTable(x) /\ Others(x) = Others(t)
           /\ \A w \in Virt : Translate(x, w) = IF pde_index(w) = 0 THEN None ELSE Translate(t, w)
<1>1. 0 \in Slots
  BY TableAssumption DEF Slots
<1>2. /\ t = [dir |-> t.dir, pte |-> t.pte, free |-> t.free]
      /\ t.dir \in [Slots -> TableFrames(t) \cup NoTable]
  BY DEF IsTable
<1> DEFINE dir == [t.dir EXCEPT ![0] = None]
<1>3. x = [dir |-> dir, pte |-> t.pte, free |-> t.free]
  BY <1>2 DEF start_paging
<1>4. /\ dir \in [Slots -> TableFrames(t) \cup NoTable] /\ dir[0] = None
      /\ \A i \in Slots : i # 0 => dir[i] = t.dir[i]
  BY <1>1, <1>2 DEF NoTable
<1> HIDE DEF dir
<1>5. /\ x.dir = dir /\ x.pte = t.pte /\ x.free = t.free
      /\ x = [dir |-> x.dir, pte |-> x.pte, free |-> x.free]
  BY <1>3, TableParts
<1>6. TableFrames(x) = TableFrames(t)
  BY <1>5 DEF TableFrames
<1>7. \A i, j \in Slots : x.dir[i] = x.dir[j] /\ x.dir[i] \notin NoTable => i = j
  BY <1>4, <1>5 DEF IsTable, NoTable
<1>8. IsTable(x) /\ Others(x) = Others(t)
  BY <1>4, <1>5, <1>6, <1>7 DEF IsTable, Others
<1>9. ASSUME NEW w \in Virt
      PROVE  Translate(x, w) = IF pde_index(w) = 0 THEN None ELSE Translate(t, w)
  <2>1. pde_index(w) \in Slots
    BY IndexIs
  <2> QED
    BY <1>4, <1>5, <2>1 DEF Translate
<1> QED
  BY <1>8, <1>9

LEMMA StartPagingMap ==
    ASSUME AreasInv, MapInv, StartPaging
    PROVE  MapInv'
<1>1. UNCHANGED <<areas, high>> /\ pt' = start_paging(pt)
      /\ lost' = lost \cup {va \in Virt : pde_index(va) = 0 /\ InUseAt(va)}
  BY DEF StartPaging, space
<1>2. IsTable(pt) /\ high \subseteq Nat /\ IsFiniteSet(high)
  BY DEF MapInv
<1>3. PICK m : IsMap(m, areas, Others(pt), high) /\ Agrees(pt, m, lost)
  BY DEF MapInv
<1>4. /\ IsTable(pt') /\ Others(pt') = Others(pt)
      /\ \A w \in Virt : Translate(pt', w) = IF pde_index(w) = 0 THEN None ELSE Translate(pt, w)
  BY <1>1, <1>2, StartPagingIs
<1>5. IsMap(m, areas', Others(pt'), high')
  BY <1>1, <1>3, <1>4
<1>6. \A w \in Virt : InUseAt(w) <=> m[w] # None
  BY <1>3, InUseIs
<1>7. Agrees(pt', m, lost')
  <2> SUFFICES ASSUME NEW w \in Virt
               PROVE  /\ w \in lost' => m[w] # None
                      /\ m[w] # None => Translate(pt', w) = IF w \in lost' THEN None ELSE m[w]
                      /\ m[w] = None => Translate(pt', w) \in NoTable
    BY DEF Agrees
  <2>1. /\ w \in lost => m[w] # None
        /\ m[w] # None => Translate(pt, w) = IF w \in lost THEN None ELSE m[w]
        /\ m[w] = None => Translate(pt, w) \in NoTable
    BY <1>3 DEF Agrees
  <2>2. w \in lost' <=> (w \in lost \/ (pde_index(w) = 0 /\ m[w] # None))
    BY <1>1, <1>6
  <2>3. None \in NoTable
    BY DEF NoTable
  <2>4. CASE pde_index(w) = 0
    BY <1>4, <2>1, <2>2, <2>3, <2>4
  <2>5. CASE pde_index(w) # 0
    BY <1>4, <2>1, <2>2, <2>5
  <2> QED
    BY <2>4, <2>5
<1>8. \E z : IsMap(z, areas', Others(pt'), high') /\ Agrees(pt', z, lost')
  BY <1>5, <1>7
<1> QED
  BY <1>1, <1>2, <1>4, <1>8 DEF MapInv, Others

----------------------------------------------------------------------------
(* Every step keeps the invariant *)

VmallocInv == AreasInv /\ ListsInv /\ MapInv

\* Steps that leave the areas, the tree and the tables alone
LEMMA QuietStep ==
    ASSUME VmallocInv, UNCHANGED <<space, pt, high, lost>>
    PROVE  VmallocInv'
<1>1. UNCHANGED <<areas, lists, members, unlisted, untracked, pt, high, lost>>
  BY DEF space
<1>2. AreasInv'
  BY <1>1 DEF VmallocInv, AreasInv
<1>3. ListsInv'
  BY <1>1 DEF VmallocInv, ListsInv, LastArea, NoList, OneList
<1>4. MapInv'
  BY <1>1 DEF VmallocInv, MapInv
<1> QED
  BY <1>2, <1>3, <1>4 DEF VmallocInv

LEMMA VmapStep ==
    ASSUME VmallocInv, NEW f, Vmap(f)
    PROVE  VmallocInv'
<1>1. AreasInv /\ ListsInv /\ MapInv /\ 1 \in Asked
  BY DEF VmallocInv, Asked
<1>2. f \in high /\ Candidates(1) # {}
  BY DEF Vmap
<1>3. PICK x : x = Without(pt, <<f>>)
  OBVIOUS
<1>4. areas[Taken(1)].start = LastArea.start /\ LastArea.start \in Nat
  BY <1>1, <1>2, TakenIs, LastIs DEF LastArea
<1>5. f \in Nat /\ f \notin pt.free /\ IsTable(pt)
  <2>1. PICK m : IsMap(m, areas, Others(pt), high)
    BY <1>1 DEF MapInv
  <2>2. Others(pt) \cap high = {}
    BY <2>1 DEF IsMap, FramesSplit
  <2> QED
    BY <1>1, <1>2, <2>2 DEF MapInv, Others
<1>6. PagesOk(<<f>>, 1, pt.free \cup high) /\ Range(<<f>>) = {f}
  BY <1>2, <1>5, OnePage
<1>7. x = pt
  <2>1. pt.free \ Range(<<f>>) = pt.free
    BY <1>5, <1>6
  <2>2. pt = [dir |-> pt.dir, pte |-> pt.pte, free |-> pt.free]
    BY <1>5 DEF IsTable
  <2>3. x = [dir |-> pt.dir, pte |-> pt.pte, free |-> pt.free \ Range(<<f>>)]
    BY <1>3, <2>2 DEF Without
  <2> QED
    BY <2>1, <2>2, <2>3
<1>8. <<f>> \in Seq(Nat)
  BY <1>5
<1>9. AreasInv' /\ ListsInv' /\ Cut(areas, areas', LastArea.start + 1, <<f>>, Rest(1))
  <2>1. /\ areas' = Fill(Split(1), Taken(1), <<f>>) /\ lists' = Relist(1) /\ Insert(1)
        /\ UNCHANGED unlisted
    BY DEF Vmap
  <2> QED
    BY <1>1, <1>2, <1>8, <2>1, AllocStep
<1>10. MapInv'
  <2>1. pt' = map_vm_area(x, LastArea.start, <<f>>)
    BY <1>4, <1>7 DEF Vmap
  <2>2. Range1(LastArea.start, 1) = {LastArea.start}
    <3>1. PICK a : a = LastArea.start
      OBVIOUS
    <3>2. a .. a + 1 - 1 = {a}
      BY <1>4, <3>1
    <3> QED
      BY <3>1, <3>2 DEF Range1
  <2>3. ~Faults(x, Range1(LastArea.start, 1))
    BY <1>4, <1>7, <2>2 DEF Vmap
  <2>4. high' = high \ Range(<<f>>) /\ lost' = lost
    BY <1>6 DEF Vmap, others
  <2> QED
    BY <1>1, <1>2, <1>3, <1>6, <1>9, <2>1, <2>3, <2>4, MapInvStep
<1> QED
  BY <1>9, <1>10 DEF VmallocInv

LEMMA DoneStep ==
    ASSUME VmallocInv, NEW n \in Sizes, NEW gfp, VmallocDone(n, gfp)
    PROVE  VmallocInv'
<1>1. AreasInv /\ ListsInv /\ MapInv /\ n \in Asked /\ Candidates(n) # {}
  BY DEF VmallocInv, Asked, VmallocDone
<1>2. PICK p : p = Pages(n, Zone(gfp))
  OBVIOUS
<1>3. PICK x : x = Without(pt, p)
  OBVIOUS
<1>4. areas[Taken(n)].start = LastArea.start /\ LastArea.start \in Nat /\ n \in Nat
  BY <1>1, TakenIs, LastIs DEF LastArea
<1>5. PagesOk(p, n, pt.free \cup high) /\ p \in Seq(Nat)
  <2>1. PICK zone : zone = Zone(gfp)
    OBVIOUS
  <2>2. zone \in {high, pt.free}
    BY <2>1 DEF Zone
  <2>3. IsFiniteSet(zone) /\ zone \subseteq Nat /\ zone \subseteq pt.free \cup high
    BY <1>1, <2>2 DEF MapInv, IsTable
  <2>4. Cardinality(zone) >= n
    BY <2>1 DEF VmallocDone
  <2>5. PagesOk(p, n, zone)
    BY <1>2, <1>4, <2>1, <2>3, <2>4, PagesIs
  <2> QED
    BY <2>3, <2>5 DEF PagesOk
<1>6. /\ ~Faults(x, Range1(LastArea.start, n))
      /\ areas' = Fill(Split(n), Taken(n), p)
      /\ pt' = map_vm_area(x, LastArea.start, p) /\ high' = high \ Range(p)
      /\ lists' = Relist(n) /\ Insert(n) /\ UNCHANGED unlisted /\ lost' = lost
  BY <1>2, <1>3, <1>4 DEF VmallocDone, Without, others
<1>7. AreasInv' /\ ListsInv' /\ Cut(areas, areas', LastArea.start + n, p, Rest(n))
  BY <1>1, <1>5, <1>6, AllocStep
<1>8. MapInv'
  BY <1>1, <1>3, <1>5, <1>6, <1>7, MapInvStep
<1> QED
  BY <1>7, <1>8 DEF VmallocInv

\* free_vma leaves the last area free and in no list.
LEMMA NoArrayStep ==
    ASSUME VmallocInv, NEW n \in Sizes, NEW gfp, VmallocNoArray(n, gfp)
    PROVE  VmallocInv'
<1>1. AreasInv /\ ListsInv /\ MapInv /\ n \in Asked /\ Candidates(n) # {}
  BY DEF VmallocInv, Asked, VmallocNoArray
<1>2. /\ UNCHANGED <<areas, members, untracked, pt, high, lost>> /\ unlisted' = TRUE
      /\ lists' = [q \in Order |-> RemoveFirst(lists[q], areas[Taken(n)].start)]
  BY DEF VmallocNoArray, others
<1>3. AreasInv'
  BY <1>1, <1>2 DEF AreasInv
<1>4. MapInv'
  BY <1>1, <1>2 DEF MapInv
<1>5. ListsInv'
  <2>1. areas[Taken(n)].start = LastArea.start
    BY <1>1, TakenIs DEF LastArea
  <2>2. PICK a, o : a = LastArea.start /\ o = ilog2(vma_length(LastArea))
    OBVIOUS
  <2>3. lists = OneList(o, a)
    BY <1>1, <2>2, TakenIs
  <2>4. \A q \in Order : lists[q] = <<a>> \/ lists[q] = <<>>
    BY <2>3 DEF OneList
  <2>5. RemoveFirst(<<a>>, a) = <<>> /\ RemoveFirst(<<>>, a) = <<>>
    BY RemoveOne
  <2>6. \A q \in Order : RemoveFirst(lists[q], a) = <<>>
    BY <2>4, <2>5
  <2>7. lists' = NoList
    BY <1>2, <2>1, <2>2, <2>6 DEF NoList
  <2> QED
    BY <1>2, <2>7 DEF ListsInv, NoList
<1> QED
  BY <1>3, <1>4, <1>5 DEF VmallocInv

LEMMA StartPagingStep ==
    ASSUME VmallocInv, StartPaging
    PROVE  VmallocInv'
<1>1. UNCHANGED <<areas, lists, members, unlisted, untracked>>
  BY DEF StartPaging, space
<1>2. AreasInv'
  BY <1>1 DEF VmallocInv, AreasInv
<1>3. ListsInv'
  BY <1>1 DEF VmallocInv, ListsInv, LastArea, NoList, OneList
<1>4. MapInv'
  BY StartPagingMap DEF VmallocInv
<1> QED
  BY <1>2, <1>3, <1>4 DEF VmallocInv

LEMMA NextStep ==
    ASSUME VmallocInv, [Next]_vars
    PROVE  VmallocInv'
<1>1. CASE Vfree
  BY <1>1, QuietStep DEF Vfree, others
<1>5. CASE StartPaging
  BY <1>5, StartPagingStep
<1>2. CASE high # {} /\ Vmap(Min(high))
  BY <1>2, VmapStep
<1>3. ASSUME NEW n \in Sizes, NEW gfp \in {"high", "normal"},
             \/ VmallocDone(n, gfp) \/ VmallocFault(n, gfp) \/ VmallocNoBuddy(n, gfp)
             \/ VmallocNoArray(n, gfp) \/ VmallocNoPages(n, gfp) \/ VmallocWild(n, gfp)
      PROVE  VmallocInv'
  <2>1. CASE VmallocDone(n, gfp)
    BY <2>1, DoneStep
  <2>2. CASE VmallocFault(n, gfp)
    BY <2>2, QuietStep DEF VmallocFault, others
  <2>3. CASE VmallocNoBuddy(n, gfp)
    BY <2>3, QuietStep DEF VmallocNoBuddy, others
  <2>4. CASE VmallocNoArray(n, gfp)
    BY <2>4, NoArrayStep
  <2>5. CASE VmallocNoPages(n, gfp)
    BY <2>5, QuietStep DEF VmallocNoPages, others
  <2>6. CASE VmallocWild(n, gfp)
    BY <2>6, QuietStep DEF VmallocWild, AllocVmaWild, others
  <2> QED
    BY <1>3, <2>1, <2>2, <2>3, <2>4, <2>5, <2>6
<1>4. CASE UNCHANGED vars
  BY <1>4, QuietStep DEF vars, space
<1> QED
  BY <1>1, <1>2, <1>3, <1>4, <1>5 DEF Next

LEMMA InitInv ==
    Init => VmallocInv
<1> SUFFICES ASSUME Init PROVE VmallocInv
  OBVIOUS
<1>1. PICK v : v = vm_area(VMALLOC_START, VMALLOC_END, TRUE, <<>>)
  OBVIOUS
<1>2. /\ v \in Area /\ v.start = 1 /\ v.end = VMALLOC_END /\ v.free
      /\ VMALLOC_END \in Nat /\ 1 < VMALLOC_END
  <2>1. VMALLOC_START = 1 /\ VMALLOC_END \in Nat /\ 1 < VMALLOC_END /\ <<>> \in Seq(Nat)
    BY Consts DEF VMALLOC_START
  <2>2. v.start = 1 /\ v.end = VMALLOC_END /\ v.free
    BY <1>1, <2>1 DEF vm_area
  <2>3. v \in Area
    BY <1>1, <2>1, AreaType
  <2> QED
    BY <2>1, <2>2, <2>3
<1>3. areas \in Seq(Area) /\ Len(areas) = 1 /\ areas[1] = v
  <2>1. areas = <<v>>
    BY <1>1 DEF Init
  <2> QED
    BY <1>2, <2>1
<1>4. \A i \in 1 .. 1 : i = 1
  OBVIOUS
<1>5. Ordered(areas)
  <2>1. \A i \in 1 .. Len(areas) : areas[i].start < areas[i].end
    BY <1>2, <1>3, <1>4
  <2>2. 1 .. Len(areas) - 1 = {}
    BY <1>3
  <2>3. \A i, j \in 1 .. Len(areas) : ~(i < j)
    BY <1>3
  <2> QED
    BY <1>2, <1>3, <2>1, <2>2, <2>3 DEF Ordered, VMALLOC_START
<1>6. AreasInv
  <2>1. Spans(areas) = {}
    <3>1. {j \in 1 .. Len(areas) : ~areas[j].free} = {}
      BY <1>2, <1>3, <1>4
    <3> QED
      BY <3>1 DEF Spans
  <2>2. members = {} /\ Len(areas) > 0
    BY <1>3 DEF Init, Tree!SInit
  <2> QED
    BY <1>3, <1>5, <2>1, <2>2 DEF AreasInv
<1>7. ListsInv
  <2>1. LastArea = v /\ vma_length(LastArea) = VMALLOC_END - VMALLOC_START /\ LastArea.start = VMALLOC_START
    BY <1>2, <1>3 DEF LastArea, vma_length, VMALLOC_START
  <2>2. lists = OneList(ilog2(VMALLOC_END - VMALLOC_START), VMALLOC_START)
    BY DEF Init, OneList
  <2> QED
    BY <1>2, <2>1, <2>2 DEF ListsInv
<1>8. PICK d \in [Slots -> NoTable] : pt = [dir |-> d, pte |-> [f \in {} |-> None], free |-> Normal]
  BY DEF Init, FirstTables, Slots, NoTable
<1>9. /\ pt.dir = d /\ pt.pte = [f \in {} |-> None] /\ pt.free = Normal
      /\ pt = [dir |-> pt.dir, pte |-> pt.pte, free |-> pt.free] /\ TableFrames(pt) = {}
  <2>1. /\ pt.dir = d /\ pt.pte = [f \in {} |-> None] /\ pt.free = Normal
        /\ pt = [dir |-> pt.dir, pte |-> pt.pte, free |-> pt.free]
    BY <1>8, TableParts
  <2> QED
    BY <2>1 DEF TableFrames
<1>10. \A va \in Virt : Translate(pt, va) \in NoTable
  <2> SUFFICES ASSUME NEW va \in Virt PROVE Translate(pt, va) \in NoTable
    OBVIOUS
  <2>1. pde_index(va) \in Slots
    BY IndexIs
  <2> QED
    BY <1>9, <2>1 DEF Translate, NoTable
<1>11. /\ high = High /\ High \subseteq Nat /\ Normal \subseteq Nat /\ High \cap Normal = {}
       /\ IsFiniteSet(High) /\ IsFiniteSet(Normal) /\ lost = {}
  BY AreaAssumption DEF Init
<1>12. IsTable(pt)
  <2>1. pt.dir \in [Slots -> TableFrames(pt) \cup NoTable] /\ \A i \in Slots : pt.dir[i] \in NoTable
    BY <1>9
  <2>2. pt.pte \in [TableFrames(pt) -> Leaf]
    BY <1>9
  <2> QED
    BY <1>9, <1>11, <2>1, <2>2 DEF IsTable
<1> DEFINE m == [va \in Virt |-> None]
<1>13. m \in PageMap /\ \A va \in Virt : m[va] = None
  BY DEF PageMap
<1> HIDE DEF m
<1>14. MapOf(areas, m) /\ OnlyUsed(areas, m) /\ OneToOne(m)
  BY <1>2, <1>3, <1>4, <1>13 DEF MapOf, OnlyUsed, OneToOne
<1>15. FramesSplit(m, Others(pt), high)
  <2>1. MappedBy(m) = {}
    BY <1>13 DEF MappedBy
  <2>2. Others(pt) = Normal
    BY <1>9 DEF Others
  <2> QED
    BY <1>11, <2>1, <2>2 DEF FramesSplit
<1>16. MapInv
  <2>1. IsMap(m, areas, Others(pt), high)
    BY <1>13, <1>14, <1>15 DEF IsMap
  <2>2. Agrees(pt, m, lost)
    BY <1>10, <1>11, <1>13 DEF Agrees
  <2> QED
    BY <1>11, <1>12, <2>1, <2>2 DEF MapInv
<1> QED
  BY <1>6, <1>7, <1>16 DEF VmallocInv

\* Only the last area is ever free, since vfree and vunmap do not return; it is
\* the one in the lists, or none is; the tables map the areas in use, but for what
\* start_paging has cleared, and a frame has one use.  Every call of mm/vmalloc.c keeps this.
THEOREM VmallocInvariant ==
    Spec => []VmallocInv
<1>1. Init => VmallocInv
  BY InitInv
<1>2. VmallocInv /\ [Next]_vars => VmallocInv'
  BY NextStep
<1> QED
  BY <1>1, <1>2, PTL DEF Spec

----------------------------------------------------------------------------
(* What follows *)

LEMMA AreasInvTile ==
    AreasInv => AreasTile
<1> SUFFICES ASSUME AreasInv PROVE AreasTile
  OBVIOUS
<1>1. DOMAIN areas = 1 .. Len(areas) /\ Used = {i \in 1 .. Len(areas) : ~areas[i].free}
  BY UsedIs
<1>2. Ordered(areas)
  BY DEF AreasInv
<1>3. Spans(areas) = {<<areas[i].start, areas[i].end - 1>> : i \in Used}
  BY <1>1 DEF Spans
<1>4. members \subseteq Spans(areas) /\ (~untracked => members = Spans(areas))
  BY DEF AreasInv
<1>5. /\ \A i \in 1 .. Len(areas) : areas[i].start < areas[i].end
      /\ areas[1].start = VMALLOC_START /\ areas[Len(areas)].end = VMALLOC_END
      /\ \A i \in 1 .. Len(areas) - 1 : areas[i].end = areas[i + 1].start /\ ~areas[i].free
  BY <1>2 DEF Ordered
<1> QED
  BY <1>1, <1>3, <1>4, <1>5 DEF AreasTile

\* alloc_vma cuts only what it takes: whatever the sizes asked for, whichever
\* kmalloc fails, vma_list covers the range once and in order, and the tree has
\* the areas in use unless rb_tree_insert had no memory.
THEOREM AreasTileCorrect ==
    Spec => []AreasTile
<1>1. VmallocInv => AreasTile
  BY AreasInvTile DEF VmallocInv
<1> QED
  BY <1>1, VmallocInvariant, PTL

LEMMA ListsInvExact ==
    AreasInv /\ ListsInv => ListedExact
<1> SUFFICES ASSUME AreasInv, ListsInv PROVE ListedExact
  OBVIOUS
<1>1. PICK L, v, o, a : L = Len(areas) /\ v = LastArea /\ o = ilog2(vma_length(v)) /\ a = v.start
  OBVIOUS
<1>2. v = areas[L] /\ L \in 1 .. Len(areas) /\ o \in Order
  BY <1>1, LastIs, LogIs DEF LastArea
<1>3. /\ DOMAIN areas = 1 .. Len(areas)
      /\ DOMAIN areas \ Used = IF v.free THEN {L} ELSE {}
  BY <1>1, UsedIs
<1>4. \/ lists = NoList /\ (v.free => unlisted)
      \/ v.free /\ lists = OneList(o, a)
  BY <1>1 DEF ListsInv
<1>5. ASSUME NEW q \in Order, NEW x \in Range(lists[q]) PROVE v.free /\ q = o /\ x = a
  <2>1. \A y : y \notin Range(<<>>)
    BY DEF Range
  <2>2. CASE lists = NoList
    <3>1. lists[q] = <<>>
      BY <2>2 DEF NoList
    <3> QED
      BY <1>5, <2>1, <3>1
  <2>3. CASE v.free /\ lists = OneList(o, a)
    <3>1. lists[q] = IF q = o THEN <<a>> ELSE <<>>
      BY <2>3 DEF OneList
    <3>2. q = o
      BY <1>5, <2>1, <3>1
    <3>3. Range(<<a>>) = {a}
      BY DEF Range
    <3> QED
      BY <1>5, <2>3, <3>1, <3>2, <3>3
  <2> QED
    BY <1>4, <2>2, <2>3
<1>6. \A q \in Order : \A x \in Range(lists[q]) :
        \E i \in DOMAIN areas :
            areas[i].start = x /\ areas[i].free /\ ilog2(vma_length(areas[i])) = q
  <2> SUFFICES ASSUME NEW q \in Order, NEW x \in Range(lists[q])
               PROVE  \E i \in DOMAIN areas :
                        areas[i].start = x /\ areas[i].free /\ ilog2(vma_length(areas[i])) = q
    OBVIOUS
  <2>1. v.free /\ q = o /\ x = a
    BY <1>5
  <2>2. areas[L].start = x /\ areas[L].free /\ ilog2(vma_length(areas[L])) = q
    BY <1>1, <1>2, <2>1
  <2> QED
    BY <1>2, <1>3, <2>2
<1>7. ASSUME NEW n \in Sizes, Candidates(n) # {} PROVE Asserts(n)
  <2>1. n \in Asked
    BY DEF Asked
  <2>2. Taken(n) = Len(areas) /\ LastArea.free /\ n <= vma_length(LastArea) /\ n \in Nat
    BY <1>7, <2>1, TakenIs
  <2>3. Splits(n) => ilog2(vma_length(LastArea) - n) \in Order
    BY <1>7, <2>1, RelistIs
  <2>4. areas[Taken(n)] = LastArea
    BY <2>2 DEF LastArea
  <2>5. vma_length(LastArea) >= n
    BY <2>2, LastIs
  <2> QED
    BY <2>2, <2>3, <2>4, <2>5 DEF Asserts
<1>8. ~unlisted => Listed = {areas[i].start : i \in DOMAIN areas \ Used}
  <2> SUFFICES ASSUME ~unlisted PROVE Listed = {areas[i].start : i \in DOMAIN areas \ Used}
    OBVIOUS
  <2>1. \A x : x \in Listed <=> \E q \in Order : x \in Range(lists[q])
    BY DEF Listed
  <2>2. CASE v.free
    <3>1. lists = OneList(o, a)
      BY <1>4, <2>2
    <3>2. lists[o] = <<a>>
      BY <1>2, <3>1 DEF OneList
    <3>3. Range(<<a>>) = {a}
      BY DEF Range
    <3>4. Listed = {a}
      BY <1>2, <1>5, <2>1, <3>2, <3>3
    <3>5. {areas[i].start : i \in DOMAIN areas \ Used} = {areas[L].start}
      BY <1>3, <2>2
    <3> QED
      BY <1>1, <1>2, <3>4, <3>5
  <2>3. CASE ~v.free
    <3>1. Listed = {}
      BY <1>5, <2>1, <2>3
    <3>2. {areas[i].start : i \in DOMAIN areas \ Used} = {}
      BY <1>3, <2>3
    <3> QED
      BY <3>1, <3>2
  <2> QED
    BY <2>2, <2>3
<1> QED
  BY <1>6, <1>7, <1>8 DEF ListedExact

\* The lists of free areas: what alloc_vma finds there is free and as long as the
\* order of its list says, so that its assertions hold for every size asked for,
\* and no free area is lost until free_vma has run.
THEOREM ListedExactCorrect ==
    Spec => []ListedExact
<1>1. VmallocInv => ListedExact
  BY ListsInvExact DEF VmallocInv
<1> QED
  BY <1>1, VmallocInvariant, PTL

LEMMA MappedCount ==
    ASSUME NEW t, OneToOne(t)
    PROVE  Cardinality(MappedBy(t)) = Cardinality({va \in Virt : t[va] # None})
<1> DEFINE S == {va \in Virt : t[va] # None}
           f == [va \in S |-> t[va]]
<1>1. IsFiniteSet(S)
  <2>1. IsFiniteSet(Virt)
    <3>1. PER_TABLE \in Nat /\ TABLES \in Nat
      BY TableAssumption
    <3>2. PICK z : z = PER_TABLE * TABLES
      OBVIOUS
    <3>3. 0 \in Int /\ z - 1 \in Int
      BY <3>1, <3>2
    <3>4. IsFiniteSet(0 .. z - 1)
      BY <3>3, FS_Interval
    <3> QED
      BY <3>2, <3>4 DEF Virt
  <2>2. S \subseteq Virt
    OBVIOUS
  <2> HIDE DEF S
  <2> QED
    BY <2>1, <2>2, FS_Subset
<1>2. \A x : x \in MappedBy(t) <=> \E va \in S : x = t[va]
  BY DEF MappedBy
<1>3. \A v, w \in S : t[v] = t[w] => v = w
  BY DEF OneToOne
<1> HIDE DEF S
<1>4. f \in [S -> MappedBy(t)]
  BY <1>2
<1>5. \A v \in S : f[v] = t[v]
  OBVIOUS
<1> HIDE DEF f
<1>6. f \in Injection(S, MappedBy(t))
  BY <1>3, <1>4, <1>5 DEF Injection, IsInjective
<1>7. f \in Surjection(S, MappedBy(t))
  BY <1>2, <1>4, <1>5 DEF Surjection
<1>8. ExistsBijection(S, MappedBy(t))
  BY <1>6, <1>7 DEF ExistsBijection, Bijection
<1>9. Cardinality(MappedBy(t)) = Cardinality(S)
  BY <1>1, <1>8, FS_Bijection
<1> QED
  BY <1>9 DEF S

LEMMA MapInvExact ==
    AreasInv /\ MapInv => MapExact
<1> SUFFICES ASSUME AreasInv, MapInv PROVE MapExact
  OBVIOUS
<1>1. IsTable(pt)
  BY DEF MapInv
<1>2. PICK m : IsMap(m, areas, Others(pt), high) /\ Agrees(pt, m, lost)
  BY DEF MapInv
<1>3. Used = {i \in 1 .. Len(areas) : ~areas[i].free}
  BY UsedIs
<1>4. \A va \in Virt : InUseAt(va) <=> m[va] # None
  BY <1>2, InUseIs
<1>5. ASSUME NEW va \in Virt PROVE PageOf(va) = m[va]
  <2> DEFINE In(i) == va \in areas[i].start .. areas[i].end - 1
  <2>1. CASE InUseAt(va)
    <3>1. PICK c : c = CHOOSE i \in Used : In(i)
      OBVIOUS
    <3>2. c \in Used /\ In(c)
      BY <2>1, <3>1 DEF InUseAt
    <3>3. m[va] = areas[c].pages[va - areas[c].start + 1]
      BY <1>2, <1>3, <3>2 DEF IsMap, MapOf
    <3> QED
      BY <2>1, <3>1, <3>3 DEF PageOf
  <2>2. CASE ~InUseAt(va)
    <3>1. m[va] = None
      BY <1>4, <2>2
    <3> QED
      BY <2>2, <3>1 DEF PageOf
  <2> QED
    BY <2>1, <2>2
<1>6. Mapped = MappedBy(m) /\ Tables = TableFrames(pt)
  BY <1>5 DEF Mapped, MappedBy, Tables, TableFrames
<1>7. \A va \in Virt :
        IF InUseAt(va)
        THEN Translate(pt, va) = IF va \in lost THEN None ELSE PageOf(va)
        ELSE Translate(pt, va) \in {None, Stale}
  BY <1>2, <1>4, <1>5 DEF Agrees, NoTable
<1>8. Cardinality(Mapped) = Cardinality({va \in Virt : InUseAt(va)})
  <2>1. Cardinality(MappedBy(m)) = Cardinality({va \in Virt : m[va] # None})
    BY <1>2, MappedCount DEF IsMap
  <2>2. {va \in Virt : m[va] # None} = {va \in Virt : InUseAt(va)}
    BY <1>4
  <2> QED
    BY <1>6, <2>1, <2>2
<1>9. /\ Mapped \cap Tables = {} /\ (Mapped \cup Tables) \cap (pt.free \cup high) = {}
      /\ Mapped \cup Tables \cup pt.free \cup high = High \cup Normal
  <2>1. /\ MappedBy(m) \cap Others(pt) = {} /\ MappedBy(m) \cap high = {} /\ Others(pt) \cap high = {}
        /\ MappedBy(m) \cup Others(pt) \cup high = High \cup Normal
    BY <1>2 DEF IsMap, FramesSplit
  <2>2. Others(pt) = TableFrames(pt) \cup pt.free /\ pt.free \cap TableFrames(pt) = {}
    BY <1>1 DEF Others, IsTable
  <2> QED
    BY <1>6, <2>1, <2>2
<1> QED
  BY <1>7, <1>8, <1>9 DEF MapExact

\* vmalloc and vmap: an address of an area in use translates to the page it was
\* given, or to nothing since another processor cleared entry 0 of the directory
\* over it, and no other address does but through an entry the directory had from
\* the start, however the tables of get_pte fall between the calls; a frame is a
\* table, one page of one area, or free.
THEOREM MapExactCorrect ==
    Spec => []MapExact
<1>1. VmallocInv => MapExact
  BY MapInvExact DEF VmallocInv
<1> QED
  BY <1>1, VmallocInvariant, PTL

=============================================================================
