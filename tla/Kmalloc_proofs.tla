--------------------------- MODULE Kmalloc_proofs ---------------------------
(* Proofs about kmalloc and kfree, for every order, unit and page size and    *)
(* every number of pages and of chunks.                                       *)
EXTENDS Kmalloc, FiniteSetTheorems, SequenceTheorems, WellFoundedInduction, TLAPS

----------------------------------------------------------------------------
(* Powers of two *)

Power == 0 .. MaxPower

LEMMA PowType == \A k \in Power : 2^k \in Nat \ {0}
BY PowerAssumption DEF Power

LEMMA Consts ==
    /\ MIN_SIZE \in Nat \ {0} /\ PAGE_SIZE \in Nat \ {0} /\ MIN_SIZE < PAGE_SIZE
    /\ MAX_ORDER \in Nat /\ KMEM_CACHE_MAX_ORDER \in Nat /\ NPages \in Nat /\ MaxLive \in Nat
    /\ MAX_ORDER \in Power /\ KMEM_CACHE_MAX_ORDER \in Power /\ Order \subseteq Power
    /\ Power \subseteq Nat
<1>1. /\ MIN_SIZE \in Nat \ {0} /\ PAGE_SIZE \in Nat \ {0} /\ MIN_SIZE < PAGE_SIZE
      /\ MAX_ORDER \in Nat /\ KMEM_CACHE_MAX_ORDER \in Nat /\ NPages \in Nat /\ MaxLive \in Nat
  BY SizeAssumption
<1>2. MAX_ORDER <= MaxPower /\ KMEM_CACHE_MAX_ORDER <= MaxPower
  BY SizeAssumption
<1>3. Power \subseteq Nat
  BY DEF Power
<1>4. MAX_ORDER \in Power /\ KMEM_CACHE_MAX_ORDER \in Power /\ Order \subseteq Power
  BY <1>1, <1>2 DEF Power, Order, MaxPower
<1> QED
  BY <1>1, <1>3, <1>4

LEMMA PowSplit ==
    ASSUME NEW j \in Power, NEW k \in Power, j <= k
    PROVE  k - j \in Power /\ 2^k = 2^(k - j) * 2^j
<1>1. k - j \in 0 .. MaxPower /\ j \in 0 .. MaxPower /\ (k - j) + j = k /\ k <= MaxPower
  BY DEF Power, MaxPower
<1>2. 2^((k - j) + j) = 2^(k - j) * 2^j
  BY <1>1, PowerAssumption
<1> QED
  BY <1>1, <1>2 DEF Power

LEMMA PowSucc ==
    ASSUME NEW k \in Power, k < MaxPower
    PROVE  k + 1 \in Power /\ 2^(k + 1) = 2 * 2^k
<1>1. k \in 0 .. MaxPower /\ 1 \in 0 .. MaxPower /\ k + 1 <= MaxPower /\ k + 1 \in Power
  BY DEF Power, MaxPower
<1>2. 2^(k + 1) = 2^k * 2^1
  BY <1>1, PowerAssumption
<1>3. 2^1 = 2 /\ 2^k \in Nat
  BY PowerAssumption, PowType
<1> QED
  BY <1>1, <1>2, <1>3

\* Larger exponents give larger powers.
LEMMA PowUp ==
    ASSUME NEW j \in Power, NEW k \in Power, j < k
    PROVE  2 * 2^j <= 2^k
<1>1. j < MaxPower /\ j + 1 \in Power /\ j + 1 <= k
  BY DEF Power, MaxPower
<1>2. 2^(j + 1) = 2 * 2^j
  BY <1>1, PowSucc
<1>3. k - (j + 1) \in Power /\ 2^k = 2^(k - (j + 1)) * 2^(j + 1)
  BY <1>1, PowSplit
<1>4. 2^(k - (j + 1)) \in Nat \ {0} /\ 2^(j + 1) \in Nat \ {0}
  BY <1>1, <1>3, PowType
<1> DEFINE a == 2^(k - (j + 1))
           b == 2^(j + 1)
<1>5. a \in Nat \ {0} /\ b \in Nat \ {0} /\ 2^k = a * b /\ b = 2 * 2^j
  BY <1>2, <1>3, <1>4
<1> HIDE DEF a, b
<1>6. 1 * b <= a * b
  BY <1>5
<1> QED
  BY <1>5, <1>6

LEMMA PowLess ==
    ASSUME NEW j \in Power, NEW k \in Power, 2^j < 2 * 2^k
    PROVE  j <= k
<1>1. 2^j \in Nat /\ 2^k \in Nat /\ j \in Nat /\ k \in Nat
  BY PowType DEF Power
<1>2. k < j => 2 * 2^k <= 2^j
  BY PowUp
<1> QED
  BY <1>1, <1>2

LEMMA PowInj ==
    ASSUME NEW j \in Power, NEW k \in Power, 2^j = 2^k
    PROVE  j = k
<1>1. 2^j \in Nat \ {0} /\ 2^k \in Nat \ {0} /\ j \in Nat /\ k \in Nat
  BY PowType DEF Power
<1>2. j <= k /\ k <= j
  <2>1. 2^j < 2 * 2^k /\ 2^k < 2 * 2^j
    BY <1>1
  <2> QED
    BY <2>1, PowLess
<1> QED
  BY <1>1, <1>2

LEMMA MulLess ==
    ASSUME NEW m \in Nat \ {0}, NEW a \in Int, NEW b \in Int, a * m < b * m
    PROVE  a < b /\ (a + 1) * m <= b * m
<1>1. a < b
  <2> SUFFICES ASSUME b <= a PROVE FALSE
    OBVIOUS
  <2>1. b * m <= a * m
    OBVIOUS
  <2> QED
    BY <2>1
<1>2. a + 1 <= b
  BY <1>1
<1>3. (a + 1) * m <= b * m
  BY <1>2
<1> QED
  BY <1>1, <1>3

LEMMA DivMul ==
    ASSUME NEW m \in Nat \ {0}, NEW c \in Nat
    PROVE  (c * m) \div m = c
<1> DEFINE q == (c * m) \div m
<1>1. q \in Int /\ q * m <= c * m /\ c * m < q * m + m
  OBVIOUS
<1> HIDE DEF q
<1>2. (q + 1) * m = q * m + m
  BY <1>1
<1>3. c < q + 1
  BY <1>1, <1>2, MulLess
<1>4. ~(c < q)
  <2> SUFFICES ASSUME c < q PROVE FALSE
    OBVIOUS
  <2>1. c + 1 <= q
    BY <1>1
  <2>2. (c + 1) * m <= q * m /\ (c + 1) * m = c * m + m
    BY <1>1, <2>1
  <2> QED
    BY <1>1, <2>2
<1>5. q = c
  BY <1>1, <1>3, <1>4
<1> QED
  BY <1>5 DEF q

LEMMA MulUp ==
    ASSUME NEW m \in Nat, NEW a \in Int, NEW b \in Int, a <= b
    PROVE  a * m <= b * m
OBVIOUS

----------------------------------------------------------------------------
(* fls and ilog2_roundup *)

\* Bit r of x is set or below the highest one, and less than m is above it.
Bit(x, r, m) == r \in Power /\ 2^r <= x /\ x < 2^r * m

LEMMA FlsStep ==
    ASSUME NEW x \in Nat, x < 2^MaxPower, NEW r, NEW w \in 0 .. 16,
           NEW mm \in Nat, mm <= 2^w * 2^w, Bit(x, r, mm)
    PROVE  Bit(x, fls_step(x, r, w), 2^w)
<1> DEFINE R == 2^r
           W == 2^w
           y == x \div R
<1>1. r \in Power /\ w \in Power /\ R \in Nat \ {0} /\ W \in Nat \ {0} /\ R <= x /\ x < R * mm
  <2>1. r \in Power /\ R <= x /\ x < R * mm
    BY DEF Bit
  <2>2. w \in Power
    BY DEF Power, MaxPower
  <2> QED
    BY <2>1, <2>2, PowType
<1>2. y \in Nat /\ R * y <= x /\ x < R * y + R
  BY <1>1
<1>3. r \in 0 .. MaxPower /\ w \in 0 .. MaxPower /\ MaxPower \in Power /\ MaxPower \in Nat
  BY <1>1 DEF Power, MaxPower
<1>4. CASE y \div W > 0
  <2>1. W <= y
    <3>1. SUFFICES ASSUME y < W PROVE FALSE
      BY <1>1, <1>2
    <3>2. y \div W = 0
      BY <3>1, <1>1, <1>2
    <3> QED
      BY <1>4, <3>2
  <2>2. R * W <= x
    <3>1. W * R <= y * R
      BY <2>1, <1>1, <1>2, MulUp
    <3> QED
      BY <3>1, <1>1, <1>2
  <2>3. r + w <= MaxPower
    <3>1. SUFFICES ASSUME MaxPower - r < w PROVE FALSE
      BY <1>3
    <3> DEFINE T == 2^(MaxPower - r)
    <3>2. MaxPower - r \in Power /\ 2^MaxPower = T * R
      BY <1>1, <1>3, PowSplit
    <3>3. 2 * T <= W /\ T \in Nat
      BY <3>1, <3>2, <1>1, PowUp, PowType
    <3> HIDE DEF T, R, W
    <3>4. T * R <= W * R
      <4>1. T <= W
        BY <3>3, <1>1
      <4> QED
        BY <4>1, <3>3, <1>1, MulUp
    <3> QED
      BY <1>1, <2>2, <3>2, <3>3, <3>4
  <2>4. r + w \in Power /\ 2^(r + w) = R * W
    <3>1. r + w \in Power
      BY <1>3, <2>3 DEF Power
    <3>2. 2^(r + w) = 2^r * 2^w
      BY <1>3, <2>3, PowerAssumption
    <3> QED
      BY <3>1, <3>2
  <2>5. x < (R * W) * W
    <3>1. mm * R <= (W * W) * R
      BY <1>1, MulUp
    <3> QED
      BY <3>1, <1>1
  <2> QED
    BY <1>4, <2>2, <2>4, <2>5 DEF fls_step, Bit
<1>5. CASE ~(y \div W > 0)
  <2>1. y < W
    <3>1. SUFFICES ASSUME W <= y PROVE FALSE
      BY <1>1, <1>2
    <3>2. y \div W >= 1
      BY <3>1, <1>1, <1>2
    <3>3. y \div W \in Int
      BY <1>1, <1>2
    <3> QED
      BY <1>5, <3>2, <3>3
  <2>2. (y + 1) * R <= W * R
    BY <2>1, <1>1, <1>2, MulUp
  <2>3. (y + 1) * R = R * y + R
    BY <1>1, <1>2
  <2>4. x < R * W
    BY <1>1, <1>2, <2>2, <2>3
  <2> QED
    BY <1>1, <1>5, <2>4 DEF fls_step, Bit
<1> QED
  BY <1>4, <1>5

LEMMA FlsShift ==
    ASSUME NEW x \in Nat \ {0}, x < 2^MaxPower
    PROVE  Bit(x, fls_shift(x), 2)
<1>1. /\ 2^16 \in Nat \ {0} /\ 2^8 \in Nat \ {0} /\ 2^4 \in Nat \ {0} /\ 2^2 \in Nat \ {0}
      /\ 2^0 = 1 /\ 2^1 = 2 /\ 2^MaxPower \in Nat
  BY PowType, PowerAssumption DEF Power, MaxPower
<1>2. /\ 2^16 = 2^8 * 2^8 /\ 2^8 = 2^4 * 2^4 /\ 2^4 = 2^2 * 2^2 /\ 2^2 = 2^1 * 2^1
      /\ 2^MaxPower <= 2^16 * 2^16
  <2>1. /\ 16 \in Power /\ 8 \in Power /\ 4 \in Power /\ 2 \in Power /\ 1 \in Power
        /\ 14 \in Power /\ 30 \in Power /\ MaxPower = 30
    BY DEF Power, MaxPower
  <2>2. 2^16 = 2^(16 - 8) * 2^8 /\ 2^8 = 2^(8 - 4) * 2^4
    BY <2>1, PowSplit
  <2>3. 2^4 = 2^(4 - 2) * 2^2 /\ 2^2 = 2^(2 - 1) * 2^1
    BY <2>1, PowSplit
  <2>4. 2^30 = 2^(30 - 16) * 2^16 /\ 2 * 2^14 <= 2^16 /\ 2^14 \in Nat
    BY <2>1, PowSplit, PowUp, PowType
  <2>5. 2^14 * 2^16 <= 2^16 * 2^16
    BY <2>4, <1>1, MulUp
  <2> QED
    BY <2>1, <2>2, <2>3, <2>4, <2>5
<1> DEFINE a == fls_step(x, 0, 16)
           b == fls_step(x, a, 8)
           c == fls_step(x, b, 4)
           d == fls_step(x, c, 2)
           e == fls_step(x, d, 1)
<1>3. Bit(x, 0, 2^MaxPower)
  BY <1>1 DEF Bit, Power, MaxPower
<1>4. Bit(x, a, 2^16)
  BY <1>1, <1>2, <1>3, FlsStep
<1>5. Bit(x, b, 2^8)
  <2> HIDE DEF a
  <2> QED
    BY <1>1, <1>2, <1>4, FlsStep
<1>6. Bit(x, c, 2^4)
  <2> HIDE DEF b
  <2> QED
    BY <1>1, <1>2, <1>5, FlsStep
<1>7. Bit(x, d, 2^2)
  <2> HIDE DEF c
  <2> QED
    BY <1>1, <1>2, <1>6, FlsStep
<1>8. Bit(x, e, 2^1)
  <2> HIDE DEF d
  <2> QED
    BY <1>1, <1>2, <1>7, FlsStep
<1>9. e = fls_shift(x)
  BY DEF fls_shift
<1> HIDE DEF e
<1> QED
  BY <1>1, <1>8, <1>9

\* ilog2_roundup(n): the least power of two that is not below n, up to 2^MaxPower.
LEMMA LogUp ==
    ASSUME NEW n \in 0 .. 2^MaxPower, NEW k, k = ilog2_roundup(n)
    PROVE  /\ k \in Power /\ n <= 2^k
           /\ k = 0 \/ 2^k <= 2 * (n - 1)
<1>1. 2^MaxPower \in Nat \ {0} /\ 2^0 = 1 /\ 0 \in Power /\ n \in Nat
  BY PowType, PowerAssumption DEF Power, MaxPower
<1>2. CASE n = 0 \/ n = 1
  BY <1>1, <1>2 DEF ilog2_roundup, fls
<1>3. CASE n > 1
  <2> DEFINE x == n - 1
             r == fls_shift(x)
  <2>1. x \in Nat \ {0} /\ x < 2^MaxPower /\ n # 0 /\ x # 0
    BY <1>1, <1>3
  <2>2. Bit(x, r, 2)
    BY <2>1, FlsShift
  <2>3. k = r + ((x \div 2^r) % 2)
    BY <2>1 DEF ilog2_roundup, fls
  <2> HIDE DEF x, r
  <2>4. r \in Power /\ 2^r \in Nat \ {0} /\ 2^r <= x /\ x < 2^r * 2
    BY <2>2, PowType DEF Bit
  <2>5. x \div 2^r = 1
    BY <2>1, <2>4
  <2>6. k = r + 1
    <3>1. 1 % 2 = 1 /\ r \in Nat
      BY <2>4 DEF Power
    <3> QED
      BY <2>3, <2>5, <3>1
  <2>7. r < MaxPower
    <3> SUFFICES ASSUME r = MaxPower PROVE FALSE
      BY <2>4 DEF Power, MaxPower
    <3> QED
      BY <2>1, <2>4
  <2>8. k \in Power /\ 2^k = 2 * 2^r
    BY <2>4, <2>6, <2>7, PowSucc
  <2> QED
    BY <2>1, <2>4, <2>8 DEF x
<1> QED
  BY <1>1, <1>2, <1>3

----------------------------------------------------------------------------
(* Blocks *)

Aligned(p, k) == \E c \in Nat : p = c * 2^k
Span(p, k) == p .. p + 2^k - 1

\* The blocks B of orders ord are aligned, do not overlap and cover blocks[].
Tiles(B, ord) ==
    /\ \A p \in B : ord[p] \in Order /\ Aligned(p, ord[p]) /\ Span(p, ord[p]) \subseteq Block
    /\ \A u \in Block : \E p \in B : u \in Span(p, ord[p])
    /\ \A p, q \in B : p # q => Span(p, ord[p]) \cap Span(q, ord[q]) = {}

LEMMA BlockNat == Block \subseteq Nat /\ Block = 0 .. 2^MAX_ORDER - 1 /\ 2^MAX_ORDER \in Nat \ {0}
<1>1. 2^MAX_ORDER \in Nat \ {0}
  BY Consts, PowType
<1> QED
  BY <1>1 DEF Block

LEMMA OrderPow ==
    ASSUME NEW k \in 0 .. MAX_ORDER - 1
    PROVE  /\ k \in Order /\ k + 1 \in Order /\ k \in Nat /\ k + 1 <= MAX_ORDER
           /\ 2^k \in Nat \ {0} /\ 2^(k + 1) = 2 * 2^k /\ 2^(k + 1) \in Nat \ {0}
<1>1. k \in Order /\ k + 1 \in Order /\ k \in Power /\ k + 1 \in Power /\ k < MaxPower
  BY Consts DEF Order, Power, MaxPower
<1>2. 2^k \in Nat \ {0} /\ 2^(k + 1) = 2 * 2^k /\ 2^(k + 1) \in Nat \ {0}
  BY <1>1, PowType, PowSucc
<1>3. k \in Nat /\ k + 1 <= MAX_ORDER
  BY Consts
<1> QED
  BY <1>1, <1>2, <1>3

LEMMA OrderType ==
    ASSUME NEW k \in Order
    PROVE  k \in Power /\ k \in Nat /\ k <= MAX_ORDER /\ 2^k \in Nat \ {0}
<1>1. k \in Power /\ 2^k \in Nat \ {0}
  BY Consts, PowType
<1>2. k \in Nat /\ k <= MAX_ORDER
  BY Consts DEF Order
<1> QED
  BY <1>1, <1>2

LEMMA PowMultiple ==
    ASSUME NEW j \in Order, NEW k \in Order, j <= k
    PROVE  \E f \in Nat : 2^k = f * 2^j
<1>1. j \in Power /\ k \in Power
  BY Consts
<1> QED
  BY <1>1, PowSplit, PowType

\* An even multiple of the block size m bounds a page below iff it bounds the
\* page's buddy: 2*m*c is no border inside a pair of buddies.
LEMMA PairBound ==
    ASSUME NEW m \in Nat \ {0}, NEW c \in Nat, NEW p \in Nat, p < c * (2 * m)
    PROVE  /\ (p \div m) % 2 = 0 => p + m < c * (2 * m)
           /\ (p \div m) % 2 # 0 => p - m \in Nat
<1> DEFINE q == p \div m
<1>1. q \in Nat /\ q * m <= p /\ p < q * m + m
  OBVIOUS
<1>2. CASE q % 2 = 0
  <2>1. PICK h \in Nat : q = 2 * h
    BY <1>1, <1>2
  <2>2. q * m = h * (2 * m)
    BY <2>1
  <2>3. h < c
    <3>1. SUFFICES ASSUME c <= h PROVE FALSE
      BY <2>1
    <3>2. c * (2 * m) <= h * (2 * m)
      BY <3>1, <2>1
    <3> QED
      BY <3>2, <2>2, <1>1, <2>1
  <2>4. (h + 1) * (2 * m) <= c * (2 * m)
    BY <2>3, <2>1
  <2>5. (h + 1) * (2 * m) = h * (2 * m) + 2 * m
    BY <2>1
  <2> QED
    BY <1>1, <1>2, <2>1, <2>2, <2>4, <2>5
<1>3. CASE q % 2 # 0
  <2>1. q >= 1
    BY <1>1, <1>3
  <2>2. q * m >= m
    BY <1>1, <2>1
  <2> QED
    BY <1>1, <1>3, <2>2
<1> QED
  BY <1>2, <1>3

\* The buddy never leaves blocks[], which has the size of the largest block.
LEMMA BuddyInBlock ==
    ASSUME NEW p \in Block, NEW k \in 0 .. MAX_ORDER - 1
    PROVE  Buddy(p, k) \in Block
<1> DEFINE m == 2^k
           N == 2^MAX_ORDER
<1>1. /\ k + 1 \in Order /\ MAX_ORDER \in Order /\ k + 1 <= MAX_ORDER
      /\ m \in Nat \ {0} /\ 2^(k + 1) = 2 * m
  BY Consts, OrderPow
<1>2. PICK c \in Nat : N = c * (2 * m)
  BY <1>1, PowMultiple
<1>3. p \in Nat /\ p < N /\ N \in Nat /\ Block = 0 .. N - 1
  BY BlockNat
<1>4. p < c * (2 * m)
  BY <1>2, <1>3
<1> HIDE DEF N
<1>5. /\ (p \div m) % 2 = 0 => p + m < N
      /\ (p \div m) % 2 # 0 => p - m \in Nat
  BY <1>1, <1>2, <1>3, <1>4, PairBound
<1> QED
  BY <1>1, <1>3, <1>5 DEF Buddy

\* The buddy of an aligned block is the other half of the block of twice its
\* size that contains it.
LEMMA BuddyHalf ==
    ASSUME NEW p \in Block, NEW k \in 0 .. MAX_ORDER - 1, Aligned(p, k),
           NEW b, b = Buddy(p, k), NEW lo, lo = IF b < p THEN b ELSE p
    PROVE  /\ b \in Block /\ lo \in Block /\ lo \in {p, b} /\ b # p
           /\ Aligned(b, k) /\ Aligned(lo, k + 1)
           /\ {p, b} = {lo, lo + 2^k}
<1> DEFINE m == 2^k
<1>1. /\ MAX_ORDER \in Nat /\ p \in Nat
      /\ k \in Order /\ k \in 0 .. MAX_ORDER + 1 /\ k + 1 \in 0 .. MAX_ORDER + 1
      /\ m \in Nat \ {0} /\ 2^(k + 1) = 2 * m
  BY Consts, OrderPow, BlockNat
<1>2. b \in Block
  BY BuddyInBlock
<1>3. PICK c \in Nat : p = c * m
  BY <1>1 DEF Aligned
<1>4. p \div m = c
  BY <1>1, <1>3, DivMul
<1>5. CASE c % 2 = 0
  <2>1. b = p + m
    BY <1>4, <1>5 DEF Buddy
  <2>2. PICK h \in Nat : c = 2 * h
    BY <1>5
  <2>3. lo = p /\ b # p
    BY <1>1, <2>1
  <2>4. p = h * (2 * m) /\ b = (c + 1) * m
    BY <1>1, <1>3, <2>1, <2>2
  <2>5. Aligned(lo, k + 1)
    BY <1>1, <2>3, <2>4 DEF Aligned
  <2>6. Aligned(b, k)
    <3>1. b \in Nat /\ c + 1 \in Nat
      BY <1>1, <2>1
    <3> QED
      BY <1>1, <2>4, <3>1 DEF Aligned
  <2> QED
    BY <1>2, <2>1, <2>3, <2>5, <2>6
<1>6. CASE c % 2 # 0
  <2>1. b = p - m
    BY <1>4, <1>6 DEF Buddy
  <2>2. PICK h \in Nat : c = 2 * h + 1
    BY <1>6
  <2>3. lo = b /\ b # p /\ lo + m = p
    BY <1>1, <2>1
  <2>4. b = h * (2 * m) /\ b = (c - 1) * m
    BY <1>1, <1>3, <2>1, <2>2
  <2>5. b \in Nat
    BY <1>2, <1>1 DEF Block
  <2>6. Aligned(lo, k + 1)
    BY <1>1, <2>3, <2>4, <2>5 DEF Aligned
  <2>7. Aligned(b, k)
    <3>1. c - 1 \in Nat
      BY <2>2
    <3> QED
      BY <1>1, <2>4, <2>5, <3>1 DEF Aligned
  <2> QED
    BY <1>2, <2>3, <2>6, <2>7
<1> QED
  BY <1>5, <1>6

\* An aligned block's parts: the two halves, of which the upper is the buddy of
\* the lower.
LEMMA Halves ==
    ASSUME NEW p \in Block, NEW k \in 0 .. MAX_ORDER - 1, Aligned(p, k + 1)
    PROVE  /\ Buddy(p, k) = p + 2^k /\ p + 2^k \in Block
           /\ Aligned(p, k) /\ Aligned(p + 2^k, k)
<1> DEFINE m == 2^k
<1>1. /\ MAX_ORDER \in Nat /\ p \in Nat
      /\ k \in Order /\ k \in 0 .. MAX_ORDER + 1 /\ k + 1 \in 0 .. MAX_ORDER + 1
      /\ m \in Nat \ {0} /\ 2^(k + 1) = 2 * m
  BY Consts, OrderPow, BlockNat
<1>2. PICK h \in Nat : p = h * (2 * m)
  <2>1. PICK h \in Nat : p = h * 2^(k + 1)
    BY <1>1 DEF Aligned
  <2> QED
    BY <1>1, <2>1
<1>3. p = (2 * h) * m /\ 2 * h \in Nat /\ (2 * h) % 2 = 0
  BY <1>1, <1>2
<1>4. p \div m = 2 * h
  BY <1>1, <1>3, DivMul
<1>5. Buddy(p, k) = p + m
  BY <1>3, <1>4 DEF Buddy
<1>6. p + m \in Block
  BY <1>5, BuddyInBlock
<1>7. Aligned(p, k)
  BY <1>1, <1>3 DEF Aligned
<1>8. Aligned(p + m, k)
  <2>1. p + m = (2 * h + 1) * m /\ 2 * h + 1 \in Nat /\ p + m \in Nat
    BY <1>1, <1>3
  <2> QED
    BY <1>1, <2>1 DEF Aligned
<1> QED
  BY <1>5, <1>6, <1>7, <1>8

LEMMA SpanHalves ==
    ASSUME NEW p \in Nat, NEW k \in 0 .. MAX_ORDER - 1
    PROVE  /\ Span(p, k + 1) = Span(p, k) \cup Span(p + 2^k, k)
           /\ Span(p, k) \cap Span(p + 2^k, k) = {}
           /\ p \in Span(p, k)
<1>1. 2^k \in Nat \ {0} /\ 2^(k + 1) = 2 * 2^k
  BY OrderPow
<1> QED
  BY <1>1 DEF Span

\* A block that contains the start of an aligned block at least as large starts
\* there.
LEMMA SmallBlock ==
    ASSUME NEW b \in Nat, NEW q \in Nat, NEW k \in Order, NEW j \in Order, j <= k,
           Aligned(b, k), Aligned(q, j), b \in Span(q, j)
    PROVE  b = q
<1>1. /\ MAX_ORDER \in Nat /\ k \in 0 .. MAX_ORDER + 1 /\ j \in 0 .. MAX_ORDER + 1
      /\ 2^k \in Nat \ {0} /\ 2^j \in Nat \ {0}
  BY Consts, OrderType
<1> DEFINE m == 2^j
<1>2. PICK c \in Nat : b = c * 2^k
  BY <1>1 DEF Aligned
<1>3. PICK f \in Nat : 2^k = f * m
  BY PowMultiple
<1>4. PICK d \in Nat : q = d * m
  BY <1>1 DEF Aligned
<1>5. b = (c * f) * m /\ c * f \in Nat
  BY <1>1, <1>2, <1>3
<1>6. d * m <= (c * f) * m /\ (c * f) * m < d * m + m
  BY <1>4, <1>5, <1>1 DEF Span
<1>7. (d + 1) * m = d * m + m
  BY <1>1
<1> DEFINE x == c * f
<1>8. x \in Nat /\ b = x * m /\ d * m <= x * m /\ x * m < (d + 1) * m
  BY <1>5, <1>6, <1>7
<1> HIDE DEF x, m
<1>a. m \in Nat \ {0}
  BY <1>1 DEF m
<1>9. x < d + 1
  BY <1>8, <1>a, MulLess
<1>10. ~(x < d)
  <2> SUFFICES ASSUME x < d PROVE FALSE
    OBVIOUS
  <2>1. x + 1 <= d
    BY <1>8
  <2>2. (x + 1) * m <= d * m /\ (x + 1) * m = x * m + m
    BY <1>8, <1>a, <2>1
  <2> QED
    BY <1>8, <1>a, <2>2
<1>11. x = d
  BY <1>8, <1>9, <1>10
<1> QED
  BY <1>4, <1>8, <1>11

\* A larger aligned block that contains one of two buddies contains both.
LEMMA LargeBlock ==
    ASSUME NEW lo \in Nat, NEW q \in Nat, NEW k \in 0 .. MAX_ORDER - 1, NEW j \in Order, k < j,
           Aligned(lo, k + 1), Aligned(q, j),
           lo \in Span(q, j) \/ lo + 2^k \in Span(q, j)
    PROVE  lo \in Span(q, j) /\ lo + 2^k \in Span(q, j)
<1> DEFINE m == 2 * 2^k
<1>1. /\ MAX_ORDER \in Nat /\ k + 1 \in 0 .. MAX_ORDER + 1 /\ j \in 0 .. MAX_ORDER + 1
      /\ k + 1 \in Order /\ k \in Order /\ k + 1 <= j
      /\ 2^k \in Nat \ {0} /\ 2^j \in Nat \ {0} /\ 2^(k + 1) = m /\ m \in Nat \ {0}
  BY Consts, OrderType, OrderPow
<1>2. PICK h \in Nat : lo = h * m
  <2>1. PICK h \in Nat : lo = h * 2^(k + 1)
    BY <1>1 DEF Aligned
  <2> QED
    BY <1>1, <2>1
<1>3. PICK f \in Nat : 2^j = f * m
  <2>1. PICK f \in Nat : 2^j = f * 2^(k + 1)
    BY <1>1, PowMultiple
  <2> QED
    BY <1>1, <2>1
<1>4. PICK d \in Nat : q = d * 2^j
  BY <1>1 DEF Aligned
<1> DEFINE e == d * f
<1>5. q = e * m /\ e \in Nat
  BY <1>1, <1>3, <1>4
<1>6. q + 2^j = (e + f) * m /\ e + f \in Nat
  BY <1>1, <1>3, <1>5
<1>7. lo + m = (h + 1) * m
  BY <1>1, <1>2
<1>8. e * m < (h + 1) * m /\ h * m < (e + f) * m
  <2>1. q < lo + m /\ lo < q + 2^j
    BY <1>1 DEF Span
  <2> QED
    BY <2>1, <1>1, <1>2, <1>5, <1>6, <1>7
<1> HIDE DEF m, e
<1>9. (e + 1) * m <= (h + 1) * m /\ (h + 1) * m <= (e + f) * m
  BY <1>1, <1>5, <1>6, <1>8, MulLess
<1>10. (e + 1) * m = e * m + m
  BY <1>1, <1>5
<1>11. q <= lo /\ lo + m <= q + 2^j
  BY <1>1, <1>2, <1>5, <1>6, <1>7, <1>9, <1>10
<1>12. m = 2 * 2^k
  BY DEF m
<1> QED
  BY <1>1, <1>11, <1>12 DEF Span

LEMMA SpanStart ==
    ASSUME NEW p \in Nat, NEW k \in Order PROVE p \in Span(p, k)
<1>1. 2^k \in Nat \ {0}
  BY OrderType
<1> QED
  BY <1>1 DEF Span

\* A unit that starts a block is in no other.
LEMMA TilesStart ==
    ASSUME NEW B \in SUBSET Nat, NEW ord, Tiles(B, ord), NEW p \in B, NEW q \in B,
           p \in Span(q, ord[q])
    PROVE  p = q
<1>1. ord[p] \in Order /\ p \in Nat
  BY DEF Tiles
<1>2. p \in Span(p, ord[p])
  BY <1>1, SpanStart
<1> QED
  BY <1>2 DEF Tiles

\* The buddy of a block of the tiling starts a block too.
LEMMA TilesBuddy ==
    ASSUME NEW B \in SUBSET Block, NEW ord, Tiles(B, ord),
           NEW p \in B, NEW k \in 0 .. MAX_ORDER - 1, ord[p] = k,
           NEW b, b = Buddy(p, k)
    PROVE  b \in B /\ b # p
<1>1. /\ MAX_ORDER \in Nat /\ k \in Order /\ p \in Block /\ p \in Nat
      /\ 2^k \in Nat \ {0} /\ B \subseteq Nat /\ Aligned(p, k) /\ Block \subseteq Nat
  BY Consts, OrderPow, BlockNat DEF Tiles
<1> DEFINE lo == IF b < p THEN b ELSE p
<1>2. /\ b \in Block /\ lo \in Block /\ b # p
      /\ Aligned(b, k) /\ Aligned(lo, k + 1) /\ {p, b} = {lo, lo + 2^k}
  BY <1>1, BuddyHalf
<1> HIDE DEF lo
<1>3. PICK q \in B : b \in Span(q, ord[q])
  BY <1>2 DEF Tiles
<1>4. q \in Nat /\ ord[q] \in Order /\ Aligned(q, ord[q])
  BY <1>1 DEF Tiles
<1>5. CASE ord[q] <= k
  <2>1. b = q
    BY <1>1, <1>2, <1>3, <1>4, <1>5, SmallBlock
  <2> QED
    BY <1>2, <2>1
<1>6. CASE k < ord[q]
  <2>1. lo \in Nat /\ b \in {lo, lo + 2^k} /\ p \in {lo, lo + 2^k}
    BY <1>1, <1>2
  <2>2. lo \in Span(q, ord[q]) /\ lo + 2^k \in Span(q, ord[q])
    <3>1. lo \in Span(q, ord[q]) \/ lo + 2^k \in Span(q, ord[q])
      BY <1>3, <2>1
    <3> QED
      BY <1>2, <1>4, <1>6, <2>1, <3>1, LargeBlock
  <2>3. p \in Span(q, ord[q])
    BY <2>1, <2>2
  <2>4. p = q
    BY <1>1, <2>3, TilesStart
  <2> QED
    BY <1>1, <1>6, <2>4
<1> QED
  BY <1>1, <1>4, <1>5, <1>6 DEF Order

LEMMA TilesMerge ==
    ASSUME NEW B \in SUBSET Block, NEW ord, Tiles(B, ord),
           NEW p \in B, NEW k \in 0 .. MAX_ORDER - 1, ord[p] = k,
           NEW b \in B, b = Buddy(p, k), ord[b] = k,
           NEW lo, lo = IF b < p THEN b ELSE p,
           NEW ord2, ord2[lo] = k + 1, \A q \in B : q # lo => ord2[q] = ord[q]
    PROVE  lo \in {p, b} /\ b # p /\ Tiles((B \ {p, b}) \cup {lo}, ord2)
<1>1. /\ MAX_ORDER \in Nat /\ k \in Order /\ k + 1 \in Order /\ p \in Block /\ p \in Nat
      /\ 2^k \in Nat \ {0} /\ B \subseteq Nat /\ Aligned(p, k) /\ Block \subseteq Nat
  BY Consts, OrderPow, BlockNat DEF Tiles
<1>2. /\ lo \in Block /\ b # p /\ lo \in {p, b}
      /\ Aligned(lo, k + 1) /\ {p, b} = {lo, lo + 2^k}
  BY <1>1, BuddyHalf
<1>3. Span(lo, k + 1) = Span(p, k) \cup Span(b, k)
  <2>1. Span(lo, k + 1) = Span(lo, k) \cup Span(lo + 2^k, k)
    BY <1>1, <1>2, SpanHalves
  <2>2. (p = lo /\ b = lo + 2^k) \/ (b = lo /\ p = lo + 2^k)
    BY <1>2
  <2> QED
    BY <2>1, <2>2
<1> DEFINE C == (B \ {p, b}) \cup {lo}
<1>4. \A q \in C : q = lo \/ (q \in B /\ q # p /\ q # b /\ ord2[q] = ord[q])
  BY <1>2
<1>5. \A q \in C : ord2[q] \in Order /\ Aligned(q, ord2[q]) /\ Span(q, ord2[q]) \subseteq Block
  <2> SUFFICES ASSUME NEW q \in C
               PROVE  ord2[q] \in Order /\ Aligned(q, ord2[q]) /\ Span(q, ord2[q]) \subseteq Block
    OBVIOUS
  <2>1. CASE q = lo
    <3>1. Span(p, k) \subseteq Block /\ Span(b, k) \subseteq Block
      BY DEF Tiles
    <3> QED
      BY <2>1, <3>1, <1>1, <1>2, <1>3
  <2>2. CASE q # lo
    BY <2>2, <1>4 DEF Tiles
  <2> QED
    BY <2>1, <2>2
<1>6. \A x \in Block : \E q \in C : x \in Span(q, ord2[q])
  <2> SUFFICES ASSUME NEW x \in Block PROVE \E q \in C : x \in Span(q, ord2[q])
    OBVIOUS
  <2>1. PICK q \in B : x \in Span(q, ord[q])
    BY DEF Tiles
  <2>2. CASE q \in {p, b}
    <3>1. x \in Span(lo, ord2[lo])
      BY <2>1, <2>2, <1>3
    <3> QED
      BY <3>1
  <2>3. CASE q \notin {p, b}
    <3>1. q \in C /\ ord2[q] = ord[q]
      BY <2>3, <1>2
    <3> QED
      BY <2>1, <3>1
  <2> QED
    BY <2>2, <2>3
<1>7. ASSUME NEW q \in C, NEW r \in C, q # r
      PROVE  Span(q, ord2[q]) \cap Span(r, ord2[r]) = {}
  <2>1. \A s \in B : s # p /\ s # b => Span(s, ord[s]) \cap Span(lo, k + 1) = {}
    <3> SUFFICES ASSUME NEW s \in B, s # p, s # b
                 PROVE  Span(s, ord[s]) \cap Span(lo, k + 1) = {}
      OBVIOUS
    <3>1. Span(s, ord[s]) \cap Span(p, k) = {} /\ Span(s, ord[s]) \cap Span(b, k) = {}
      BY DEF Tiles
    <3> QED
      BY <3>1, <1>3
  <2>2. CASE q = lo
    BY <2>1, <2>2, <1>4, <1>7
  <2>3. CASE r = lo
    BY <2>1, <2>3, <1>4, <1>7
  <2>4. CASE q # lo /\ r # lo
    BY <2>4, <1>4, <1>7 DEF Tiles
  <2> QED
    BY <2>2, <2>3, <2>4
<1>8. Tiles(C, ord2)
  BY <1>5, <1>6, <1>7 DEF Tiles
<1> QED
  BY <1>2, <1>8

----------------------------------------------------------------------------
(* What alloc_blocks does to a tiling *)

LEMMA NatMin ==
    ASSUME NEW S \in SUBSET Nat, S # {}
    PROVE  \E n \in S : \A m \in S : n <= m
<1>1. PICK x \in S : \A y \in S : ~(y < x)
  <2>1. PICK x \in S : \A y \in S : ~(<<y, x>> \in OpToRel(<, Nat))
    BY NatLessThanWellFounded, WFMin
  <2> QED
    BY <2>1 DEF OpToRel
<1> QED
  BY <1>1

LEMMA AlignedDown ==
    ASSUME NEW p \in Nat, NEW j \in Order, NEW k \in Order, j <= k, Aligned(p, k)
    PROVE  Aligned(p, j)
<1>1. PICK c \in Nat : p = c * 2^k
  BY DEF Aligned
<1>2. PICK f \in Nat : 2^k = f * 2^j
  BY PowMultiple
<1>3. c * f \in Nat /\ p = (c * f) * 2^j
  BY <1>1, <1>2, OrderType
<1> QED
  BY <1>3 DEF Aligned

\* A number below 2^i is below 2^o or between two powers from 2^o on.
LEMMA Between ==
    ASSUME NEW o \in Order, NEW i \in Order, o <= i, NEW d \in Nat, d < 2^i, 2^o <= d
    PROVE  \E j \in o .. i - 1 : 2^j <= d /\ d < 2 * 2^j
<1> DEFINE S == {j \in Nat : j \in o .. i /\ d < 2^j}
<1>1. o \in Nat /\ i \in Nat /\ i \in S /\ 2^o \in Nat /\ o \notin S
  BY OrderType
<1>2. PICK m \in S : \A k \in S : m <= k
  BY <1>1, NatMin
<1>3. m # o /\ m - 1 \in o .. i - 1 /\ m - 1 \in Nat /\ m - 1 \in o .. i
  BY <1>1, <1>2
<1>4. m - 1 \in Order /\ m - 1 \in 0 .. MAX_ORDER - 1 /\ m \in Order
  BY <1>1, <1>2, <1>3, OrderType, Consts DEF Order
<1>5. 2^(m - 1) \in Nat /\ 2^m = 2 * 2^(m - 1)
  <2>1. (m - 1) + 1 = m
    BY <1>2
  <2> QED
    BY <1>4, <2>1, OrderPow
<1>6. ~(d < 2^(m - 1))
  BY <1>2, <1>3
<1> QED
  BY <1>2, <1>3, <1>5, <1>6

\* The upper half that is cut off at order j
LEMMA UpperHalf ==
    ASSUME NEW b \in Block, NEW i \in Order, Aligned(b, i), NEW j \in 0 .. i - 1
    PROVE  /\ Buddy(b, j) = b + 2^j /\ b + 2^j \in Block /\ b + 2^j \in Nat
           /\ Aligned(b + 2^j, j) /\ j \in Order
           /\ Span(b + 2^j, j) \subseteq Span(b, i) /\ b + 2^j \in Span(b + 2^j, j)
           /\ 2^j \in Nat \ {0} /\ 2 * 2^j <= 2^i /\ 2^i \in Nat
<1>1. i \in Nat /\ i <= MAX_ORDER /\ MAX_ORDER \in Nat /\ b \in Nat /\ i \in Power
  BY OrderType, BlockNat, Consts
<1>2. j \in 0 .. MAX_ORDER - 1 /\ j + 1 <= i /\ j < i
  BY <1>1
<1>3. j + 1 \in Order /\ j \in Order /\ 2^j \in Nat \ {0} /\ j \in Power
  BY <1>2, OrderPow, OrderType
<1>4. Aligned(b, j + 1)
  BY <1>1, <1>2, <1>3, AlignedDown
<1>5. Buddy(b, j) = b + 2^j /\ b + 2^j \in Block /\ Aligned(b + 2^j, j)
  BY <1>2, <1>4, Halves
<1>6. 2 * 2^j <= 2^i /\ 2^i \in Nat
  BY <1>1, <1>2, <1>3, PowUp, OrderType
<1>7. Span(b + 2^j, j) \subseteq Span(b, i) /\ b + 2^j \in Span(b + 2^j, j) /\ b + 2^j \in Nat
  BY <1>1, <1>3, <1>6 DEF Span
<1> QED
  BY <1>3, <1>5, <1>6, <1>7

Uppers(b, o, i) == {Buddy(b, j) : j \in o .. i - 1}

\* What alloc_blocks makes of block->order
SplitOrder(ord, ord2, b, o, i) ==
    /\ ord2[b] = o
    /\ \A j \in o .. i - 1 : ord2[Buddy(b, j)] = j
    /\ \A q \in Block : q # b /\ q \notin Uppers(b, o, i) => ord2[q] = ord[q]

LEMMA UppersApart ==
    ASSUME NEW b \in Block, NEW i \in Order, NEW o \in Order, o <= i, Aligned(b, i)
    PROVE  /\ Uppers(b, o, i) \subseteq Block /\ b \notin Uppers(b, o, i)
           /\ \A j \in o .. i - 1 : Span(b, o) \cap Span(b + 2^j, j) = {}
           /\ \A j, k \in o .. i - 1 : j # k => Span(b + 2^j, j) \cap Span(b + 2^k, k) = {}
<1>1. o \in Nat /\ i \in Nat /\ b \in Nat /\ 2^o \in Nat \ {0} /\ 2^i \in Nat \ {0}
  BY OrderType, BlockNat
<1>2. \A j \in o .. i - 1 : /\ j \in 0 .. i - 1 /\ j \in Power /\ j \in Nat
                            /\ 2^j \in Nat \ {0} /\ Buddy(b, j) = b + 2^j /\ b + 2^j \in Block
  <2> SUFFICES ASSUME NEW j \in o .. i - 1
               PROVE  /\ j \in 0 .. i - 1 /\ j \in Power /\ j \in Nat
                      /\ 2^j \in Nat \ {0} /\ Buddy(b, j) = b + 2^j /\ b + 2^j \in Block
    OBVIOUS
  <2>1. j \in 0 .. i - 1 /\ j \in Nat
    BY <1>1
  <2> QED
    BY <2>1, UpperHalf, OrderType
<1>3. Uppers(b, o, i) \subseteq Block /\ b \notin Uppers(b, o, i)
  <2> SUFFICES ASSUME NEW q \in Uppers(b, o, i) PROVE q \in Block /\ q # b
    OBVIOUS
  <2>1. PICK j \in o .. i - 1 : q = Buddy(b, j)
    BY DEF Uppers
  <2>2. 2^j \in Nat \ {0} /\ q = b + 2^j /\ q \in Block
    BY <1>2, <2>1
  <2> QED
    BY <1>1, <2>2
<1>4. ASSUME NEW j \in o .. i - 1 PROVE Span(b, o) \cap Span(b + 2^j, j) = {}
  <2>1. 2^o <= 2^j
    <3>1. CASE o = j
      BY <3>1, <1>2
    <3>2. CASE o < j
      <4>1. o \in Power /\ j \in Power
        BY <1>2, OrderType
      <4>2. 2 * 2^o <= 2^j
        BY <3>2, <4>1, PowUp
      <4> QED
        BY <4>2, <1>1, <1>2
    <3> QED
      BY <3>1, <3>2, <1>1
  <2> QED
    BY <2>1, <1>1, <1>2 DEF Span
<1>5. ASSUME NEW j \in o .. i - 1, NEW k \in o .. i - 1, j < k
      PROVE  Span(b + 2^j, j) \cap Span(b + 2^k, k) = {}
  <2>1. 2 * 2^j <= 2^k /\ 2^j \in Nat \ {0} /\ 2^k \in Nat \ {0}
    BY <1>2, <1>5, PowUp
  <2> QED
    BY <2>1, <1>1 DEF Span
<1>6. \A j, k \in o .. i - 1 : j # k => Span(b + 2^j, j) \cap Span(b + 2^k, k) = {}
  <2> SUFFICES ASSUME NEW j \in o .. i - 1, NEW k \in o .. i - 1, j # k
               PROVE  Span(b + 2^j, j) \cap Span(b + 2^k, k) = {}
    OBVIOUS
  <2>1. j < k \/ k < j
    BY <1>1
  <2>2. CASE j < k
    BY <2>2, <1>5
  <2>3. CASE k < j
    <3>1. Span(b + 2^k, k) \cap Span(b + 2^j, j) = {}
      BY <2>3, <1>5
    <3> QED
      BY <3>1
  <2> QED
    BY <2>1, <2>2, <2>3
<1> QED
  BY <1>3, <1>4, <1>6

LEMMA TilesSplit ==
    ASSUME NEW B \in SUBSET Block, NEW ord, Tiles(B, ord), NEW b \in B,
           NEW i \in Order, ord[b] = i, NEW o \in Order, o <= i,
           NEW ord2, SplitOrder(ord, ord2, b, o, i)
    PROVE  /\ Uppers(b, o, i) \cap B = {} /\ Uppers(b, o, i) \subseteq Block
           /\ b \notin Uppers(b, o, i)
           /\ Tiles(B \cup Uppers(b, o, i), ord2)
<1> DEFINE U == Uppers(b, o, i)
           H == o .. i - 1
<1>1. /\ b \in Block /\ b \in Nat /\ Aligned(b, i) /\ Span(b, i) \subseteq Block /\ B \subseteq Nat
      /\ o \in Nat /\ i \in Nat /\ 2^o \in Nat \ {0} /\ 2^i \in Nat \ {0} /\ o \in Power /\ i \in Power
  BY BlockNat, OrderType DEF Tiles
<1>2. \A j \in H : j \in 0 .. i - 1
  BY <1>1
<1>3. \A j \in H : /\ Buddy(b, j) = b + 2^j /\ b + 2^j \in Block /\ b + 2^j \in Nat
                   /\ Aligned(b + 2^j, j) /\ j \in Order
                   /\ Span(b + 2^j, j) \subseteq Span(b, i) /\ b + 2^j \in Span(b + 2^j, j)
                   /\ 2^j \in Nat \ {0} /\ 2 * 2^j <= 2^i
  BY <1>1, <1>2, UpperHalf
<1>4. /\ U \subseteq Block /\ b \notin U
      /\ \A j \in H : Span(b, o) \cap Span(b + 2^j, j) = {}
      /\ \A j, k \in H : j # k => Span(b + 2^j, j) \cap Span(b + 2^k, k) = {}
  BY <1>1, UppersApart
<1>5. \A q \in U : \E j \in H : q = b + 2^j /\ ord2[q] = j
  BY <1>3 DEF Uppers, SplitOrder
<1>6. U \cap B = {}
  <2> SUFFICES ASSUME NEW q \in U, q \in B PROVE FALSE
    OBVIOUS
  <2>1. PICK j \in H : q = b + 2^j
    BY <1>5
  <2>2. q \in Span(b, ord[b])
    BY <1>3, <2>1
  <2>3. q = b
    BY <1>1, <2>2, TilesStart
  <2> QED
    BY <1>4, <2>3
<1>7. \A q \in B : q # b => ord2[q] = ord[q]
  BY <1>6 DEF SplitOrder
<1>8. Span(b, o) \subseteq Span(b, i) /\ Aligned(b, o) /\ ord2[b] = o
  <2>1. 2^o <= 2^i
    <3>1. CASE o = i
      BY <3>1, <1>1
    <3>2. CASE o < i
      <4>1. 2 * 2^o <= 2^i
        BY <3>2, <1>1, PowUp
      <4> QED
        BY <4>1, <1>1
    <3> QED
      BY <3>1, <3>2, <1>1
  <2>2. Span(b, o) \subseteq Span(b, i)
    BY <2>1, <1>1 DEF Span
  <2> QED
    BY <2>2, <1>1, AlignedDown DEF SplitOrder
<1>9. ASSUME NEW q \in B \cup U
      PROVE  \/ q = b
             \/ q \in B /\ q # b /\ ord2[q] = ord[q]
             \/ \E j \in H : q = b + 2^j /\ ord2[q] = j
  BY <1>5, <1>7
<1>10. ASSUME NEW q \in B \cup U
       PROVE  /\ ord2[q] \in Order /\ Aligned(q, ord2[q]) /\ Span(q, ord2[q]) \subseteq Block
              /\ (q \in B /\ q # b) \/ Span(q, ord2[q]) \subseteq Span(b, i)
  <2>1. CASE q = b
    BY <2>1, <1>1, <1>8
  <2>2. CASE q \in B /\ q # b /\ ord2[q] = ord[q]
    BY <2>2 DEF Tiles
  <2>3. CASE \E j \in H : q = b + 2^j /\ ord2[q] = j
    BY <2>3, <1>1, <1>3
  <2> QED
    BY <1>9, <2>1, <2>2, <2>3
<1>11. ASSUME NEW u \in Block PROVE \E q \in B \cup U : u \in Span(q, ord2[q])
  <2>1. PICK q \in B : u \in Span(q, ord[q])
    BY DEF Tiles
  <2>2. CASE q # b
    BY <2>1, <2>2, <1>7
  <2>3. CASE q = b
    <3>1. u \in Nat /\ b <= u /\ u < b + 2^i
      BY <2>1, <2>3, <1>1, BlockNat DEF Span
    <3>2. CASE u - b < 2^o
      <4>1. u \in Span(b, ord2[b])
        BY <3>1, <3>2, <1>1, <1>8 DEF Span
      <4> QED
        BY <4>1
    <3>3. CASE ~(u - b < 2^o)
      <4>1. u - b \in Nat /\ u - b < 2^i /\ 2^o <= u - b
        BY <3>1, <3>3, <1>1
      <4>2. PICK j \in H : 2^j <= u - b /\ u - b < 2 * 2^j
        BY <4>1, Between
      <4>3. u \in Span(b + 2^j, j)
        BY <4>2, <3>1, <1>1, <1>3 DEF Span
      <4>4. b + 2^j \in U /\ ord2[b + 2^j] = j
        BY <1>3 DEF Uppers, SplitOrder
      <4> QED
        BY <4>3, <4>4
    <3> QED
      BY <3>2, <3>3
  <2> QED
    BY <2>2, <2>3
<1>12. ASSUME NEW q \in B \cup U, NEW r \in B \cup U, q # r
       PROVE  Span(q, ord2[q]) \cap Span(r, ord2[r]) = {}
  <2> DEFINE Old(x) == x \in B /\ x # b /\ ord2[x] = ord[x]
             New(x) == \E j \in H : x = b + 2^j /\ ord2[x] = j
  <2>1. CASE Old(q) /\ Old(r)
    BY <2>1, <1>12 DEF Tiles
  <2>2. CASE Old(q) /\ ~Old(r)
    <3>1. Span(q, ord[q]) \cap Span(b, i) = {}
      BY <2>2 DEF Tiles
    <3>2. Span(r, ord2[r]) \subseteq Span(b, i)
      BY <2>2, <1>7, <1>10
    <3> QED
      BY <3>1, <3>2, <2>2
  <2>3. CASE ~Old(q) /\ Old(r)
    <3>1. Span(r, ord[r]) \cap Span(b, i) = {}
      BY <2>3 DEF Tiles
    <3>2. Span(q, ord2[q]) \subseteq Span(b, i)
      BY <2>3, <1>7, <1>10
    <3> QED
      BY <3>1, <3>2, <2>3
  <2>4. CASE ~Old(q) /\ ~Old(r)
    <3>1. (q = b \/ New(q)) /\ (r = b \/ New(r))
      BY <2>4, <1>9
    <3>2. CASE q = b /\ New(r)
      BY <3>2, <1>4, <1>8
    <3>3. CASE New(q) /\ r = b
      BY <3>3, <1>4, <1>8
    <3>4. CASE New(q) /\ New(r)
      <4>1. PICK j \in H : q = b + 2^j /\ ord2[q] = j
        BY <3>4
      <4>2. PICK k \in H : r = b + 2^k /\ ord2[r] = k
        BY <3>4
      <4>3. j # k
        BY <4>1, <4>2, <1>12
      <4> QED
        BY <4>1, <4>2, <4>3, <1>4
    <3> QED
      BY <3>1, <3>2, <3>3, <3>4, <1>12
  <2> QED
    BY <2>1, <2>2, <2>3, <2>4
<1> QED
  BY <1>4, <1>6, <1>10, <1>11, <1>12 DEF Tiles

----------------------------------------------------------------------------
(* Free lists *)

\* A list with every block at most once
Once(s) == \A i, j \in 1 .. Len(s) : s[i] = s[j] => i = j

LEMMA InToSet ==
    ASSUME NEW S, NEW s \in Seq(S), NEW x
    PROVE  x \in ToSet(s) <=> \E i \in 1 .. Len(s) : x = s[i]
BY DEF ToSet

LEMMA Pushed ==
    ASSUME NEW S, NEW s \in Seq(S), NEW b \in S, NEW t, t = <<b>> \o s
    PROVE  /\ t \in Seq(S) /\ ToSet(t) = {b} \cup ToSet(s)
           /\ Once(s) /\ b \notin ToSet(s) => Once(t)
<1>1. /\ t \in Seq(S) /\ Len(t) = Len(s) + 1 /\ t[1] = b /\ Len(s) \in Nat
      /\ \A i \in 1 .. Len(s) : t[i + 1] = s[i]
  <2>1. <<b>> \in Seq(S) /\ Len(<<b>>) = 1 /\ <<b>>[1] = b
    OBVIOUS
  <2> QED
    BY <2>1
<1>2. \A i \in 1 .. Len(t) : i = 1 \/ (i - 1 \in 1 .. Len(s) /\ t[i] = s[i - 1])
  <2> SUFFICES ASSUME NEW i \in 1 .. Len(t), i # 1
               PROVE  i - 1 \in 1 .. Len(s) /\ t[i] = s[i - 1]
    OBVIOUS
  <2>1. i - 1 \in 1 .. Len(s) /\ (i - 1) + 1 = i
    BY <1>1
  <2> QED
    BY <1>1, <2>1
<1>3. ASSUME NEW x PROVE x \in ToSet(t) <=> x \in {b} \cup ToSet(s)
  <2>1. ASSUME x \in ToSet(t) PROVE x \in {b} \cup ToSet(s)
    <3>0. t \in Seq(S)
      BY <1>1
    <3>1. PICK i \in 1 .. Len(t) : x = t[i]
      BY <3>0, <2>1, InToSet, Zenon
    <3> QED
      BY <3>1, <1>1, <1>2, InToSet
  <2>2. ASSUME x = b PROVE x \in ToSet(t)
    <3>1. 1 \in 1 .. Len(t)
      BY <1>1
    <3> QED
      BY <1>1, <2>2, <3>1, InToSet
  <2>3. ASSUME x \in ToSet(s) PROVE x \in ToSet(t)
    <3>1. PICK i \in 1 .. Len(s) : x = s[i]
      BY <2>3, InToSet
    <3>2. i + 1 \in 1 .. Len(t) /\ x = t[i + 1]
      BY <1>1, <3>1
    <3> QED
      BY <1>1, <3>2, InToSet
  <2> QED
    BY <2>1, <2>2, <2>3
<1>4. ASSUME Once(s), b \notin ToSet(s) PROVE Once(t)
  <2> SUFFICES ASSUME NEW i \in 1 .. Len(t), NEW j \in 1 .. Len(t), t[i] = t[j]
               PROVE  i = j
    BY DEF Once
  <2>0. \A k \in 1 .. Len(s) : s[k] # b
    BY <1>4, InToSet
  <2>1. CASE i = 1
    <3>1. j = 1
      BY <2>0, <2>1, <1>1, <1>2
    <3> QED
      BY <2>1, <3>1
  <2>2. CASE j = 1
    <3>1. i = 1
      BY <2>0, <2>2, <1>1, <1>2
    <3> QED
      BY <2>2, <3>1
  <2>3. CASE i # 1 /\ j # 1
    <3>1. i - 1 = j - 1
      BY <2>3, <1>2, <1>4 DEF Once
    <3> QED
      BY <3>1
  <2> QED
    BY <2>1, <2>2, <2>3
<1> QED
  BY <1>1, <1>3, <1>4

LEMMA Popped ==
    ASSUME NEW S, NEW s \in Seq(S), s # <<>>, NEW t, t = Tail(s)
    PROVE  /\ t \in Seq(S) /\ Head(s) \in ToSet(s) /\ Head(s) \in S
           /\ ToSet(t) \subseteq ToSet(s)
           /\ Once(s) => Once(t) /\ ToSet(t) = ToSet(s) \ {Head(s)}
<1>1. /\ t \in Seq(S) /\ Len(s) \in Nat \ {0} /\ Len(t) = Len(s) - 1 /\ Head(s) = s[1]
      /\ \A i \in 1 .. Len(t) : i + 1 \in 1 .. Len(s) /\ t[i] = s[i + 1]
  OBVIOUS
<1>2. 1 \in 1 .. Len(s)
  BY <1>1
<1>3. Head(s) \in ToSet(s) /\ Head(s) \in S
  BY <1>1, <1>2, InToSet
<1>4. ToSet(t) \subseteq ToSet(s)
  <2> SUFFICES ASSUME NEW x \in ToSet(t) PROVE x \in ToSet(s)
    OBVIOUS
  <2>1. PICK i \in 1 .. Len(t) : x = t[i]
    BY <1>1, InToSet, ZenonT(60)
  <2> QED
    BY <2>1, <1>1, InToSet
<1>5. ASSUME Once(s) PROVE Once(t) /\ ToSet(t) = ToSet(s) \ {Head(s)}
  <2>1. Once(t)
    <3> SUFFICES ASSUME NEW i \in 1 .. Len(t), NEW j \in 1 .. Len(t), t[i] = t[j]
                 PROVE  i = j
      BY DEF Once
    <3>1. i + 1 = j + 1
      BY <1>1, <1>5 DEF Once
    <3> QED
      BY <3>1
  <2>2. Head(s) \notin ToSet(t)
    <3> SUFFICES ASSUME Head(s) \in ToSet(t) PROVE FALSE
      OBVIOUS
    <3>0. PICK x : x = s[1]
      OBVIOUS
    <3>a. t \in Seq(S) /\ x \in ToSet(t)
      BY <1>1, <3>0
    <3>b. PICK i \in 1 .. Len(t) : x = t[i]
      BY <3>a, InToSet, Zenon
    <3>1. s[1] = t[i]
      BY <3>0, <3>b
    <3>2. i + 1 = 1
      BY <1>1, <1>2, <1>5, <3>1 DEF Once
    <3> QED
      BY <3>2
  <2>3. ASSUME NEW x \in ToSet(s), x # Head(s) PROVE x \in ToSet(t)
    <3>1. PICK i \in 1 .. Len(s) : x = s[i]
      BY <2>3, InToSet
    <3>2. i # 1 /\ i - 1 \in 1 .. Len(t) /\ (i - 1) + 1 = i
      BY <3>1, <2>3, <1>1
    <3>3. x = t[i - 1]
      BY <3>1, <3>2, <1>1
    <3> QED
      BY <3>2, <3>3, <1>1, InToSet
  <2> QED
    BY <2>1, <2>2, <2>3, <1>4
<1> QED
  BY <1>1, <1>3, <1>4, <1>5

LEMMA RemoveIs ==
    ASSUME NEW S, NEW s \in Seq(S), NEW b
    PROVE  \/ b \notin ToSet(s) /\ RemoveFirst(s, b) = s
           \/ \E i \in 1 .. Len(s) :
                s[i] = b /\ RemoveFirst(s, b) = SubSeq(s, 1, i - 1) \o SubSeq(s, i + 1, Len(s))
<1>1. CASE b \notin ToSet(s)
  <2>1. ~\E i \in 1 .. Len(s) : s[i] = b
    BY <1>1, InToSet
  <2> QED
    BY <1>1, <2>1 DEF RemoveFirst
<1>2. CASE b \in ToSet(s)
  <2> DEFINE I == {i \in 1 .. Len(s) : s[i] = b}
  <2>1. I # {} /\ I \in SUBSET Nat /\ \E i \in 1 .. Len(s) : s[i] = b
    BY <1>2, InToSet
  <2>2. \E m \in I : \A k \in I : m <= k
    BY <2>1, NatMin
  <2>3. SelectInSeq(s, LAMBDA v : v = b) = Min(I)
    BY <2>1 DEF SelectInSeq
  <2>4. Min(I) \in I
    <3> HIDE DEF I
    <3> QED
      BY <2>2 DEF Min
  <2>5. RemoveFirst(s, b) = RemoveAt(s, Min(I))
    BY <2>1, <2>3 DEF RemoveFirst
  <2>6. RemoveFirst(s, b) = SubSeq(s, 1, Min(I) - 1) \o SubSeq(s, Min(I) + 1, Len(s))
    BY <2>5 DEF RemoveAt
  <2> QED
    BY <2>4, <2>6
<1> QED
  BY <1>1, <1>2

LEMMA Removed ==
    ASSUME NEW S, NEW s \in Seq(S), NEW b, NEW t, t = RemoveFirst(s, b)
    PROVE  /\ t \in Seq(S) /\ ToSet(t) \subseteq ToSet(s)
           /\ Once(s) => Once(t) /\ ToSet(t) = ToSet(s) \ {b}
<1>1. CASE b \notin ToSet(s) /\ t = s
  BY <1>1
<1>2. CASE \E i \in 1 .. Len(s) :
                s[i] = b /\ t = SubSeq(s, 1, i - 1) \o SubSeq(s, i + 1, Len(s))
  <2>1. PICK n \in 1 .. Len(s) :
                s[n] = b /\ t = SubSeq(s, 1, n - 1) \o SubSeq(s, n + 1, Len(s))
    BY <1>2
  <2> DEFINE u == SubSeq(s, 1, n - 1)
             v == SubSeq(s, n + 1, Len(s))
             Back(i) == IF i < n THEN i ELSE i + 1
  <2>2. /\ u \in Seq(S) /\ v \in Seq(S) /\ Len(u) = n - 1 /\ Len(v) = Len(s) - n
        /\ Len(s) \in Nat
        /\ \A i \in 1 .. n - 1 : u[i] = s[i]
        /\ \A i \in 1 .. Len(s) - n : v[i] = s[i + n]
    OBVIOUS
  <2>3. /\ t \in Seq(S) /\ Len(t) = Len(s) - 1
        /\ \A i \in 1 .. Len(t) : Back(i) \in 1 .. Len(s) /\ t[i] = s[Back(i)] /\ Back(i) # n
    <3> HIDE DEF u, v
    <3>1. t = u \o v
      BY <2>1 DEF u, v
    <3>2. t \in Seq(S) /\ Len(t) = Len(s) - 1
      <4>1. u \in Seq(S) /\ v \in Seq(S)
        BY <2>2
      <4>2. u \o v \in Seq(S) /\ Len(u \o v) = Len(u) + Len(v)
        BY <4>1, ConcatProperties
      <4>3. Len(u) + Len(v) = Len(s) - 1
        BY <2>2
      <4> QED
        BY <3>1, <4>2, <4>3, Zenon
    <3>3. ASSUME NEW i \in 1 .. Len(t)
          PROVE  Back(i) \in 1 .. Len(s) /\ t[i] = s[Back(i)] /\ Back(i) # n
      <4>1. CASE i < n
        <5>1. i \in 1 .. n - 1 /\ i \in 1 .. Len(u)
          BY <4>1, <2>2
        <5>2. t[i] = u[i]
          BY <5>1, <3>1, <2>2
        <5> QED
          BY <4>1, <5>1, <5>2, <2>2
      <4>2. CASE ~(i < n)
        <5>1. i - (n - 1) \in 1 .. Len(v) /\ (i - (n - 1)) + n = i + 1 /\ i \in Len(u) + 1 .. Len(u) + Len(v)
          BY <4>2, <2>2, <3>2
        <5>2. t[i] = v[i - (n - 1)]
          <6>1. t[i] = v[i - Len(u)]
            BY <5>1, <3>1, <2>2, ConcatProperties
          <6> QED
            BY <6>1, <2>2
        <5>3. v[i - (n - 1)] = s[(i - (n - 1)) + n]
          BY <5>1, <2>2
        <5>4. Back(i) = i + 1 /\ i + 1 \in 1 .. Len(s) /\ i + 1 # n
          BY <4>2, <3>2, <2>2
        <5> QED
          BY <5>1, <5>2, <5>3, <5>4
      <4> QED
        BY <4>1, <4>2
    <3> QED
      BY <3>2, <3>3
  <2>4. ToSet(t) \subseteq ToSet(s)
    <3> SUFFICES ASSUME NEW x \in ToSet(t) PROVE x \in ToSet(s)
      OBVIOUS
    <3>1. PICK i \in 1 .. Len(t) : x = t[i]
      BY <2>3, InToSet
    <3>2. Back(i) \in 1 .. Len(s) /\ x = s[Back(i)]
      BY <3>1, <2>3
    <3> HIDE DEF Back
    <3> QED
      BY <3>2, InToSet
  <2>5. ASSUME Once(s) PROVE Once(t) /\ ToSet(t) = ToSet(s) \ {b}
    <3>1. Once(t)
      <4> SUFFICES ASSUME NEW i \in 1 .. Len(t), NEW j \in 1 .. Len(t), t[i] = t[j]
                   PROVE  i = j
        BY DEF Once
      <4>1. Back(i) = Back(j)
        <5>1. Back(i) \in 1 .. Len(s) /\ Back(j) \in 1 .. Len(s) /\ s[Back(i)] = s[Back(j)]
          BY <2>3
        <5> HIDE DEF Back
        <5> QED
          BY <5>1, <2>5 DEF Once
      <4> QED
        BY <4>1, <2>2, <2>3, SMTT(30)
    <3>2. b \notin ToSet(t)
      <4> SUFFICES ASSUME b \in ToSet(t) PROVE FALSE
        OBVIOUS
      <4>1. PICK i \in 1 .. Len(t) : b = t[i]
        BY <2>3, InToSet
      <4>2. Back(i) \in 1 .. Len(s) /\ s[n] = s[Back(i)] /\ Back(i) # n
        BY <2>1, <2>3, <4>1, SMTT(30)
      <4> HIDE DEF Back
      <4> QED
        BY <4>2, <2>5 DEF Once
    <3>3. ASSUME NEW x \in ToSet(s), x # b PROVE x \in ToSet(t)
      <4>1. PICK j \in 1 .. Len(s) : x = s[j]
        BY <3>3, InToSet
      <4> DEFINE i == IF j < n THEN j ELSE j - 1
      <4>2. j # n /\ i \in 1 .. Len(t) /\ Back(i) = j
        <5>1. j # n
          BY <4>1, <3>3, <2>1
        <5>2. Len(t) = Len(s) - 1 /\ Len(s) \in Nat
          BY <2>2, <2>3
        <5> QED
          BY <5>1, <5>2
      <4>3. x = t[i]
        BY <4>1, <4>2, <2>3
      <4> HIDE DEF i
      <4> QED
        BY <4>2, <4>3, <2>3, InToSet
    <3> QED
      BY <3>1, <3>2, <3>3, <2>4
  <2> QED
    BY <2>3, <2>4, <2>5
<1> QED
  BY <1>1, <1>2, RemoveIs

----------------------------------------------------------------------------
(* The inductive invariant *)

Unit(c) == c.at \div MIN_SIZE
Heads == Unowned \cup {Unit(c) : c \in Early}

\* TypeOK, with the reason why block->order never passes MAX_ORDER, merged blocks
\* of unequal orders or not: only the block free_blocks holds can be that large.
TypeInv ==
    /\ TypeOK
    /\ cur # -1 => \A b \in Block : b # cur => order[b] < MAX_ORDER

\* The chunks of callers are blocks that start where block->order says.
OwnedInv ==
    \A c \in Early :
        /\ Unit(c) \in Block /\ c.at = Unit(c) * MIN_SIZE
        /\ c.got = MIN_SIZE * 2^order[Unit(c)]
        /\ Unit(c) \notin free /\ Unit(c) \notin Unowned
        /\ \A d \in Early : Unit(c) = Unit(d) => c = d

ListsInv ==
    /\ \A k \in Order :
        Once(free_lists[k]) /\ \A b \in ToSet(free_lists[k]) : order[b] = k /\ b \in free
    /\ cur \notin Listed

\* No two listed blocks are the halves of one block.
NoBuddies ==
    \A p, q \in Listed :
        order[p] = order[q] /\ order[p] < MAX_ORDER /\ Aligned(p, order[p] + 1)
            => q # p + 2^order[p]

HeapInv ==
    /\ Tiles(Heads, order) /\ OwnedInv /\ ListsInv /\ NoBuddies
    /\ \A b \in Block : b # 0 => order[b] < MAX_ORDER

\* c is an object of the slab page p, or n pages from page p on
SlabChunk(c, p) ==
    /\ slab[p] # -1 /\ c.got = MIN_SIZE * 2^slab[p]
    /\ \E i \in Nat : c.at = PageAt(p) + i * c.got
    /\ c.at + c.got <= PageAt(p + 1)
PageChunk(c, p, n) ==
    /\ p + n <= NPages /\ c.at = PageAt(p) /\ c.got = n * PAGE_SIZE
    /\ \A q \in p .. p + n - 1 : slab[q] = -1

Apart(c, d) == c.at + c.got <= d.at \/ d.at + d.got <= c.at

\* The chunks from the slab caches and from alloc_pages, and how they lie
LateInv ==
    /\ \A c \in live : c.at >= MAX_SIZE =>
        \E p \in Pages : SlabChunk(c, p) \/ \E n \in 1 .. NPages : PageChunk(c, p, n)
    /\ \A c, d \in live : c # d /\ c.at >= MAX_SIZE /\ d.at >= MAX_SIZE => Apart(c, d)

\* short tells whether a chunk was given that is smaller than asked for.
ShortInv == ~short => \A c \in live : c.size <= c.got

KmallocInv == TypeInv /\ ChunksTight /\ ShortInv /\ LateInv /\ (~mixed => HeapInv)

LEMMA InListed == \A x : x \in Listed <=> \E k \in Order : x \in ToSet(free_lists[k])
BY DEF Listed

LEMMA ListType ==
    ASSUME free_lists \in [Order -> Seq(Block)]
    PROVE  /\ \A k \in Order : free_lists[k] \in Seq(Block) /\ ToSet(free_lists[k]) \subseteq Block
           /\ Listed \subseteq Block
<1>1. \A k \in Order : free_lists[k] \in Seq(Block)
  OBVIOUS
<1>2. ASSUME NEW k \in Order, NEW x \in ToSet(free_lists[k]) PROVE x \in Block
  <2> DEFINE s == free_lists[k]
  <2>1. s \in Seq(Block)
    BY <1>1
  <2> HIDE DEF s
  <2>2. x \in ToSet(s)
    BY <1>2 DEF s
  <2>3. PICK i \in 1 .. Len(s) : x = s[i]
    BY <2>1, <2>2, InToSet
  <2> QED
    BY <2>1, <2>3
<1> QED
  BY <1>1, <1>2, InListed

LEMMA HeadsType ==
    ASSUME TypeOK, OwnedInv
    PROVE  /\ Heads \subseteq Block /\ Listed \subseteq Block /\ -1 \notin Block /\ -1 \notin Listed
           /\ Listed \subseteq Unowned /\ Unowned \subseteq Heads
           /\ cur # -1 => cur \in Unowned
<1>1. Listed \subseteq Block
  BY ListType DEF TypeOK
<1>2. -1 \notin Block /\ cur \in Block \cup {-1}
  BY BlockNat DEF TypeOK
<1> QED
  BY <1>1, <1>2 DEF Heads, Unowned, OwnedInv

LEMMA UnitMul ==
    ASSUME NEW b \in Nat PROVE (b * MIN_SIZE) \div MIN_SIZE = b
BY DivMul, Consts

LEMMA MaxSize == /\ MAX_SIZE \in Nat \ {0} /\ MAX_SIZE = 2^MAX_ORDER * MIN_SIZE
                 /\ \A b \in Block : b * MIN_SIZE \in Nat /\ b * MIN_SIZE < MAX_SIZE
<1> DEFINE N == 2^MAX_ORDER
<1>1. N \in Nat \ {0} /\ MIN_SIZE \in Nat \ {0} /\ MAX_SIZE = MIN_SIZE * N
  BY BlockNat, Consts DEF MAX_SIZE
<1>2. ASSUME NEW b \in Block PROVE b * MIN_SIZE \in Nat /\ b * MIN_SIZE < MAX_SIZE
  <2>1. b \in Nat /\ b + 1 <= N
    BY BlockNat
  <2> HIDE DEF N
  <2>2. (b + 1) * MIN_SIZE <= N * MIN_SIZE
    BY <2>1, <1>1, MulUp
  <2>3. (b + 1) * MIN_SIZE = b * MIN_SIZE + MIN_SIZE
    BY <2>1, <1>1
  <2> QED
    BY <2>1, <2>2, <2>3, <1>1
<1> HIDE DEF N
<1>3. MIN_SIZE * N \in Nat \ {0} /\ MIN_SIZE * N = N * MIN_SIZE
  BY <1>1
<1>4. MAX_SIZE = N * MIN_SIZE
  BY <1>1, <1>3
<1> QED
  BY <1>1, <1>2, <1>3, <1>4 DEF N

\* An upper half is not where a block of twice its size can start.
LEMMA OddHalf ==
    ASSUME NEW b \in Block, NEW k \in 0 .. MAX_ORDER - 1, Aligned(b, k + 1)
    PROVE  ~Aligned(b + 2^k, k + 1)
<1> DEFINE m == 2^k
<1>1. m \in Nat \ {0} /\ 2^(k + 1) = 2 * m /\ b \in Nat
  BY OrderPow, BlockNat
<1>2. PICK h \in Nat : b = h * (2 * m)
  <2>1. PICK h \in Nat : b = h * 2^(k + 1)
    BY DEF Aligned
  <2> QED
    BY <1>1, <2>1
<1> SUFFICES ASSUME Aligned(b + m, k + 1) PROVE FALSE
  OBVIOUS
<1>3. PICK g \in Nat : b + m = g * (2 * m)
  <2>1. PICK g \in Nat : b + m = g * 2^(k + 1)
    BY DEF Aligned
  <2> QED
    BY <1>1, <2>1
<1> HIDE DEF m
<1>4. (2 * h + 1) * m = (2 * g) * m
  <2>1. (2 * h) * m = h * (2 * m) /\ (2 * g) * m = g * (2 * m) /\ (2 * h + 1) * m = (2 * h) * m + m
    BY <1>1
  <2> QED
    BY <1>1, <1>2, <1>3, <2>1
<1>5. 2 * h + 1 = 2 * g
  <2>1. ((2 * h + 1) * m) \div m = 2 * h + 1 /\ ((2 * g) * m) \div m = 2 * g
    <3>1. 2 * h + 1 \in Nat /\ 2 * g \in Nat
      OBVIOUS
    <3> QED
      BY <1>1, <3>1, DivMul
  <2> QED
    BY <1>4, <2>1
<1> QED
  BY <1>5

\* The buddy of an upper half is the lower one.
LEMMA HalfBuddy ==
    ASSUME NEW x \in Block, NEW k \in 0 .. MAX_ORDER - 1, Aligned(x, k + 1)
    PROVE  Buddy(x + 2^k, k) = x
<1> DEFINE m == 2^k
<1>1. m \in Nat \ {0} /\ 2^(k + 1) = 2 * m /\ x \in Nat
  BY OrderPow, BlockNat
<1>2. PICK h \in Nat : x = h * (2 * m)
  <2>1. PICK h \in Nat : x = h * 2^(k + 1)
    BY DEF Aligned
  <2> QED
    BY <1>1, <2>1
<1>3. x + m = (2 * h + 1) * m /\ 2 * h + 1 \in Nat
  <2> HIDE DEF m
  <2>1. (2 * h) * m = h * (2 * m) /\ (2 * h + 1) * m = (2 * h) * m + m
    BY <1>1
  <2> QED
    BY <1>1, <1>2, <2>1
<1>4. (x + m) \div m = 2 * h + 1
  BY <1>1, <1>3, DivMul
<1>5. (2 * h + 1) % 2 = 1
  OBVIOUS
<1>6. ~(((x + m) \div m) % 2 = 0)
  BY <1>4, <1>5
<1>7. Buddy(x + m, k) = (x + m) - m
  BY <1>6 DEF Buddy
<1> QED
  BY <1>1, <1>7

----------------------------------------------------------------------------
(* alloc_blocks *)

\* What alloc_blocks does, in terms of Uppers
LEMMA AllocIs ==
    ASSUME TypeOK, NEW o \in Order, NEW i \in Order, alloc_blocks(o, i),
           NEW b, b = Head(free_lists[i])
    PROVE  /\ o <= i /\ b \in Block /\ b \in ToSet(free_lists[i])
           /\ free_lists[i] # <<>> /\ \A j \in o .. i - 1 : free_lists[j] = <<>>
           /\ Uppers(b, o, i) \subseteq Block
           /\ free' = (free \cup Uppers(b, o, i)) \ {b}
           /\ \A k \in Order :
                free_lists'[k] = IF k = i THEN Tail(free_lists[k])
                                 ELSE IF k \in o .. i - 1 THEN <<Buddy(b, k)>> \o free_lists[k]
                                 ELSE free_lists[k]
           /\ free_lists' \in [Order -> Seq(Block)] /\ order' \in [Block -> Order]
           /\ free' \subseteq Block
<1>1. free_lists \in [Order -> Seq(Block)] /\ order \in [Block -> Order] /\ free \subseteq Block
  BY DEF TypeOK
<1>2. /\ i >= o /\ free_lists[i] # <<>> /\ \A j \in o .. i - 1 : free_lists[j] = <<>>
      /\ free' = (free \cup Uppers(b, o, i)) \ {b}
      /\ free_lists' = [k \in Order |->
            IF k = i THEN Tail(free_lists[k])
            ELSE IF k \in o .. i - 1 THEN <<Buddy(b, k)>> \o free_lists[k]
            ELSE free_lists[k]]
      /\ order' = [c \in Block |->
            IF c = b THEN o
            ELSE IF c \in Uppers(b, o, i) THEN CHOOSE j \in o .. i - 1 : c = Buddy(b, j)
            ELSE order[c]]
  BY DEF alloc_blocks, Uppers
<1>3. o \in Nat /\ i \in Nat /\ i <= MAX_ORDER /\ MAX_ORDER \in Nat
  BY OrderType, Consts
<1>4. b \in Block /\ b \in ToSet(free_lists[i]) /\ Tail(free_lists[i]) \in Seq(Block)
  <2> DEFINE s == free_lists[i]
  <2>1. s \in Seq(Block) /\ s # <<>>
    BY <1>1, <1>2
  <2> HIDE DEF s
  <2>2. Head(s) \in ToSet(s) /\ Head(s) \in Block /\ Tail(s) \in Seq(Block)
    BY <2>1, Popped
  <2> QED
    BY <2>2 DEF s
<1>5. \A j \in o .. i - 1 : j \in 0 .. MAX_ORDER - 1 /\ j \in Order /\ Buddy(b, j) \in Block
  <2> SUFFICES ASSUME NEW j \in o .. i - 1
               PROVE  j \in 0 .. MAX_ORDER - 1 /\ j \in Order /\ Buddy(b, j) \in Block
    OBVIOUS
  <2>1. j \in 0 .. MAX_ORDER - 1
    BY <1>3
  <2> QED
    BY <2>1, <1>4, BuddyInBlock, OrderPow
<1>6. Uppers(b, o, i) \subseteq Block
  BY <1>5 DEF Uppers
<1>7. ASSUME NEW k \in Order PROVE free_lists'[k] \in Seq(Block)
  <2>1. CASE k = i
    BY <2>1, <1>2, <1>4
  <2>2. CASE k # i /\ k \in o .. i - 1
    <3> DEFINE s == free_lists[k]
               t == <<Buddy(b, k)>> \o s
    <3>1. s \in Seq(Block) /\ Buddy(b, k) \in Block
      BY <1>1, <1>5, <2>2
    <3>2. t \in Seq(Block)
      <4> HIDE DEF s
      <4> QED
        BY <3>1, Pushed
    <3>3. free_lists'[k] = t
      BY <2>2, <1>2
    <3> QED
      BY <3>2, <3>3, Zenon
  <2>3. CASE k # i /\ k \notin o .. i - 1
    BY <2>3, <1>1, <1>2
  <2> QED
    BY <2>1, <2>2, <2>3
<1>8. free_lists' \in [Order -> Seq(Block)]
  BY <1>2, <1>7
<1>9. ASSUME NEW c \in Block PROVE order'[c] \in Order
  <2>1. CASE c = b
    BY <2>1, <1>2
  <2>2. CASE c # b /\ c \in Uppers(b, o, i)
    <3>1. \E j \in o .. i - 1 : c = Buddy(b, j)
      BY <2>2 DEF Uppers
    <3>2. order'[c] = CHOOSE j \in o .. i - 1 : c = Buddy(b, j)
      BY <2>2, <1>2
    <3>3. order'[c] \in o .. i - 1
      BY <3>1, <3>2
    <3> QED
      BY <3>3, <1>5
  <2>3. CASE c # b /\ c \notin Uppers(b, o, i)
    BY <2>3, <1>1, <1>2
  <2> QED
    BY <2>1, <2>2, <2>3
<1>10. order' \in [Block -> Order]
  BY <1>2, <1>9
<1>11. o <= i /\ free' \subseteq Block
  BY <1>1, <1>2, <1>3, <1>6
<1>12. \A k \in Order :
                free_lists'[k] = IF k = i THEN Tail(free_lists[k])
                                 ELSE IF k \in o .. i - 1 THEN <<Buddy(b, k)>> \o free_lists[k]
                                 ELSE free_lists[k]
  BY <1>2, Zenon
<1> QED
  BY <1>2, <1>4, <1>6, <1>8, <1>10, <1>11, <1>12, Zenon

LEMMA AllocOrder ==
    ASSUME TypeOK, NEW o \in Order, NEW i \in Order, alloc_blocks(o, i),
           NEW b, b = Head(free_lists[i]), Aligned(b, i)
    PROVE  SplitOrder(order, order', b, o, i)
<1>1. /\ o <= i /\ b \in Block
  BY AllocIs
<1>2. order' = [c \in Block |->
            IF c = b THEN o
            ELSE IF c \in Uppers(b, o, i) THEN CHOOSE j \in o .. i - 1 : c = Buddy(b, j)
            ELSE order[c]]
  BY DEF alloc_blocks, Uppers
<1>3. Uppers(b, o, i) \subseteq Block /\ b \notin Uppers(b, o, i)
  BY <1>1, UppersApart
<1>4. \A j \in o .. i - 1 : Buddy(b, j) = b + 2^j /\ j \in Power /\ 2^j \in Nat
  <2> SUFFICES ASSUME NEW j \in o .. i - 1 PROVE Buddy(b, j) = b + 2^j /\ j \in Power /\ 2^j \in Nat
    OBVIOUS
  <2>1. j \in 0 .. i - 1
    BY OrderType
  <2> QED
    BY <1>1, <2>1, UpperHalf, OrderType
<1>5. ASSUME NEW j \in o .. i - 1 PROVE order'[Buddy(b, j)] = j
  <2> DEFINE c == Buddy(b, j)
             G(k) == c = Buddy(b, k)
  <2>1. c \in Uppers(b, o, i)
    BY DEF Uppers
  <2>2. order'[c] = CHOOSE k \in o .. i - 1 : G(k)
    BY <1>2, <1>3, <2>1
  <2>3. \A k \in o .. i - 1 : G(k) => k = j
    <3> SUFFICES ASSUME NEW k \in o .. i - 1, Buddy(b, j) = Buddy(b, k) PROVE k = j
      OBVIOUS
    <3>1. b \in Nat
      BY <1>1, BlockNat
    <3>2. 2^j = 2^k
      BY <1>4, <3>1
    <3> QED
      BY <1>4, <3>2, PowInj
  <2>4. G(j)
    OBVIOUS
  <2> HIDE DEF G, c
  <2>5. (CHOOSE k \in o .. i - 1 : G(k)) = j
    BY <2>3, <2>4
  <2> QED
    BY <2>2, <2>5 DEF c
<1>6. order'[b] = o
  BY <1>1, <1>2
<1>7. \A q \in Block : q # b /\ q \notin Uppers(b, o, i) => order'[q] = order[q]
  BY <1>2
<1> QED
  BY <1>5, <1>6, <1>7 DEF SplitOrder

\* The lists after alloc_blocks
LEMMA AllocLists ==
    ASSUME TypeOK, ListsInv, NEW o \in Order, NEW i \in Order, alloc_blocks(o, i),
           NEW b, b = Head(free_lists[i])
    PROVE  /\ ToSet(free_lists'[i]) = ToSet(free_lists[i]) \ {b}
           /\ \A k \in o .. i - 1 : ToSet(free_lists'[k]) = {Buddy(b, k)}
           /\ \A k \in Order : k # i /\ k \notin o .. i - 1 => free_lists'[k] = free_lists[k]
           /\ \A k \in Order : Once(free_lists'[k])
           /\ Listed' = (Listed \ {b}) \cup Uppers(b, o, i)
<1>1. /\ o <= i /\ b \in Block /\ b \in ToSet(free_lists[i]) /\ free_lists[i] # <<>>
      /\ \A j \in o .. i - 1 : free_lists[j] = <<>>
      /\ Uppers(b, o, i) \subseteq Block
  BY AllocIs
<1>2. \A k \in Order :
                free_lists'[k] = IF k = i THEN Tail(free_lists[k])
                                 ELSE IF k \in o .. i - 1 THEN <<Buddy(b, k)>> \o free_lists[k]
                                 ELSE free_lists[k]
  BY AllocIs
<1>3. \A k \in Order : free_lists[k] \in Seq(Block) /\ Once(free_lists[k])
  BY ListType DEF TypeOK, ListsInv
<1>4. /\ ToSet(free_lists'[i]) = ToSet(free_lists[i]) \ {b} /\ Once(free_lists'[i])
  <2> DEFINE s == free_lists[i]
  <2>1. s \in Seq(Block) /\ s # <<>> /\ Once(s)
    BY <1>1, <1>3
  <2>2. free_lists'[i] = Tail(s)
    BY <1>2
  <2>3. b = Head(s)
    OBVIOUS
  <2> HIDE DEF s
  <2>4. Once(Tail(s)) /\ ToSet(Tail(s)) = ToSet(s) \ {Head(s)}
    BY <2>1, Popped
  <2>5. s = free_lists[i]
    BY DEF s
  <2> QED
    BY <2>2, <2>3, <2>4, <2>5
<1>5. ASSUME NEW k \in o .. i - 1
      PROVE  k \in Order /\ k # i /\ Buddy(b, k) \in Block
             /\ ToSet(free_lists'[k]) = {Buddy(b, k)} /\ Once(free_lists'[k])
  <2>1. k \in Order /\ k # i /\ Buddy(b, k) \in Block
    <3>1. k \in Order /\ k # i
      BY OrderType, Consts DEF Order
    <3> QED
      BY <3>1, <1>1 DEF Uppers
  <2> DEFINE s == free_lists[k]
             x == Buddy(b, k)
             t == <<x>> \o s
  <2>2. s \in Seq(Block) /\ x \in Block /\ s = <<>>
    BY <1>1, <1>3, <2>1
  <2>3. free_lists'[k] = t
    BY <1>2, <2>1
  <2>4. Once(s) /\ ToSet(s) = {}
    BY <2>2 DEF Once, ToSet
  <2> HIDE DEF s, x
  <2>a. x \notin ToSet(s) /\ s \in Seq(Block) /\ x \in Block
    BY <2>2, <2>4
  <2>b. t = <<x>> \o s
    BY DEF t
  <2> HIDE DEF t
  <2>5. Once(t) /\ ToSet(t) = {x} \cup ToSet(s)
    BY <2>a, <2>b, <2>4, Pushed, ZenonT(60)
  <2>6. ToSet(t) = {x}
    BY <2>4, <2>5, Zenon
  <2>7. x = Buddy(b, k)
    BY DEF x
  <2> QED
    BY <2>1, <2>3, <2>5, <2>6, <2>7
<1>6. \A k \in Order : k # i /\ k \notin o .. i - 1 => free_lists'[k] = free_lists[k]
  BY <1>2, Zenon
<1>7. \A k \in Order : Once(free_lists'[k])
  <2> SUFFICES ASSUME NEW k \in Order PROVE Once(free_lists'[k])
    OBVIOUS
  <2>1. CASE k = i
    BY <2>1, <1>4
  <2>2. CASE k \in o .. i - 1
    BY <2>2, <1>5
  <2>3. CASE k # i /\ k \notin o .. i - 1
    BY <2>3, <1>3, <1>6
  <2> QED
    BY <2>1, <2>2, <2>3
<1>8. \A k \in Order : b \in ToSet(free_lists[k]) => k = i
  <2>1. \A k \in Order : \A x \in ToSet(free_lists[k]) : order[x] = k
    BY DEF ListsInv
  <2>2. order[b] = i
    BY <1>1, <2>1
  <2> QED
    BY <2>1, <2>2
<1>9. ASSUME NEW x PROVE x \in Listed' <=> x \in (Listed \ {b}) \cup Uppers(b, o, i)
  <2>1. x \in Listed' <=> \E k \in Order : x \in ToSet(free_lists'[k])
    BY DEF Listed
  <2>2. ASSUME NEW k \in Order, x \in ToSet(free_lists'[k])
        PROVE  x \in (Listed \ {b}) \cup Uppers(b, o, i)
    <3>1. CASE k = i
      BY <3>1, <2>2, <1>4, InListed
    <3>2. CASE k \in o .. i - 1
      BY <3>2, <2>2, <1>5 DEF Uppers
    <3>3. CASE k # i /\ k \notin o .. i - 1
      <4>1. x \in ToSet(free_lists[k]) /\ x # b
        BY <3>3, <2>2, <1>6, <1>8
      <4> QED
        BY <4>1, InListed
    <3> QED
      BY <3>1, <3>2, <3>3
  <2>3. ASSUME x \in Uppers(b, o, i) PROVE x \in Listed'
    <3>1. PICK k \in o .. i - 1 : x = Buddy(b, k)
      BY <2>3 DEF Uppers
    <3>2. x \in ToSet(free_lists'[k]) /\ k \in Order
      BY <3>1, <1>5
    <3> QED
      BY <3>2, <2>1
  <2>4. ASSUME x \in Listed, x # b PROVE x \in Listed'
    <3>1. PICK k \in Order : x \in ToSet(free_lists[k])
      BY <2>4, InListed
    <3>2. CASE k = i
      BY <3>1, <3>2, <2>1, <2>4, <1>4
    <3>3. CASE k \in o .. i - 1
      <4>1. free_lists[k] = <<>>
        BY <3>3, <1>1
      <4> QED
        BY <3>1, <4>1 DEF ToSet
    <3>4. CASE k # i /\ k \notin o .. i - 1
      BY <3>1, <3>4, <2>1, <1>6
    <3> QED
      BY <3>2, <3>3, <3>4
  <2> QED
    BY <2>1, <2>2, <2>3, <2>4
<1>10. Listed' = (Listed \ {b}) \cup Uppers(b, o, i)
  BY <1>9
<1> QED
  BY <1>4, <1>5, <1>6, <1>7, <1>10

\* A caller gets the block b from alloc_blocks.
LEMMA AllocHeap ==
    ASSUME TypeOK, HeapInv, cur = -1, cur' = cur, NEW o \in Order, NEW i \in Order,
           alloc_blocks(o, i), NEW b, b = Head(free_lists[i]),
           NEW c0, live' = live \cup {c0}, c0.at = b * MIN_SIZE, c0.got = MIN_SIZE * 2^o
    PROVE  HeapInv'
<1> DEFINE U == Uppers(b, o, i)
<1>1. /\ Tiles(Heads, order) /\ OwnedInv /\ ListsInv /\ NoBuddies
      /\ \A x \in Block : x # 0 => order[x] < MAX_ORDER
  BY DEF HeapInv
<1>2. /\ o <= i /\ b \in Block /\ b \in ToSet(free_lists[i]) /\ U \subseteq Block
      /\ free' = (free \cup U) \ {b} /\ order' \in [Block -> Order]
  BY AllocIs
<1>3. Heads \subseteq Block /\ Listed \subseteq Heads /\ b \in Listed /\ b \in Heads /\ order[b] = i
  <2>1. Heads \subseteq Block /\ Listed \subseteq Heads
    BY <1>1, HeadsType
  <2>2. b \in Listed
    BY <1>2, InListed
  <2>3. \A x \in ToSet(free_lists[i]) : order[x] = i
    BY <1>1 DEF ListsInv
  <2> QED
    BY <2>1, <2>2, <2>3, <1>2
<1>4. Aligned(b, i)
  BY <1>1, <1>3 DEF Tiles
<1>5. SplitOrder(order, order', b, o, i)
  BY <1>4, AllocOrder
<1>6. U \cap Heads = {} /\ b \notin U /\ Tiles(Heads \cup U, order')
  BY <1>1, <1>2, <1>3, <1>5, TilesSplit
<1>7. /\ ToSet(free_lists'[i]) = ToSet(free_lists[i]) \ {b}
      /\ \A k \in o .. i - 1 : ToSet(free_lists'[k]) = {Buddy(b, k)}
      /\ \A k \in Order : k # i /\ k \notin o .. i - 1 => free_lists'[k] = free_lists[k]
      /\ \A k \in Order : Once(free_lists'[k])
      /\ Listed' = (Listed \ {b}) \cup U
  BY <1>1, AllocLists
<1>8. /\ order'[b] = o
      /\ \A j \in o .. i - 1 : order'[Buddy(b, j)] = j /\ Buddy(b, j) \in U
      /\ \A q \in Block : q # b /\ q \notin U => order'[q] = order[q]
  BY <1>5 DEF SplitOrder, Uppers
<1>9. Unit(c0) = b /\ c0.at < MAX_SIZE /\ c0.at \in Nat /\ c0.at = b * MIN_SIZE
  <2>1. b \in Nat
    BY <1>2, BlockNat
  <2> QED
    BY <1>2, <2>1, UnitMul, MaxSize DEF Unit
<1>10. Early' = Early \cup {c0}
  BY <1>9 DEF Early, MAX_SIZE
<1>11. Unowned = Listed /\ Unowned' = Listed'
  BY DEF Unowned
<1>12. /\ \A c \in Early : /\ Unit(c) \in Heads /\ Unit(c) \notin free /\ Unit(c) \notin Listed
                           /\ Unit(c) # b /\ Unit(c) \notin U /\ Unit(c) \in Block
  BY <1>1, <1>3, <1>6, <1>11 DEF OwnedInv, Heads
<1>13. Heads' = Heads \cup U
  <2>1. Heads' = Unowned' \cup {Unit(c) : c \in Early'}
    BY DEF Heads, Unit
  <2>2. {Unit(c) : c \in Early'} = {Unit(c) : c \in Early} \cup {b}
    BY <1>9, <1>10
  <2>3. Heads = Listed \cup {Unit(c) : c \in Early}
    BY <1>11 DEF Heads
  <2> HIDE DEF U
  <2> QED
    BY <2>1, <2>2, <2>3, <1>3, <1>7, <1>11
<1>14. Tiles(Heads', order')
  BY <1>6, <1>13
<1>15. OwnedInv'
  <2> SUFFICES ASSUME NEW c \in Early'
               PROVE  /\ Unit(c) \in Block /\ c.at = Unit(c) * MIN_SIZE
                      /\ c.got = MIN_SIZE * 2^order'[Unit(c)]
                      /\ Unit(c) \notin free' /\ Unit(c) \notin Unowned'
                      /\ \A d \in Early' : Unit(c) = Unit(d) => c = d
    BY DEF OwnedInv, Unit, Block
  <2>1. CASE c \in Early /\ c # c0
    <3>1. /\ Unit(c) \in Block /\ c.at = Unit(c) * MIN_SIZE /\ c.got = MIN_SIZE * 2^order[Unit(c)]
          /\ \A d \in Early : Unit(c) = Unit(d) => c = d
      BY <2>1, <1>1 DEF OwnedInv
    <3>2. order'[Unit(c)] = order[Unit(c)]
      BY <2>1, <1>8, <1>12
    <3>3. Unit(c) \notin free' /\ Unit(c) \notin Unowned'
      BY <2>1, <1>2, <1>7, <1>11, <1>12
    <3>4. \A d \in Early' : Unit(c) = Unit(d) => c = d
      BY <2>1, <3>1, <1>9, <1>10, <1>12
    <3> QED
      BY <3>1, <3>2, <3>3, <3>4
  <2>2. CASE c = c0
    <3>1. Unit(c) \in Block /\ c.at = Unit(c) * MIN_SIZE /\ c.got = MIN_SIZE * 2^order'[Unit(c)]
      BY <2>2, <1>2, <1>8, <1>9
    <3>2. Unit(c) \notin free' /\ Unit(c) \notin Unowned'
      BY <2>2, <1>2, <1>6, <1>7, <1>9, <1>11
    <3>3. \A d \in Early' : Unit(c) = Unit(d) => c = d
      BY <2>2, <1>9, <1>10, <1>12
    <3> QED
      BY <3>1, <3>2, <3>3
  <2> QED
    BY <2>1, <2>2, <1>10
<1>16. ASSUME NEW x \in Listed' PROVE
             \/ x \in Listed /\ x # b /\ x \notin U /\ order'[x] = order[x] /\ x \in Block
             \/ \E j \in o .. i - 1 : x = Buddy(b, j) /\ order'[x] = j
  <2>1. CASE x \in U
    BY <2>1, <1>8 DEF Uppers
  <2>2. CASE x \notin U
    BY <2>2, <1>3, <1>7, <1>8
  <2> QED
    BY <2>1, <2>2
<1>17. ListsInv'
  <2>1. \A k \in Order : \A x \in ToSet(free_lists[k]) : order[x] = k /\ x \in free /\ x \in Heads
    BY <1>1, <1>3, InListed DEF ListsInv
  <2>2. ASSUME NEW k \in Order, NEW x \in ToSet(free_lists'[k]) PROVE order'[x] = k /\ x \in free'
    <3>1. CASE k = i \/ (k # i /\ k \notin o .. i - 1)
      <4>1. x \in ToSet(free_lists[k]) /\ x # b
        <5>1. CASE k = i
          BY <5>1, <2>2, <1>7
        <5>2. CASE k # i /\ k \notin o .. i - 1
          BY <5>2, <2>1, <2>2, <1>3, <1>7
        <5> QED
          BY <3>1, <5>1, <5>2
      <4>2. x \in Block /\ x \notin U /\ order[x] = k /\ x \in free
        BY <4>1, <2>1, <1>3, <1>6
      <4> QED
        BY <4>1, <4>2, <1>2, <1>8
    <3>2. CASE k \in o .. i - 1
      <4>1. x = Buddy(b, k)
        BY <3>2, <2>2, <1>7
      <4>2. x \in U /\ order'[x] = k
        BY <3>2, <4>1, <1>8
      <4> QED
        BY <4>2, <1>2, <1>6
    <3> QED
      BY <3>1, <3>2
  <2>3. cur' \notin Listed'
    <3>1. -1 \notin Block
      BY BlockNat
    <3> QED
      BY <3>1, <1>2, <1>3, <1>7
  <2> QED
    BY <2>2, <2>3, <1>7 DEF ListsInv, Order, Once
<1>18. NoBuddies'
  <2> SUFFICES ASSUME NEW p \in Listed', NEW q \in Listed',
                      order'[p] = order'[q], order'[p] < MAX_ORDER, Aligned(p, order'[p] + 1),
                      q = p + 2^order'[p]
               PROVE  FALSE
    BY DEF NoBuddies, Aligned
  <2>1. CASE p \in Listed /\ q \in Listed /\ order'[p] = order[p] /\ order'[q] = order[q]
    BY <2>1, <1>1 DEF NoBuddies
  <2>0. i \in Nat /\ o \in Nat /\ i <= MAX_ORDER /\ MAX_ORDER \in Nat /\ b \in Nat
    BY OrderType, Consts, <1>2, BlockNat
  <2>2. CASE \E j \in o .. i - 1 : p = Buddy(b, j) /\ order'[p] = j
    <3>1. PICK j \in o .. i - 1 : p = Buddy(b, j) /\ order'[p] = j
      BY <2>2
    <3>2. j \in 0 .. i - 1 /\ j \in 0 .. MAX_ORDER - 1 /\ j + 1 <= i
      BY <2>0
    <3>3. p = b + 2^j
      BY <3>1, <3>2, <1>2, <1>4, UpperHalf
    <3>4. Aligned(b, j + 1)
      BY <3>2, <2>0, <1>4, AlignedDown, OrderPow
    <3> QED
      BY <3>1, <3>2, <3>3, <3>4, <1>2, OddHalf
  <2>3. CASE \E j \in o .. i - 1 : q = Buddy(b, j) /\ order'[q] = j
    <3>1. PICK j \in o .. i - 1 : q = Buddy(b, j) /\ order'[q] = j
      BY <2>3
    <3>2. j \in 0 .. i - 1
      BY <2>0
    <3>3. q = b + 2^j /\ 2^j \in Nat /\ q = p + 2^j
      BY <3>1, <3>2, <1>2, <1>4, UpperHalf
    <3>4. p \in Nat
      BY <1>2, <1>3, <1>7, BlockNat
    <3>5. p = b
      BY <3>3, <3>4, <2>0
    <3> QED
      BY <3>5, <1>6, <1>7
  <2> QED
    BY <2>1, <2>2, <2>3, <1>16
<1>19. \A x \in Block : x # 0 => order'[x] < MAX_ORDER
  <2> SUFFICES ASSUME NEW x \in Block, x # 0 PROVE order'[x] < MAX_ORDER
    OBVIOUS
  <2>0. i \in Nat /\ o \in Nat /\ i <= MAX_ORDER /\ MAX_ORDER \in Nat
    BY OrderType, Consts
  <2>1. CASE x = b
    <3>1. i < MAX_ORDER
      BY <2>1, <1>1, <1>3
    <3> QED
      BY <3>1, <2>0, <2>1, <1>2, <1>8
  <2>2. CASE x \in U
    <3>1. PICK j \in o .. i - 1 : x = Buddy(b, j)
      BY <2>2 DEF Uppers
    <3>2. order'[x] = j
      BY <3>1, <1>8
    <3> QED
      BY <3>2, <2>0
  <2>3. CASE x # b /\ x \notin U
    BY <2>3, <1>1, <1>8
  <2> QED
    BY <2>1, <2>2, <2>3
<1> QED
  BY <1>14, <1>15, <1>17, <1>18, <1>19 DEF HeapInv, Block

----------------------------------------------------------------------------
(* How large the chunks are *)

Tight(c) ==
    /\ c.got + (IF c.at < MAX_SIZE THEN MIN_SIZE - 1 ELSE 0) >= c.size
    /\ c.got \in {MIN_SIZE, PAGE_SIZE} \/ c.got < 2 * c.size
    /\ c.got = PAGE_SIZE => 2 * c.size > PAGE_SIZE \/ c.size > KMEM_CACHE_MAX_SIZE

LEMMA TightIs == ChunksTight <=> \A c \in live : Tight(c)
BY DEF ChunksTight, Tight, Early

LEMMA TightStep ==
    ASSUME ChunksTight, NEW c0, live' \subseteq live \cup {c0}, c0 \in live' => Tight(c0)
    PROVE  ChunksTight'
<1>1. \A c \in live' : Tight(c)
  BY TightIs
<1> QED
  BY <1>1 DEF ChunksTight, Tight, Early, MAX_SIZE, KMEM_CACHE_MAX_SIZE

LEMMA SizeType == \A size \in Sizes : size \in 0 .. 2^MaxPower /\ size \in Nat
<1>1. 2^MaxPower \in Nat
  BY PowType DEF Power, MaxPower
<1>2. \A size \in Sizes : size \in 0 .. 2^MaxPower
  BY SizeAssumption
<1> QED
  BY <1>1, <1>2

\* kmalloc_early rounds the units down and then up to a power of two.
LEMMA EarlySize ==
    ASSUME NEW size \in Sizes, NEW o, o = ilog2_roundup(size \div MIN_SIZE)
    PROVE  /\ o \in Power /\ MIN_SIZE * 2^o \in Nat
           /\ MIN_SIZE * 2^o + (MIN_SIZE - 1) >= size
           /\ (o = 0 /\ MIN_SIZE * 2^o = MIN_SIZE) \/ MIN_SIZE * 2^o < 2 * size
<1> DEFINE n == size \div MIN_SIZE
<1>1. size \in Nat /\ size <= 2^MaxPower /\ 2^MaxPower \in Nat /\ MIN_SIZE \in Nat \ {0}
  BY SizeType, Consts, PowType DEF Power, MaxPower
<1>2. n \in Nat /\ n * MIN_SIZE <= size /\ size < n * MIN_SIZE + MIN_SIZE
  BY <1>1
<1>3. o = ilog2_roundup(n)
  OBVIOUS
<1> HIDE DEF n
<1>4. n <= size
  <2>1. n * 1 <= n * MIN_SIZE
    BY <1>1, <1>2
  <2> QED
    BY <2>1, <1>1, <1>2
<1>5. n \in 0 .. 2^MaxPower
  BY <1>1, <1>2, <1>4
<1>6. o \in Power /\ n <= 2^o /\ (o = 0 \/ 2^o <= 2 * (n - 1))
  BY <1>3, <1>5, LogUp
<1> DEFINE P == 2^o
<1>7. P \in Nat \ {0} /\ n <= P /\ ((o = 0 /\ P = 1) \/ P <= 2 * (n - 1))
  BY <1>6, PowType, PowerAssumption
<1> HIDE DEF P
<1>8. n * MIN_SIZE <= P * MIN_SIZE /\ P * MIN_SIZE = MIN_SIZE * P /\ MIN_SIZE * P \in Nat
  BY <1>1, <1>2, <1>7, MulUp
<1>9. MIN_SIZE * P + (MIN_SIZE - 1) >= size
  BY <1>1, <1>2, <1>8
<1>10. CASE o = 0 /\ P = 1
  BY <1>1, <1>6, <1>8, <1>9, <1>10 DEF P
<1>11. CASE P <= 2 * (n - 1)
  <2>1. P * MIN_SIZE <= (2 * (n - 1)) * MIN_SIZE
    BY <1>1, <1>2, <1>7, <1>11, MulUp
  <2>2. (2 * (n - 1)) * MIN_SIZE = 2 * (n * MIN_SIZE) - 2 * MIN_SIZE /\ n * MIN_SIZE \in Nat
    BY <1>1, <1>2
  <2>3. MIN_SIZE * P < 2 * size
    BY <2>1, <2>2, <1>1, <1>2, <1>8
  <2> QED
    BY <2>3, <1>6, <1>8, <1>9 DEF P
<1> QED
  BY <1>7, <1>10, <1>11

\* The slab caches and alloc_pages: units of u bytes, rounded up.
LEMMA LateSize ==
    ASSUME NEW size \in Sizes, NEW u \in Nat \ {0}, NEW o, o = ilog2_roundup(Up(size, u))
    PROVE  /\ o \in Power /\ u * 2^o \in Nat /\ u * 2^o >= size
           /\ (o = 0 /\ u * 2^o = u) \/ u * 2^o < 2 * size
<1> DEFINE n == Up(size, u)
<1>1. size \in Nat /\ size <= 2^MaxPower /\ 2^MaxPower \in Nat
  BY SizeType, PowType DEF Power, MaxPower
<1>2. n \in Nat /\ n * u <= size + u - 1 /\ size + u - 1 < n * u + u
  BY <1>1 DEF Up
<1>3. o = ilog2_roundup(n)
  OBVIOUS
<1> HIDE DEF n
<1>4. n <= size
  <2>1. (n - 1) * u = n * u - u /\ n * u \in Nat
    BY <1>1, <1>2
  <2>2. CASE n = 0
    BY <2>2, <1>1
  <2>3. CASE n > 0
    <3>1. (n - 1) * 1 <= (n - 1) * u
      BY <2>3, <1>2
    <3> QED
      BY <3>1, <2>1, <1>1, <1>2
  <2> QED
    BY <2>2, <2>3, <1>2
<1>5. n \in 0 .. 2^MaxPower
  BY <1>1, <1>2, <1>4
<1>6. o \in Power /\ n <= 2^o /\ (o = 0 \/ 2^o <= 2 * (n - 1))
  BY <1>3, <1>5, LogUp
<1> DEFINE P == 2^o
<1>7. P \in Nat \ {0} /\ n <= P /\ ((o = 0 /\ P = 1) \/ P <= 2 * (n - 1))
  BY <1>6, PowType, PowerAssumption
<1> HIDE DEF P
<1>8. n * u <= P * u /\ P * u = u * P /\ u * P \in Nat
  BY <1>1, <1>2, <1>7, MulUp
<1>9. u * P >= size
  BY <1>1, <1>2, <1>8
<1>10. CASE o = 0 /\ P = 1
  BY <1>1, <1>6, <1>8, <1>9, <1>10 DEF P
<1>11. CASE P <= 2 * (n - 1)
  <2>1. P * u <= (2 * (n - 1)) * u
    BY <1>1, <1>2, <1>7, <1>11, MulUp
  <2>2. (2 * (n - 1)) * u = 2 * (n * u) - 2 * u /\ n * u \in Nat
    BY <1>1, <1>2
  <2>3. u * P < 2 * size
    BY <2>1, <2>2, <1>1, <1>2, <1>8
  <2> QED
    BY <2>3, <1>6, <1>8, <1>9 DEF P
<1> QED
  BY <1>7, <1>10, <1>11

\* A cache of the right size exists.
LEMMA SlabOrder ==
    ASSUME NEW size \in Sizes, size <= KMEM_CACHE_MAX_SIZE,
           NEW o, o = ilog2_roundup(Up(size, MIN_SIZE))
    PROVE  o <= KMEM_CACHE_MAX_ORDER /\ o \in Nat
<1> DEFINE K == 2^KMEM_CACHE_MAX_ORDER
           P == 2^o
<1>1. /\ MIN_SIZE \in Nat \ {0} /\ size \in Nat /\ K \in Nat \ {0} /\ size <= MIN_SIZE * K
      /\ KMEM_CACHE_MAX_ORDER \in Power /\ KMEM_CACHE_MAX_ORDER \in Nat
  BY Consts, SizeType, PowType DEF KMEM_CACHE_MAX_SIZE
<1>2. /\ o \in Power /\ o \in Nat /\ P \in Nat \ {0}
      /\ o = 0 \/ MIN_SIZE * P < 2 * size
  <2>1. o \in Power /\ (o = 0 \/ MIN_SIZE * P < 2 * size)
    BY <1>1, LateSize
  <2> QED
    BY <2>1, PowType, Consts
<1>3. CASE o = 0
  BY <1>1, <1>3
<1>4. CASE MIN_SIZE * P < 2 * size
  <2> HIDE DEF P, K
  <2>1. P * MIN_SIZE < (2 * K) * MIN_SIZE
    BY <1>1, <1>2, <1>4
  <2>2. P < 2 * K
    BY <2>1, <1>1, <1>2, MulLess
  <2> QED
    BY <2>2, <1>1, <1>2, PowLess DEF P, K
<1> QED
  BY <1>2, <1>3, <1>4

----------------------------------------------------------------------------
(* Steps *)

LEMMA InitInv == Init => KmallocInv
<1> SUFFICES ASSUME Init PROVE KmallocInv
  OBVIOUS
<1> USE DEF Init
<1>1. MAX_ORDER \in Order /\ 0 \in Order /\ 0 \in Block /\ MAX_ORDER \in Nat
  BY Consts, BlockNat DEF Order
<1>2. TypeOK
  <2>1. <<0>> \in Seq(Block) /\ <<>> \in Seq(Block)
    BY <1>1
  <2>2. free_lists \in [Order -> Seq(Block)]
    BY <2>1
  <2>3. order \in [Block -> Order] /\ free \subseteq Block /\ cur \in Block \cup {-1}
    BY <1>1
  <2>4. slab \in [Pages -> -1 .. KMEM_CACHE_MAX_ORDER]
    BY Consts
  <2> QED
    BY <2>2, <2>3, <2>4 DEF TypeOK
<1>3. Early = {} /\ Unowned = Listed
  BY DEF Early, Unowned
<1>4. /\ free_lists[MAX_ORDER] = <<0>> /\ order[0] = MAX_ORDER
      /\ \A k \in Order : k # MAX_ORDER => free_lists[k] = <<>>
  BY <1>1
<1>5. ToSet(<<0>>) = {0} /\ ToSet(<<>>) = {} /\ Once(<<0>>) /\ Once(<<>>)
  BY DEF ToSet, Once
<1>6. Listed = {0}
  <2>1. \A x : x \in Listed <=> x = 0
    BY <1>1, <1>4, <1>5, InListed
  <2> QED
    BY <2>1
<1>7. Heads = {0}
  BY <1>3, <1>6 DEF Heads
<1>8. Tiles(Heads, order)
  <2>1. Span(0, MAX_ORDER) = Block
    BY BlockNat DEF Span
  <2>2. Aligned(0, MAX_ORDER)
    <3>1. 0 = 0 * 2^MAX_ORDER
      BY BlockNat
    <3> QED
      BY <3>1 DEF Aligned
  <2> QED
    BY <2>1, <2>2, <1>1, <1>4, <1>7 DEF Tiles
<1>9. OwnedInv
  BY <1>3 DEF OwnedInv
<1>10. ListsInv
  <2>1. -1 \notin Listed
    BY <1>6
  <2>2. ASSUME NEW k \in Order
        PROVE  Once(free_lists[k]) /\ \A x \in ToSet(free_lists[k]) : order[x] = k /\ x \in free
    <3>1. CASE k = MAX_ORDER
      BY <3>1, <1>4, <1>5
    <3>2. CASE k # MAX_ORDER
      BY <3>2, <1>4, <1>5
    <3> QED
      BY <3>1, <3>2
  <2> QED
    BY <2>1, <2>2 DEF ListsInv
<1>11. NoBuddies
  BY <1>1, <1>4, <1>6 DEF NoBuddies
<1>12. \A x \in Block : x # 0 => order[x] < MAX_ORDER
  <2> SUFFICES ASSUME NEW x \in Block, x # 0 PROVE order[x] < MAX_ORDER
    OBVIOUS
  <2>0. x \in Nat /\ x < 2^MAX_ORDER
    BY BlockNat
  <2>1. MAX_ORDER # 0
    <3> SUFFICES ASSUME MAX_ORDER = 0 PROVE FALSE
      OBVIOUS
    <3>1. 2^MAX_ORDER = 1
      BY PowerAssumption
    <3> QED
      BY <2>0, <3>1
  <2> QED
    BY <2>1, <1>1
<1>13. LateInv /\ ShortInv /\ ChunksTight
  BY DEF LateInv, ShortInv, ChunksTight
<1> QED
  BY <1>2, <1>8, <1>9, <1>10, <1>11, <1>12, <1>13 DEF KmallocInv, TypeInv, HeapInv

LEMMA PageAddr ==
    ASSUME NEW p \in Nat
    PROVE  /\ PageAt(p) \in Nat /\ PageAt(p) > MAX_SIZE /\ PageAt(p + 1) = PageAt(p) + PAGE_SIZE
           /\ \A n \in Nat : PageAt(p + n) = PageAt(p) + n * PAGE_SIZE
<1>1. MAX_SIZE \in Nat /\ PAGE_SIZE \in Nat \ {0}
  BY MaxSize, Consts
<1>2. \A n \in Nat : (p + n + 1) * PAGE_SIZE = (p + 1) * PAGE_SIZE + n * PAGE_SIZE
  BY <1>1
<1>3. (p + 1) * PAGE_SIZE = p * PAGE_SIZE + PAGE_SIZE /\ p * PAGE_SIZE \in Nat
  BY <1>1
<1>4. (p + 1 + 1) * PAGE_SIZE = (p + 1) * PAGE_SIZE + PAGE_SIZE
  BY <1>1
<1>5. \A n \in Nat : PageAt(p + n) = PageAt(p) + n * PAGE_SIZE
  <2> SUFFICES ASSUME NEW n \in Nat PROVE PageAt(p + n) = PageAt(p) + n * PAGE_SIZE
    OBVIOUS
  <2>1. n * PAGE_SIZE \in Nat /\ (p + 1) * PAGE_SIZE \in Nat
    BY <1>1
  <2> QED
    BY <2>1, <1>1, <1>2 DEF PageAt
<1> QED
  BY <1>1, <1>3, <1>4, <1>5 DEF PageAt

LEMMA PageUp ==
    ASSUME NEW p \in Nat, NEW q \in Nat, p <= q
    PROVE  PageAt(p) <= PageAt(q) /\ PageAt(p) \in Nat /\ PageAt(q) \in Nat
<1>1. PageAt(p + (q - p)) = PageAt(p) + (q - p) * PAGE_SIZE /\ p + (q - p) = q /\ q - p \in Nat
  BY PageAddr
<1>2. (q - p) * PAGE_SIZE \in Nat
  BY <1>1, Consts
<1> QED
  BY <1>1, <1>2, PageAddr

LEMMA PagesNat == Pages \subseteq Nat /\ \A p \in Pages : p < NPages /\ p + 1 <= NPages
BY Consts DEF Pages

LEMMA LiveType ==
    ASSUME TypeOK, NEW c \in live
    PROVE  c.at \in Nat /\ c.got \in Nat /\ c.size \in Sizes /\ c.size \in Nat
<1>1. PageAt(NPages) \in Nat
  BY PageAddr, Consts
<1>2. c.at \in 0 .. PageAt(NPages) /\ c.size \in Sizes /\ c.got \in Nat
  BY DEF TypeOK
<1> QED
  BY <1>1, <1>2, SizeType

\* A chunk that is not from the early heap lies in the pages.
LEMMA LateAddr ==
    ASSUME TypeOK, LateInv, NEW c \in live, c.at >= MAX_SIZE
    PROVE  c.at > MAX_SIZE
<1>0. c.at \in Nat /\ c.got \in Nat /\ MAX_SIZE \in Nat
  BY LiveType, MaxSize
<1>1. PICK p \in Pages : SlabChunk(c, p) \/ \E n \in 1 .. NPages : PageChunk(c, p, n)
  BY DEF LateInv
<1>2. PageAt(p) \in Nat /\ PageAt(p) > MAX_SIZE
  BY PagesNat, PageAddr
<1>3. CASE SlabChunk(c, p)
  <2>1. PICK i \in Nat : c.at = PageAt(p) + i * c.got
    BY <1>3 DEF SlabChunk
  <2>2. i * c.got \in Nat
    BY <1>0
  <2> QED
    BY <1>0, <1>2, <2>1, <2>2
<1>4. CASE \E n \in 1 .. NPages : PageChunk(c, p, n)
  <2>1. c.at = PageAt(p)
    BY <1>4 DEF PageChunk
  <2> QED
    BY <2>1, <1>2
<1> QED
  BY <1>1, <1>3, <1>4

\* Parts of the invariant that only depend on some of the variables
LEMMA HeapSame ==
    ASSUME HeapInv, UNCHANGED <<free_lists, order, free, cur>>, Early' = Early
    PROVE  HeapInv'
<1>1. Unowned' = Unowned /\ Heads' = Heads /\ Listed' = Listed
  BY DEF Unowned, Heads, Listed, Unit
<1>2. OwnedInv' = OwnedInv /\ ListsInv' = ListsInv /\ NoBuddies' = NoBuddies
  BY <1>1 DEF OwnedInv, ListsInv, NoBuddies, Unit
<1>3. Tiles(Heads', order') <=> Tiles(Heads, order)
  BY <1>1
<1> QED
  BY <1>2, <1>3 DEF HeapInv

LEMMA LateSame ==
    ASSUME LateInv, slab' = slab, NEW c0, live' \subseteq live \cup {c0},
           c0 \in live' => c0.at < MAX_SIZE \/ c0 \in live, MAX_SIZE \in Nat, c0 \in live' => c0.at \in Nat
    PROVE  LateInv'
<1>1. ASSUME NEW c \in live', c.at >= MAX_SIZE PROVE c \in live
  BY <1>1
<1>2. \A c \in live' : c.at >= MAX_SIZE =>
        \E p \in Pages : SlabChunk(c, p)' \/ \E n \in 1 .. NPages : PageChunk(c, p, n)'
  BY <1>1 DEF LateInv, SlabChunk, PageChunk
<1>3. \A c, d \in live' : c # d /\ c.at >= MAX_SIZE /\ d.at >= MAX_SIZE => Apart(c, d)
  BY <1>1 DEF LateInv
<1> QED
  BY <1>2, <1>3 DEF LateInv, SlabChunk, PageChunk, Apart, PageAt, MAX_SIZE, Pages

LEMMA EarlyStep ==
    ASSUME KmallocInv, NEW size \in Sizes, KmallocEarly(size)
    PROVE  KmallocInv'
<1> DEFINE o == ilog2_roundup(size \div MIN_SIZE)
<1>1. /\ cur = -1 /\ ~mixed /\ TypeOK /\ ChunksTight /\ ShortInv /\ HeapInv /\ LateInv
      /\ UNCHANGED <<cur, init_kmem_cache, slab, mixed>>
  BY DEF KmallocInv, TypeInv, KmallocEarly, Intact, Idle
<1>2. PICK i \in Order : /\ alloc_blocks(o, i)
                         /\ Give(Head(free_lists[i]) * MIN_SIZE, size, MIN_SIZE * 2^o)
  BY DEF KmallocEarly
<1>3. /\ o \in Power /\ MIN_SIZE * 2^o \in Nat
      /\ MIN_SIZE * 2^o + (MIN_SIZE - 1) >= size
      /\ (o = 0 /\ MIN_SIZE * 2^o = MIN_SIZE) \/ MIN_SIZE * 2^o < 2 * size
  BY EarlySize
<1> HIDE DEF o
<1>4. o \in Order
  <2>1. i >= o /\ o \in Nat /\ i \in Nat /\ i <= MAX_ORDER /\ MAX_ORDER \in Nat
    BY <1>2, <1>3, Consts, OrderType DEF alloc_blocks
  <2> QED
    BY <2>1 DEF Order
<1> DEFINE b == Head(free_lists[i])
           got == MIN_SIZE * 2^o
           c0 == [at |-> b * MIN_SIZE, size |-> size, got |-> got]
<1>5. /\ b \in Block /\ free_lists' \in [Order -> Seq(Block)] /\ order' \in [Block -> Order]
      /\ free' \subseteq Block
  BY <1>1, <1>2, <1>4, AllocIs
<1>6. live' = live \cup {c0} /\ short' = (short \/ got < size)
  BY <1>2 DEF Give
<1> HIDE DEF b, got
<1>7. /\ b * MIN_SIZE \in Nat /\ b * MIN_SIZE < MAX_SIZE /\ MAX_SIZE \in Nat
      /\ PageAt(NPages) \in Nat /\ MAX_SIZE < PageAt(NPages)
  BY <1>5, MaxSize, PageAddr, Consts
<1>8. /\ c0.at = b * MIN_SIZE /\ c0.got = got /\ c0.size = size /\ got \in Nat /\ size \in Nat
  BY <1>3, SizeType DEF got
<1> HIDE DEF c0
<1>9. TypeOK'
  <2>1. \A c \in live' : c.at \in 0 .. PageAt(NPages) /\ c.size \in Sizes /\ c.got \in Nat
    <3> SUFFICES ASSUME NEW c \in live' PROVE c.at \in 0 .. PageAt(NPages) /\ c.size \in Sizes /\ c.got \in Nat
      OBVIOUS
    <3>1. CASE c \in live
      BY <3>1, <1>1 DEF TypeOK
    <3>2. CASE c = c0
      BY <3>2, <1>7, <1>8
    <3> QED
      BY <3>1, <3>2, <1>6
  <2>2. {init_kmem_cache', short', mixed'} \subseteq BOOLEAN
    BY <1>1, <1>6 DEF TypeOK
  <2>3. cur' \in Block \cup {-1} /\ slab' \in [Pages -> -1 .. KMEM_CACHE_MAX_ORDER]
    BY <1>1 DEF TypeOK
  <2> QED
    BY <2>1, <2>2, <2>3, <1>5 DEF TypeOK, Block, Order, Pages, PageAt, MAX_SIZE
<1>10. TypeInv'
  BY <1>1, <1>9 DEF TypeInv
<1>11. ChunksTight'
  <2>1. got + (MIN_SIZE - 1) >= size /\ (got = MIN_SIZE \/ got < 2 * size)
    BY <1>3 DEF got
  <2>2. Tight(c0)
    BY <2>1, <1>7, <1>8, Consts DEF Tight
  <2> QED
    BY <2>2, <1>1, <1>6, TightStep
<1>12. ShortInv'
  <2> SUFFICES ASSUME ~short', NEW c \in live' PROVE c.size <= c.got
    BY DEF ShortInv
  <2>1. ~short /\ ~(got < size)
    BY <1>6
  <2>2. CASE c \in live
    BY <2>1, <2>2, <1>1 DEF ShortInv
  <2>3. CASE c = c0
    BY <2>1, <2>3, <1>8
  <2> QED
    BY <2>2, <2>3, <1>6
<1>13. HeapInv'
  <2>1. b = Head(free_lists[i]) /\ c0.at = b * MIN_SIZE /\ c0.got = MIN_SIZE * 2^o
    BY <1>8 DEF b, got
  <2> QED
    BY <2>1, <1>1, <1>2, <1>4, <1>6, AllocHeap
<1>14. LateInv'
  BY <1>1, <1>6, <1>7, <1>8, LateSame
<1> QED
  BY <1>10, <1>11, <1>12, <1>13, <1>14 DEF KmallocInv

LEMMA InitStep ==
    ASSUME KmallocInv, KmallocInit PROVE KmallocInv'
<1>1. /\ TypeInv /\ ChunksTight /\ ShortInv /\ LateInv /\ TypeOK
      /\ UNCHANGED <<free_lists, order, free, cur, mixed, slab, live, short>>
      /\ init_kmem_cache' = TRUE
  BY DEF KmallocInv, TypeInv, KmallocInit, early
<1>2. Early' = Early
  BY <1>1 DEF Early, MAX_SIZE
<1>3. ASSUME ~mixed PROVE HeapInv'
  <2>1. HeapInv
    BY <1>3 DEF KmallocInv
  <2> QED
    BY <2>1, <1>1, <1>2, HeapSame
<1>4. LateInv'
  BY <1>1 DEF LateInv, SlabChunk, PageChunk, Apart, PageAt, MAX_SIZE, Pages
<1>5. ChunksTight' /\ ShortInv'
  BY <1>1, <1>2 DEF ChunksTight, ShortInv, KMEM_CACHE_MAX_SIZE
<1>6. TypeInv'
  BY <1>1 DEF TypeInv, TypeOK, Block, Order, Pages, PageAt, MAX_SIZE
<1> QED
  BY <1>1, <1>3, <1>4, <1>5, <1>6 DEF KmallocInv

\* Fewer chunks
LEMMA LessLive ==
    ASSUME KmallocInv, NEW c \in live, live' = live \ {c}, short' = short
    PROVE  /\ ChunksTight' /\ ShortInv'
           /\ \A d \in live' : d.at \in 0 .. PageAt(NPages) /\ d.size \in Sizes /\ d.got \in Nat
<1>1. ChunksTight /\ ShortInv /\ TypeOK
  BY DEF KmallocInv, TypeInv
<1>2. ChunksTight'
  BY <1>1, TightStep
<1> QED
  BY <1>1, <1>2 DEF ShortInv, TypeOK

LEMMA KfreeEarlyStep ==
    ASSUME KmallocInv, NEW c \in live, KfreeEarly(c)
    PROVE  KmallocInv'
<1>1. /\ ~mixed /\ cur = -1 /\ TypeOK /\ HeapInv /\ LateInv /\ c.at <= MAX_SIZE
      /\ live' = live \ {c} /\ cur' = Unit(c)
      /\ UNCHANGED <<free_lists, order, free, init_kmem_cache, slab, short, mixed>>
  BY DEF KmallocInv, TypeInv, KfreeEarly, Intact, Idle, is_early_block_addr, Unit
<1>2. c.at \in Nat /\ MAX_SIZE \in Nat
  BY <1>1, LiveType, MaxSize
<1>3. c \in Early
  <2>1. ~(c.at >= MAX_SIZE)
    BY <1>1, <1>2, LateAddr
  <2> QED
    BY <2>1, <1>2 DEF Early
<1>4. /\ Tiles(Heads, order) /\ OwnedInv /\ ListsInv /\ NoBuddies
      /\ \A x \in Block : x # 0 => order[x] < MAX_ORDER
  BY <1>1 DEF HeapInv
<1>5. /\ Unit(c) \in Block /\ Unit(c) \notin free /\ Unit(c) \notin Unowned /\ Unit(c) # -1
      /\ \A d \in Early : Unit(c) = Unit(d) => c = d
  <2>1. -1 \notin Block
    BY BlockNat
  <2> QED
    BY <2>1, <1>3, <1>4 DEF OwnedInv
<1>6. /\ Unowned = Listed /\ Listed' = Listed /\ Unowned' = Listed \cup {Unit(c)}
      /\ Early' = Early \ {c}
  <2>1. Listed' = Listed
    BY <1>1 DEF Listed, Order
  <2>2. Unowned = Listed
    BY <1>1 DEF Unowned
  <2>3. cur' # -1
    BY <1>1, <1>5
  <2>4. Unowned' = Listed' \cup (IF cur' = -1 THEN {} ELSE {cur'})
    BY DEF Unowned
  <2>5. Unowned' = Listed \cup {Unit(c)}
    BY <2>1, <2>3, <2>4, <1>1
  <2>6. Early' = Early \ {c}
    BY <1>1 DEF Early, MAX_SIZE
  <2> QED
    BY <2>1, <2>2, <2>5, <2>6
<1>7. Heads' = Heads
  <2>1. Heads' = Unowned' \cup {Unit(d) : d \in Early'} /\ Heads = Unowned \cup {Unit(d) : d \in Early}
    BY DEF Heads, Unit
  <2> QED
    BY <2>1, <1>3, <1>6
<1>8. Tiles(Heads', order')
  BY <1>1, <1>4, <1>7
<1>9. OwnedInv'
  <2> SUFFICES ASSUME NEW d \in Early'
               PROVE  /\ Unit(d) \in Block /\ d.at = Unit(d) * MIN_SIZE
                      /\ d.got = MIN_SIZE * 2^order'[Unit(d)]
                      /\ Unit(d) \notin free' /\ Unit(d) \notin Unowned'
                      /\ \A e \in Early' : Unit(d) = Unit(e) => d = e
    BY DEF OwnedInv, Unit, Block
  <2>1. /\ Unit(d) \in Block /\ d.at = Unit(d) * MIN_SIZE /\ d.got = MIN_SIZE * 2^order[Unit(d)]
        /\ Unit(d) \notin free /\ Unit(d) \notin Unowned
        /\ \A e \in Early : Unit(d) = Unit(e) => d = e
    BY <1>4, <1>6 DEF OwnedInv
  <2>2. Unit(d) # Unit(c) /\ Unit(d) \notin Unowned'
    BY <2>1, <1>5, <1>6
  <2> QED
    BY <2>1, <2>2, <1>1, <1>6
<1>10. ListsInv' /\ NoBuddies'
  <2>1. cur' \notin Listed'
    BY <1>1, <1>5, <1>6
  <2> QED
    BY <2>1, <1>1, <1>4, <1>6 DEF ListsInv, NoBuddies, Order
<1>11. HeapInv'
  BY <1>1, <1>4, <1>8, <1>9, <1>10 DEF HeapInv, Block
<1>12. LateInv'
  BY <1>1, <1>2, LateSame
<1>13. TypeOK'
  <2>1. \A d \in live' : d.at \in 0 .. PageAt(NPages) /\ d.size \in Sizes /\ d.got \in Nat
    BY <1>1, LessLive
  <2> QED
    BY <2>1, <1>1, <1>5 DEF TypeOK, Block, Order, Pages, PageAt, MAX_SIZE
<1>14. \A x \in Block : x # cur' => order'[x] < MAX_ORDER
  <2> SUFFICES ASSUME NEW x \in Block, x # Unit(c) PROVE order[x] < MAX_ORDER
    BY <1>1
  <2>1. CASE x # 0
    BY <2>1, <1>4
  <2>2. CASE x = 0
    <3> SUFFICES ASSUME ~(order[0] < MAX_ORDER) PROVE FALSE
      BY <2>2
    <3>1. order[0] = MAX_ORDER
      <4>1. order[0] \in Order
        BY <2>2, <1>1 DEF TypeOK
      <4>2. order[0] \in Nat /\ order[0] <= MAX_ORDER
        BY <4>1, OrderType
      <4>3. MAX_ORDER \in Nat
        BY Consts
      <4> QED
        BY <4>2, <4>3
    <3>2. Heads \subseteq Block
      BY <1>1, <1>4, HeadsType
    <3>3. PICK p \in Heads : 0 \in Span(p, order[p])
      BY <2>2, <1>4 DEF Tiles
    <3>4. p = 0
      <4>1. p \in Nat
        BY <3>2, BlockNat
      <4> QED
        BY <3>3, <4>1 DEF Span
    <3>5. Unit(c) \in Span(p, order[p])
      BY <3>1, <3>4, <1>5, BlockNat DEF Span
    <3>6. Unit(c) \in Heads
      BY <1>3 DEF Heads
    <3>7. Heads \in SUBSET Nat
      BY <3>2, BlockNat
    <3>8. Unit(c) = p
      BY <3>5, <3>6, <3>7, <1>4, TilesStart
    <3> QED
      BY <3>4, <3>8, <2>2
  <2> QED
    BY <2>1, <2>2
<1>15. TypeInv'
  BY <1>13, <1>14 DEF TypeInv, Block
<1> QED
  BY <1>1, <1>11, <1>12, <1>15, LessLive DEF KmallocInv

\* The lists after a turn of free_blocks' loop
LEMMA MergeLists ==
    ASSUME free_lists \in [Order -> Seq(Block)], NEW b,
           free_lists' = [k \in Order |-> RemoveFirst(free_lists[k], b)]
    PROVE  /\ free_lists' \in [Order -> Seq(Block)] /\ Listed' \subseteq Listed
           /\ \A k \in Order : ToSet(free_lists'[k]) \subseteq ToSet(free_lists[k])
           /\ (\A k \in Order : Once(free_lists[k])) =>
                /\ \A k \in Order : Once(free_lists'[k]) /\ b \notin ToSet(free_lists'[k])
                /\ Listed' = Listed \ {b}
<1>1. ASSUME NEW k \in Order
      PROVE  /\ free_lists'[k] \in Seq(Block) /\ ToSet(free_lists'[k]) \subseteq ToSet(free_lists[k])
             /\ Once(free_lists[k]) => /\ Once(free_lists'[k])
                                       /\ ToSet(free_lists'[k]) = ToSet(free_lists[k]) \ {b}
  <2> DEFINE s == free_lists[k]
             t == free_lists'[k]
  <2>1. s \in Seq(Block) /\ t = RemoveFirst(s, b)
    OBVIOUS
  <2> HIDE DEF s, t
  <2>2. /\ t \in Seq(Block) /\ ToSet(t) \subseteq ToSet(s)
        /\ Once(s) => Once(t) /\ ToSet(t) = ToSet(s) \ {b}
    BY <2>1, Removed
  <2> QED
    BY <2>2 DEF s, t
<1>2. free_lists' \in [Order -> Seq(Block)]
  BY <1>1
<1>3. \A x : x \in Listed' <=> \E k \in Order : x \in ToSet(free_lists'[k])
  BY DEF Listed, Order
<1>4. Listed' \subseteq Listed
  BY <1>1, <1>3, InListed
<1>5. ASSUME \A k \in Order : Once(free_lists[k])
      PROVE  /\ \A k \in Order : Once(free_lists'[k]) /\ b \notin ToSet(free_lists'[k])
             /\ Listed' = Listed \ {b}
  <2>1. \A k \in Order : Once(free_lists'[k]) /\ ToSet(free_lists'[k]) = ToSet(free_lists[k]) \ {b}
    BY <1>1, <1>5
  <2>2. \A x : x \in Listed' <=> x \in Listed \ {b}
    BY <2>1, <1>3, InListed
  <2> QED
    BY <2>1, <2>2
<1> QED
  BY <1>1, <1>2, <1>4, <1>5

\* free_blocks stays inside blocks[] and below MAX_ORDER, whatever it merges.
LEMMA MergeType ==
    ASSUME TypeInv, FreeMerge, NEW b, b = Buddy(cur, order[cur]), NEW m, m = IF b < cur THEN b ELSE cur
    PROVE  /\ cur \in Block /\ b \in Block /\ m \in {b, cur} /\ m \in Block
           /\ order[cur] \in 0 .. MAX_ORDER - 1 /\ order[m] < MAX_ORDER
           /\ order' = [order EXCEPT ![m] = order[m] + 1] /\ cur' = m
           /\ TypeInv'
<1>1. /\ TypeOK /\ cur # -1 /\ order[cur] < MAX_ORDER
      /\ free_lists' = [k \in Order |-> RemoveFirst(free_lists[k], b)]
      /\ order' = [order EXCEPT ![m] = order[m] + 1] /\ cur' = m
      /\ mixed' = (mixed \/ order[b] # order[cur])
      /\ UNCHANGED <<free, init_kmem_cache, slab, live, short>>
      /\ \A x \in Block : x # cur => order[x] < MAX_ORDER
  BY DEF TypeInv, FreeMerge, CanMerge
<1>2. cur \in Block /\ order \in [Block -> Order] /\ order[cur] \in Order
  BY <1>1 DEF TypeOK
<1>3. order[cur] \in 0 .. MAX_ORDER - 1
  BY <1>1, <1>2, Consts DEF Order
<1>4. b \in Block
  BY <1>2, <1>3, BuddyInBlock
<1>5. m \in {b, cur} /\ m \in Block
  BY <1>2, <1>4
<1>6. order[m] < MAX_ORDER /\ order[m] \in Order
  BY <1>1, <1>2, <1>4, <1>5
<1>7. order[m] + 1 \in Order
  BY <1>6, Consts DEF Order
<1>8. order' \in [Block -> Order]
  BY <1>1, <1>2, <1>7
<1>9. free_lists' \in [Order -> Seq(Block)]
  BY <1>1, MergeLists DEF TypeOK
<1>10. {init_kmem_cache', short', mixed'} \subseteq BOOLEAN
  BY <1>1 DEF TypeOK
<1>11. TypeOK'
  BY <1>1, <1>5, <1>8, <1>9, <1>10 DEF TypeOK, Block, Order, Pages, PageAt, MAX_SIZE
<1>12. \A x \in Block : x # m => order'[x] < MAX_ORDER
  <2> SUFFICES ASSUME NEW x \in Block, x # m PROVE order'[x] < MAX_ORDER
    OBVIOUS
  <2>1. order'[x] = order[x]
    BY <1>1, <1>2
  <2> QED
    BY <2>1, <1>1
<1>13. TypeInv'
  BY <1>1, <1>11, <1>12 DEF TypeInv, Block
<1> QED
  BY <1>1, <1>2, <1>3, <1>4, <1>5, <1>6, <1>13

LEMMA MergeHeap ==
    ASSUME TypeInv, HeapInv, FreeMerge, ~mixed'
    PROVE  HeapInv'
<1> DEFINE b == Buddy(cur, order[cur])
           m == IF b < cur THEN b ELSE cur
           k == order[cur]
<1>1. /\ cur \in Block /\ b \in Block /\ m \in {b, cur} /\ m \in Block
      /\ k \in 0 .. MAX_ORDER - 1
      /\ order' = [order EXCEPT ![m] = order[m] + 1] /\ cur' = m
  BY MergeType
<1>2. /\ TypeOK /\ cur # -1 /\ b \in free /\ order[b] = k
      /\ free_lists' = [j \in Order |-> RemoveFirst(free_lists[j], b)]
      /\ UNCHANGED <<free, live>>
  BY DEF TypeInv, FreeMerge, CanMerge
<1>3. /\ Tiles(Heads, order) /\ OwnedInv /\ ListsInv /\ NoBuddies
      /\ \A x \in Block : x # 0 => order[x] < MAX_ORDER
  BY DEF HeapInv
<1>4. /\ Heads \subseteq Block /\ Listed \subseteq Unowned /\ cur \in Unowned /\ cur \in Heads
      /\ Unowned \subseteq Heads /\ Listed \subseteq Block
  BY <1>2, <1>3, HeadsType
<1>5. m = IF b < cur THEN b ELSE cur
  OBVIOUS
<1>6. b = Buddy(cur, k) /\ order[cur] = k
  OBVIOUS
<1> HIDE DEF b, m, k
<1>7. b \in Heads /\ b # cur
  BY <1>1, <1>3, <1>4, <1>6, TilesBuddy
<1>8. b \in Listed
  <2>1. \A c \in Early : Unit(c) \notin free
    BY <1>3 DEF OwnedInv
  <2>2. b \in Unowned
    BY <2>1, <1>2, <1>7 DEF Heads
  <2> QED
    BY <2>2, <1>2, <1>7 DEF Unowned
<1>9. order \in [Block -> Order] /\ order'[m] = k + 1 /\ \A x \in Block : x # m => order'[x] = order[x]
  <2>1. order \in [Block -> Order]
    BY <1>2 DEF TypeOK
  <2>2. order[m] = k
    BY <1>1, <1>2, <1>6
  <2> QED
    BY <2>1, <2>2, <1>1
<1>10. Tiles((Heads \ {cur, b}) \cup {m}, order')
  <2>1. \A x \in Heads : x # m => order'[x] = order[x]
    BY <1>4, <1>9
  <2> QED
    <3>1. /\ Heads \in SUBSET Block /\ Tiles(Heads, order) /\ cur \in Heads /\ b \in Heads
          /\ k \in 0 .. MAX_ORDER - 1 /\ order[b] = k /\ order'[m] = k + 1
      BY <1>1, <1>2, <1>3, <1>4, <1>7, <1>9
    <3> QED
      BY <2>1, <3>1, <1>5, <1>6, TilesMerge
<1>11. /\ \A j \in Order : Once(free_lists'[j]) /\ b \notin ToSet(free_lists'[j])
       /\ \A j \in Order : ToSet(free_lists'[j]) \subseteq ToSet(free_lists[j])
       /\ Listed' = Listed \ {b}
  <2>1. \A j \in Order : Once(free_lists[j])
    BY <1>3 DEF ListsInv
  <2> QED
    BY <2>1, <1>2, MergeLists DEF TypeOK
<1>12. cur \notin Listed
  BY <1>3 DEF ListsInv
<1>13. Early' = Early
  BY <1>2 DEF Early, MAX_SIZE
<1>14. Unowned = Listed \cup {cur} /\ Unowned' = (Listed \ {b}) \cup {m}
  <2>1. m # -1
    BY <1>1, BlockNat
  <2> QED
    BY <2>1, <1>1, <1>2, <1>11 DEF Unowned
<1>15. \A c \in Early : Unit(c) \notin Unowned
  BY <1>3 DEF OwnedInv
<1>16. Heads' = (Heads \ {cur, b}) \cup {m}
  <2>1. Heads' = Unowned' \cup {Unit(d) : d \in Early} /\ Heads = Unowned \cup {Unit(d) : d \in Early}
    BY <1>13 DEF Heads, Unit
  <2> QED
    BY <2>1, <1>1, <1>7, <1>8, <1>12, <1>14, <1>15
<1>17. Tiles(Heads', order')
  BY <1>10, <1>16
<1>18. OwnedInv'
  <2> SUFFICES ASSUME NEW d \in Early
               PROVE  /\ Unit(d) \in Block /\ d.at = Unit(d) * MIN_SIZE
                      /\ d.got = MIN_SIZE * 2^order'[Unit(d)]
                      /\ Unit(d) \notin free' /\ Unit(d) \notin Unowned'
                      /\ \A e \in Early : Unit(d) = Unit(e) => d = e
    BY <1>13 DEF OwnedInv, Unit, Block
  <2>1. /\ Unit(d) \in Block /\ d.at = Unit(d) * MIN_SIZE /\ d.got = MIN_SIZE * 2^order[Unit(d)]
        /\ Unit(d) \notin free /\ Unit(d) \notin Unowned
        /\ \A e \in Early : Unit(d) = Unit(e) => d = e
    BY <1>3 DEF OwnedInv
  <2>2. Unit(d) # m /\ Unit(d) \notin Unowned' /\ order'[Unit(d)] = order[Unit(d)]
    BY <2>1, <1>1, <1>8, <1>9, <1>14
  <2> QED
    BY <2>1, <2>2, <1>2
<1>19. \A x \in Listed' : x \in Listed /\ x # m /\ order'[x] = order[x]
  BY <1>1, <1>4, <1>9, <1>11, <1>12
<1>20. ListsInv'
  <2>1. ASSUME NEW j \in Order, NEW x \in ToSet(free_lists'[j]) PROVE order'[x] = j /\ x \in free'
    <3>1. x \in ToSet(free_lists[j]) /\ x # b
      BY <1>11, <2>1
    <3>2. order[x] = j /\ x \in free /\ x \in Listed
      BY <3>1, <1>3, InListed DEF ListsInv
    <3>3. x \in Listed'
      BY <3>1, <3>2, <1>11
    <3> QED
      BY <3>2, <3>3, <1>2, <1>19
  <2>2. cur' \notin Listed'
    BY <1>1, <1>19
  <2> QED
    BY <2>1, <2>2, <1>11 DEF ListsInv, Order, Once
<1>21. NoBuddies'
  <2> SUFFICES ASSUME NEW p \in Listed', NEW q \in Listed',
                      order'[p] = order'[q], order'[p] < MAX_ORDER, Aligned(p, order'[p] + 1),
                      q = p + 2^order'[p]
               PROVE  FALSE
    BY DEF NoBuddies, Aligned
  <2>1. p \in Listed /\ q \in Listed /\ order'[p] = order[p] /\ order'[q] = order[q]
    BY <1>19
  <2> QED
    BY <2>1, <1>3 DEF NoBuddies
<1>22. ASSUME NEW x \in Block, x # 0 PROVE order'[x] < MAX_ORDER
  <2>1. CASE x # m
    BY <2>1, <1>3, <1>9, <1>22
  <2>2. CASE x = m
    <3>1. Aligned(cur, k) /\ k \in Nat /\ k + 1 \in Order /\ k + 1 <= MAX_ORDER /\ MAX_ORDER \in Nat
      BY <1>1, <1>3, <1>4, <1>6, OrderPow, Consts DEF Tiles
    <3>2. Aligned(m, k + 1)
      BY <3>1, <1>1, <1>5, <1>6, BuddyHalf
    <3>3. SUFFICES ASSUME k + 1 = MAX_ORDER PROVE FALSE
      BY <3>1, <2>2, <1>9
    <3>4. PICK c \in Nat : m = c * 2^MAX_ORDER
      BY <3>2, <3>3 DEF Aligned
    <3> DEFINE N == 2^MAX_ORDER
    <3>5. N \in Nat \ {0} /\ m \in Nat /\ m < N /\ m = c * N
      BY <3>4, <1>1, BlockNat
    <3> HIDE DEF N
    <3>6. c * N < 1 * N
      BY <3>5
    <3>7. c < 1
      BY <3>5, <3>6, MulLess
    <3>8. m = 0
      BY <3>5, <3>7
    <3> QED
      BY <3>8, <2>2, <1>22
  <2> QED
    BY <2>1, <2>2
<1> QED
  BY <1>17, <1>18, <1>20, <1>21, <1>22 DEF HeapInv, Block

LEMMA MergeStep ==
    ASSUME KmallocInv, FreeMerge PROVE KmallocInv'
<1>1. /\ TypeInv /\ ChunksTight /\ ShortInv /\ LateInv
      /\ UNCHANGED <<init_kmem_cache, slab, live, short>>
      /\ mixed' \in BOOLEAN /\ (~mixed' => ~mixed)
  BY DEF KmallocInv, FreeMerge
<1>2. TypeInv'
  BY <1>1, MergeType
<1>3. ChunksTight' /\ ShortInv'
  BY <1>1 DEF ChunksTight, ShortInv, Early, MAX_SIZE, KMEM_CACHE_MAX_SIZE
<1>4. ASSUME ~mixed' PROVE HeapInv'
  <2>1. HeapInv
    BY <1>1, <1>4 DEF KmallocInv
  <2> QED
    BY <2>1, <1>1, <1>4, MergeHeap
<1>5. LateInv'
  BY <1>1 DEF LateInv, SlabChunk, PageChunk, Apart, PageAt, MAX_SIZE, Pages
<1> QED
  BY <1>2, <1>3, <1>4, <1>5 DEF KmallocInv

LEMMA DoneLists ==
    ASSUME free_lists \in [Order -> Seq(Block)], NEW p \in Block, NEW k \in Order,
           free_lists' = [free_lists EXCEPT ![k] = <<p>> \o free_lists[k]]
    PROVE  /\ free_lists' \in [Order -> Seq(Block)] /\ Listed' = Listed \cup {p}
           /\ ToSet(free_lists'[k]) = ToSet(free_lists[k]) \cup {p}
           /\ \A j \in Order : j # k => free_lists'[j] = free_lists[j]
           /\ (\A j \in Order : Once(free_lists[j])) /\ p \notin ToSet(free_lists[k])
                => \A j \in Order : Once(free_lists'[j])
<1> DEFINE s == free_lists[k]
           t == free_lists'[k]
<1>1. s \in Seq(Block) /\ t = <<p>> \o s
  OBVIOUS
<1>2. \A j \in Order : j # k => free_lists'[j] = free_lists[j]
  OBVIOUS
<1>3. t \in Seq(Block) /\ ToSet(t) = {p} \cup ToSet(s) /\ (Once(s) /\ p \notin ToSet(s) => Once(t))
  <2> HIDE DEF s, t
  <2> QED
    BY <1>1, Pushed
<1>4. free_lists' \in [Order -> Seq(Block)]
  <2>1. <<p>> \o free_lists[k] \in Seq(Block)
    BY <1>1, <1>3
  <2> QED
    BY <2>1
<1>5. \A x : x \in Listed' <=> \E j \in Order : x \in ToSet(free_lists'[j])
  BY DEF Listed, Order
<1>6. s = free_lists[k] /\ t = free_lists'[k]
  OBVIOUS
<1> HIDE DEF s, t
<1>7. \A x : x \in Listed' <=> x \in Listed \cup {p}
  BY <1>2, <1>3, <1>5, <1>6, InListed
<1>8. ASSUME \A j \in Order : Once(free_lists[j]), p \notin ToSet(free_lists[k]), NEW j \in Order
      PROVE  Once(free_lists'[j])
  BY <1>8, <1>2, <1>3, <1>6
<1> QED
  BY <1>2, <1>3, <1>4, <1>6, <1>7, <1>8

LEMMA DoneStep ==
    ASSUME KmallocInv, FreeDone PROVE KmallocInv'
<1> DEFINE k == order[cur]
<1>1. /\ TypeInv /\ TypeOK /\ ChunksTight /\ ShortInv /\ cur # -1 /\ ~CanMerge
      /\ free' = free \cup {cur} /\ cur' = -1
      /\ free_lists' = [free_lists EXCEPT ![k] = <<cur>> \o free_lists[k]]
      /\ UNCHANGED <<order, init_kmem_cache, slab, live, short, mixed>>
  BY DEF KmallocInv, TypeInv, FreeDone
<1>2. cur \in Block /\ k \in Order /\ free_lists \in [Order -> Seq(Block)] /\ order \in [Block -> Order]
  BY <1>1 DEF TypeOK
<1>k. k = order[cur]
  OBVIOUS
<1> HIDE DEF k
<1>3. /\ free_lists' \in [Order -> Seq(Block)] /\ Listed' = Listed \cup {cur}
      /\ ToSet(free_lists'[k]) = ToSet(free_lists[k]) \cup {cur}
      /\ \A j \in Order : j # k => free_lists'[j] = free_lists[j]
      /\ (\A j \in Order : Once(free_lists[j])) /\ cur \notin ToSet(free_lists[k])
            => \A j \in Order : Once(free_lists'[j])
  BY <1>1, <1>2, DoneLists
<1>4. TypeInv'
  <2>1. free' \subseteq Block
    BY <1>1, <1>2 DEF TypeOK
  <2> QED
    BY <2>1, <1>1, <1>3 DEF TypeInv, TypeOK, Block, Order, Pages, PageAt, MAX_SIZE
<1>5. ChunksTight' /\ ShortInv' /\ Early' = Early
  BY <1>1 DEF ChunksTight, ShortInv, Early, MAX_SIZE, KMEM_CACHE_MAX_SIZE
<1>6. ASSUME ~mixed PROVE HeapInv'
  <2>1. /\ Tiles(Heads, order) /\ OwnedInv /\ ListsInv /\ NoBuddies
        /\ \A x \in Block : x # 0 => order[x] < MAX_ORDER
    BY <1>6 DEF KmallocInv, HeapInv
  <2>2. Unowned' = Unowned /\ Unowned = Listed \cup {cur}
    BY <1>1, <1>3 DEF Unowned
  <2>3. Heads' = Heads
    BY <2>2, <1>5 DEF Heads, Unit
  <2>4. OwnedInv'
    <3>1. \A c \in Early : Unit(c) # cur
      BY <2>1, <2>2 DEF OwnedInv
    <3> QED
      BY <3>1, <2>1, <2>2, <1>1, <1>5 DEF OwnedInv, Unit, Block
  <2>5. cur \notin Listed /\ \A j \in Order : Once(free_lists[j])
    BY <2>1 DEF ListsInv
  <2>6. cur \notin ToSet(free_lists[k])
    BY <2>5, <1>2, InListed
  <2>7. \A j \in Order : \A x \in ToSet(free_lists'[j]) : order[x] = j /\ x \in free'
    <3>0. \A j \in Order : \A x \in ToSet(free_lists[j]) : order[x] = j /\ x \in free
      BY <2>1 DEF ListsInv
    <3> SUFFICES ASSUME NEW j \in Order, NEW x \in ToSet(free_lists'[j])
                 PROVE  order[x] = j /\ x \in free'
      OBVIOUS
    <3>1. CASE j = k
      BY <3>0, <3>1, <1>1, <1>3, <1>k
    <3>2. CASE j # k
      BY <3>0, <3>2, <1>1, <1>3
    <3> QED
      BY <3>1, <3>2
  <2>8. ListsInv'
    <3>1. -1 \notin Listed'
      <4>1. Listed \subseteq Block
        BY <1>2, ListType
      <4> QED
        BY <4>1, <1>2, <1>3, BlockNat
    <3>2. \A j \in Order : Once(free_lists'[j])
      BY <2>5, <2>6, <1>3
    <3> QED
      BY <3>1, <3>2, <2>7, <1>1 DEF ListsInv, Order, Once
  <2>9. NoBuddies'
    <3> SUFFICES ASSUME NEW p \in Listed', NEW q \in Listed',
                        order[p] = order[q], order[p] < MAX_ORDER, Aligned(p, order[p] + 1),
                        q = p + 2^order[p]
                 PROVE  FALSE
      BY <1>1 DEF NoBuddies, Aligned
    <3>1. p \in Block /\ q \in Block /\ p \in Nat /\ order[p] \in Order
      <4>1. Listed \subseteq Block
        BY <1>2, ListType
      <4> QED
        BY <4>1, <1>2, <1>3, BlockNat
    <3>2. order[p] \in 0 .. MAX_ORDER - 1
      BY <3>1, Consts DEF Order
    <3>3. Buddy(p, order[p]) = q /\ Buddy(q, order[p]) = p /\ p # q
      BY <3>1, <3>2, Halves, HalfBuddy, OrderPow
    <3>4. \A x \in Listed : x \in free
      BY <2>1, InListed DEF ListsInv
    <3>5. CASE p \in Listed /\ q \in Listed
      BY <3>5, <2>1 DEF NoBuddies
    <3>6. CASE p = cur /\ q \in Listed
      BY <3>3, <3>4, <3>6, <1>1 DEF CanMerge
    <3>7. CASE q = cur /\ p \in Listed
      BY <3>3, <3>4, <3>7, <1>1 DEF CanMerge
    <3> QED
      BY <3>3, <3>5, <3>6, <3>7, <1>3
  <2> QED
    BY <2>1, <2>3, <2>4, <2>8, <2>9, <1>1 DEF HeapInv, Block
<1>7. LateInv'
  <2>1. LateInv
    BY DEF KmallocInv
  <2> QED
    BY <2>1, <1>1 DEF LateInv, SlabChunk, PageChunk, Apart, PageAt, MAX_SIZE, Pages
<1> QED
  BY <1>1, <1>4, <1>5, <1>6, <1>7 DEF KmallocInv

----------------------------------------------------------------------------
(* The slab caches and alloc_pages *)

\* Where a chunk that is not from the early heap lies: in one slab page, or in n
\* whole pages.
InSlab(c, p) == PageAt(p) <= c.at /\ c.at + c.got <= PageAt(p + 1)
InPages(c, p, n) == c.at = PageAt(p) /\ c.at + c.got = PageAt(p + n)

LEMMA PageNat == \A p \in Nat : PageAt(p) \in Nat
BY PageAddr

LEMMA SlabPlace ==
    ASSUME NEW c, c.got \in Nat, NEW p \in Nat, SlabChunk(c, p)
    PROVE  InSlab(c, p)
<1>1. PICK i \in Nat : c.at = PageAt(p) + i * c.got
  BY DEF SlabChunk
<1>2. i * c.got \in Nat /\ PageAt(p) \in Nat
  BY PageNat
<1> QED
  BY <1>1, <1>2 DEF SlabChunk, InSlab

LEMMA PagesPlace ==
    ASSUME NEW c, NEW p \in Nat, NEW n \in Nat, PageChunk(c, p, n)
    PROVE  InPages(c, p, n)
BY PageAddr DEF PageChunk, InPages

\* Different pages
LEMMA PlacesApart ==
    ASSUME NEW c, c.at \in Nat, c.got \in Nat, NEW d, d.at \in Nat, d.got \in Nat,
           NEW p \in Nat, NEW n \in Nat, NEW q \in Nat, NEW m \in Nat,
           PageAt(p) <= c.at, c.at + c.got <= PageAt(p + n),
           PageAt(q) <= d.at, d.at + d.got <= PageAt(q + m),
           p + n <= q \/ q + m <= p
    PROVE  Apart(c, d) /\ Apart(d, c)
<1>1. /\ p + n \in Nat /\ q + m \in Nat
      /\ PageAt(p) \in Nat /\ PageAt(q) \in Nat /\ PageAt(p + n) \in Nat /\ PageAt(q + m) \in Nat
  BY PageNat
<1>2. PageAt(p + n) <= PageAt(q) \/ PageAt(q + m) <= PageAt(p)
  BY <1>1, PageUp
<1> QED
  BY <1>1, <1>2 DEF Apart

\* A chunk uses the pages it lies in.
LEMMA UsesPages ==
    ASSUME TypeOK, NEW c \in live, NEW p \in Nat, NEW n \in Nat \ {0}, InPages(c, p, n),
           NEW q \in Nat, p <= q, q < p + n
    PROVE  c \in Used(q)
<1>1. p <= q /\ q + 1 <= p + n /\ q + 1 \in Nat /\ p + n \in Nat
  OBVIOUS
<1>2. PageAt(p) <= PageAt(q) /\ PageAt(q + 1) <= PageAt(p + n)
  BY <1>1, PageUp
<1>3. /\ PageAt(q + 1) = PageAt(q) + PAGE_SIZE /\ PAGE_SIZE \in Nat \ {0} /\ PageAt(q) \in Nat
      /\ PageAt(p) \in Nat /\ PageAt(p + n) \in Nat
  BY <1>1, PageAddr, Consts
<1> QED
  BY <1>2, <1>3 DEF Used, InPages

\* A chunk given by the slab caches or by alloc_pages
LEMMA LateGiven ==
    ASSUME KmallocInv, UNCHANGED <<free_lists, order, free, cur, mixed, init_kmem_cache>>,
           slab' \in [Pages -> -1 .. KMEM_CACHE_MAX_ORDER],
           NEW size \in Sizes, NEW got \in Nat, NEW c0,
           c0.size = size, c0.got = got, c0.at \in Nat, c0.at > MAX_SIZE, c0.at <= PageAt(NPages),
           Tight(c0), size <= got, live' = live \cup {c0}, short' = (short \/ got < size), LateInv'
    PROVE  KmallocInv'
<1>1. TypeOK /\ TypeInv /\ ChunksTight /\ ShortInv
  BY DEF KmallocInv, TypeInv
<1>2. TypeOK'
  <2>1. PageAt(NPages) \in Nat
    BY PageAddr, Consts
  <2>2. \A c \in live' : c.at \in 0 .. PageAt(NPages) /\ c.size \in Sizes /\ c.got \in Nat
    <3> SUFFICES ASSUME NEW c \in live' PROVE c.at \in 0 .. PageAt(NPages) /\ c.size \in Sizes /\ c.got \in Nat
      OBVIOUS
    <3>1. CASE c \in live
      BY <3>1, <1>1 DEF TypeOK
    <3>2. CASE c = c0
      BY <3>2, <2>1
    <3> QED
      BY <3>1, <3>2
  <2>3. {init_kmem_cache', short', mixed'} \subseteq BOOLEAN
    BY <1>1 DEF TypeOK
  <2> QED
    BY <2>2, <2>3, <1>1 DEF TypeOK, Block, Order, Pages, PageAt, MAX_SIZE
<1>3. TypeInv'
  BY <1>1, <1>2 DEF TypeInv, Block
<1>4. Early' = Early
  <2>1. ~(c0.at < MAX_SIZE)
    BY MaxSize
  <2> QED
    BY <2>1 DEF Early, MAX_SIZE
<1>5. ASSUME ~mixed PROVE HeapInv'
  <2>1. HeapInv
    BY <1>5 DEF KmallocInv
  <2> QED
    BY <2>1, <1>4, HeapSame
<1>6. ChunksTight'
  BY <1>1, TightStep
<1>7. ShortInv'
  BY <1>1 DEF ShortInv
<1> QED
  BY <1>3, <1>5, <1>6, <1>7 DEF KmallocInv

LEMMA SlabStep ==
    ASSUME KmallocInv, NEW size \in Sizes, NEW p \in Pages, NEW i \in Nat, KmallocSlab(size, p, i)
    PROVE  KmallocInv'
<1> DEFINE o == ilog2_roundup(Up(size, MIN_SIZE))
           got == MIN_SIZE * 2^o
           at == PageAt(p) + i * MIN_SIZE * 2^o
           c0 == [at |-> at, size |-> size, got |-> got]
<1>1. /\ cur = -1 /\ TypeOK /\ LateInv /\ size <= KMEM_CACHE_MAX_SIZE
      /\ UNCHANGED <<free_lists, order, free, cur, mixed, init_kmem_cache>>
  BY DEF KmallocInv, TypeInv, KmallocSlab, Idle, early
<1>2. /\ slab[p] = o \/ (slab[p] = -1 /\ Used(p) = {})
      /\ at + got <= PageAt(p + 1) /\ \A c \in live : c.at # at
      /\ live' = live \cup {c0} /\ short' = (short \/ got < size)
      /\ slab' = [slab EXCEPT ![p] = o]
  BY DEF KmallocSlab, Give
<1>3. /\ o \in Power /\ got \in Nat /\ got >= size
      /\ (o = 0 /\ got = MIN_SIZE) \/ got < 2 * size
  BY LateSize, Consts
<1>4. o <= KMEM_CACHE_MAX_ORDER /\ o \in Nat
  BY <1>1, SlabOrder
<1>5. /\ p \in Nat /\ p < NPages /\ PageAt(p) \in Nat /\ PageAt(p) > MAX_SIZE /\ PageAt(p + 1) \in Nat
      /\ PageAt(p + 1) = PageAt(p) + PAGE_SIZE
      /\ PAGE_SIZE \in Nat \ {0} /\ MIN_SIZE \in Nat \ {0} /\ MAX_SIZE \in Nat /\ NPages \in Nat
      /\ size \in Nat /\ got > 0
  <2>1. p \in Nat /\ p < NPages /\ p + 1 \in Nat
    BY PagesNat
  <2>2. 2^o \in Nat \ {0} /\ MIN_SIZE \in Nat \ {0}
    BY <1>3, PowType, Consts
  <2>3. got > 0
    <3> DEFINE P == 2^o
    <3>1. P \in Nat \ {0} /\ got = MIN_SIZE * P
      BY <2>2
    <3> HIDE DEF P, got
    <3> QED
      BY <3>1, <2>2
  <2> QED
    BY <2>1, <2>3, PageAddr, Consts, MaxSize, SizeType
<1>6. at = PageAt(p) + i * got /\ at \in Nat /\ i * got \in Nat
  <2> DEFINE P == 2^o
  <2>1. P \in Nat /\ got = MIN_SIZE * P /\ at = PageAt(p) + (i * MIN_SIZE) * P
    BY <1>3, PowType
  <2> HIDE DEF P, at, got
  <2>2. (i * MIN_SIZE) * P = i * (MIN_SIZE * P) /\ i * (MIN_SIZE * P) \in Nat
    BY <2>1, <1>5
  <2> QED
    BY <2>1, <2>2, <1>5
<1>g. got = MIN_SIZE * 2^o
  OBVIOUS
<1>c. c0.at = at /\ c0.size = size /\ c0.got = got
  OBVIOUS
<1> HIDE DEF o, got, at, c0
<1>7. c0.at \in Nat /\ c0.at > MAX_SIZE /\ c0.at <= PageAt(NPages) /\ InSlab(c0, p)
  <2>1. PageAt(p + 1) <= PageAt(NPages) /\ PageAt(NPages) \in Nat
    BY <1>5, PageUp
  <2>2. PageAt(p) <= at
    BY <1>5, <1>6
  <2> QED
    BY <2>1, <2>2, <1>2, <1>3, <1>5, <1>6, <1>c DEF InSlab
<1>8. Tight(c0)
  BY <1>3, <1>5, <1>7, <1>c, Consts DEF Tight
<1>9. slab \in [Pages -> -1 .. KMEM_CACHE_MAX_ORDER] /\ slab' \in [Pages -> -1 .. KMEM_CACHE_MAX_ORDER]
  <2>1. slab \in [Pages -> -1 .. KMEM_CACHE_MAX_ORDER]
    BY <1>1 DEF TypeOK
  <2>2. o \in -1 .. KMEM_CACHE_MAX_ORDER
    BY <1>4, Consts
  <2> QED
    BY <2>1, <2>2, <1>2
<1>10. slab'[p] = o /\ \A q \in Pages : q # p => slab'[q] = slab[q]
  BY <1>2, <1>9
<1>11. c0 \in live' /\ SlabChunk(c0, p)'
  <2>1. c0.got = MIN_SIZE * 2^slab'[p] /\ slab'[p] # -1
    BY <1>4, <1>10, <1>c, <1>g
  <2>2. \E j \in Nat : c0.at = PageAt(p) + j * c0.got
    BY <1>6, <1>c
  <2>3. c0.at + c0.got <= PageAt(p + 1)
    BY <1>2, <1>c
  <2> QED
    BY <2>1, <2>2, <2>3, <1>2 DEF SlabChunk, PageAt, MAX_SIZE
\* the old chunks: where they lie, and not in the way of the new one
<1>12. ASSUME NEW d \in live, d.at >= MAX_SIZE
       PROVE  /\ \E q \in Pages : SlabChunk(d, q)' \/ \E n \in 1 .. NPages : PageChunk(d, q, n)'
              /\ Apart(c0, d) /\ Apart(d, c0)
  <2>0. d.at \in Nat /\ d.got \in Nat /\ c0.got \in Nat /\ c0.at \in Nat
    BY <1>1, <1>3, <1>7, <1>c, LiveType
  <2>1. PICK q \in Pages : SlabChunk(d, q) \/ \E n \in 1 .. NPages : PageChunk(d, q, n)
    BY <1>1, <1>12 DEF LateInv
  <2>2. q \in Nat
    BY PagesNat
  <2>3. CASE SlabChunk(d, q)
    <3>1. slab'[q] = slab[q]
      BY <2>3, <1>2, <1>10 DEF SlabChunk, Used
    <3>2. SlabChunk(d, q)'
      BY <3>1, <2>3 DEF SlabChunk, PageAt, MAX_SIZE
    <3>3. InSlab(d, q)
      BY <2>0, <2>2, <2>3, SlabPlace
    <3>4. CASE q # p
      <4>1. q + 1 <= p \/ p + 1 <= q
        BY <3>4, <2>2, <1>5
      <4>2. 1 \in Nat
        OBVIOUS
      <4> QED
        BY <4>1, <4>2, <3>2, <3>3, <2>0, <2>2, <1>5, <1>7, PlacesApart DEF InSlab
    <3>5. CASE q = p
      <4>1. d.got = got
        <5>1. slab[p] = o
          BY <3>5, <2>3, <1>2 DEF SlabChunk
        <5> QED
          BY <5>1, <3>5, <2>3, <1>g DEF SlabChunk
      <4>2. PICK j \in Nat : d.at = PageAt(p) + j * got
        BY <4>1, <3>5, <2>3 DEF SlabChunk
      <4>3. j # i
        BY <4>2, <1>2, <1>6
      <4>4. CASE j < i
        <5>1. (j + 1) * got <= i * got
          BY <4>4, <1>3, MulUp
        <5>2. (j + 1) * got = j * got + got /\ j * got \in Nat
          BY <1>3
        <5>3. d.at + d.got <= c0.at
          BY <5>1, <5>2, <4>1, <4>2, <1>3, <1>5, <1>6, <1>c
        <5> QED
          BY <5>3, <3>2 DEF Apart
      <4>5. CASE i < j
        <5>1. (i + 1) * got <= j * got
          BY <4>5, <1>3, MulUp
        <5>2. (i + 1) * got = i * got + got /\ j * got \in Nat
          BY <1>3
        <5>3. c0.at + c0.got <= d.at
          BY <5>1, <5>2, <4>1, <4>2, <1>3, <1>5, <1>6, <1>c
        <5> QED
          BY <5>3, <3>2 DEF Apart
      <4> QED
        BY <4>3, <4>4, <4>5
    <3> QED
      BY <3>4, <3>5
  <2>4. CASE \E n \in 1 .. NPages : PageChunk(d, q, n)
    <3>1. PICK n \in 1 .. NPages : PageChunk(d, q, n)
      BY <2>4
    <3>2. n \in Nat \ {0} /\ InPages(d, q, n)
      BY <3>1, <2>2, <1>5, PagesPlace
    <3>3. ~(q <= p /\ p < q + n)
      <4> SUFFICES ASSUME q <= p, p < q + n PROVE FALSE
        OBVIOUS
      <4>1. slab[p] = -1
        BY <3>1, <3>2, <2>2, <1>5 DEF PageChunk
      <4>2. d \in Used(p)
        BY <3>2, <2>2, <1>1, <1>5, UsesPages
      <4> QED
        BY <4>1, <4>2, <1>2, <1>4
    <3>4. PageChunk(d, q, n)'
      <4>1. \A r \in q .. q + n - 1 : slab'[r] = -1
        <5> SUFFICES ASSUME NEW r \in q .. q + n - 1 PROVE slab'[r] = -1
          OBVIOUS
        <5>1. slab[r] = -1 /\ q + n <= NPages
          BY <3>1 DEF PageChunk
        <5>2. r \in Pages /\ r # p
          BY <5>1, <3>2, <3>3, <2>2, <1>5 DEF Pages
        <5> QED
          BY <5>1, <5>2, <1>10
      <4> QED
        BY <4>1, <3>1 DEF PageChunk, PageAt, MAX_SIZE
    <3>5. Apart(c0, d) /\ Apart(d, c0)
      <4>1. q + n <= p \/ p + 1 <= q
        BY <3>2, <3>3, <2>2, <1>5
      <4>2. PageAt(q) <= d.at /\ d.at + d.got <= PageAt(q + n) /\ 1 \in Nat
        BY <3>2, <2>0, <2>2, PageNat DEF InPages
      <4> QED
        BY <4>1, <4>2, <3>2, <2>0, <2>2, <1>5, <1>7, PlacesApart DEF InSlab
    <3> QED
      BY <3>4, <3>5
  <2> QED
    BY <2>1, <2>3, <2>4
<1>13. LateInv'
  <2>1. \A c \in live' : c.at >= MAX_SIZE =>
            \E q \in Pages : SlabChunk(c, q)' \/ \E n \in 1 .. NPages : PageChunk(c, q, n)'
    BY <1>2, <1>11, <1>12
  <2>2. \A c, d \in live' : c # d /\ c.at >= MAX_SIZE /\ d.at >= MAX_SIZE => Apart(c, d)
    BY <1>1, <1>2, <1>12 DEF LateInv
  <2> QED
    BY <2>1, <2>2 DEF LateInv, SlabChunk, PageChunk, Apart, PageAt, MAX_SIZE, Pages
<1> QED
  BY <1>1, <1>2, <1>3, <1>5, <1>7, <1>8, <1>9, <1>13, <1>c, LateGiven

LEMMA PagesStep ==
    ASSUME KmallocInv, NEW size \in Sizes, NEW p \in Pages, KmallocPages(size, p)
    PROVE  KmallocInv'
<1> DEFINE o == ilog2_roundup(Up(size, PAGE_SIZE))
           n == 2^o
           got == n * PAGE_SIZE
           at == PageAt(p)
           c0 == [at |-> at, size |-> size, got |-> got]
<1>1. /\ cur = -1 /\ TypeOK /\ LateInv /\ size > KMEM_CACHE_MAX_SIZE
      /\ UNCHANGED <<free_lists, order, free, cur, mixed, init_kmem_cache>>
  BY DEF KmallocInv, TypeInv, KmallocPages, Idle, early
<1>2. /\ p + n <= NPages /\ \A q \in p .. p + n - 1 : slab[q] = -1 /\ Used(q) = {}
      /\ live' = live \cup {c0} /\ short' = (short \/ got < size) /\ slab' = slab
  BY DEF KmallocPages, Give
<1>3. /\ o \in Power /\ PAGE_SIZE * n \in Nat /\ PAGE_SIZE * n >= size
      /\ (o = 0 /\ PAGE_SIZE * n = PAGE_SIZE) \/ PAGE_SIZE * n < 2 * size
  BY LateSize, Consts
<1>4. n \in Nat \ {0}
  BY <1>3, PowType
<1>g. got = n * PAGE_SIZE /\ at = PageAt(p)
  OBVIOUS
<1>c. c0.at = at /\ c0.size = size /\ c0.got = got
  OBVIOUS
<1> HIDE DEF n, o, got, at, c0
<1>5. /\ p \in Nat /\ p < NPages /\ PageAt(p) \in Nat /\ PageAt(p) > MAX_SIZE
      /\ PAGE_SIZE \in Nat \ {0} /\ MAX_SIZE \in Nat /\ NPages \in Nat /\ size \in Nat
      /\ PageAt(p) <= PageAt(NPages)
  <2>1. p \in Nat /\ p < NPages /\ NPages \in Nat /\ p <= NPages
    BY PagesNat, Consts
  <2>2. PageAt(p) \in Nat /\ PageAt(p) > MAX_SIZE
    BY <2>1, PageAddr
  <2>3. PageAt(p) <= PageAt(NPages)
    BY <2>1, PageUp
  <2> QED
    BY <2>1, <2>2, <2>3, Consts, MaxSize, SizeType
<1>6. got \in Nat /\ got >= size /\ (got = PAGE_SIZE \/ got < 2 * size)
  <2>1. got = PAGE_SIZE * n
    BY <1>4, <1>5, <1>g
  <2> QED
    BY <2>1, <1>3
<1>7. c0.at \in Nat /\ c0.at > MAX_SIZE /\ c0.at <= PageAt(NPages)
  BY <1>5, <1>c, <1>g
<1>8. Tight(c0)
  <2>1. ~(c0.at < MAX_SIZE)
    BY <1>5, <1>7
  <2> QED
    BY <2>1, <1>1, <1>5, <1>6, <1>c DEF Tight
<1>9. slab' \in [Pages -> -1 .. KMEM_CACHE_MAX_ORDER]
  BY <1>1, <1>2 DEF TypeOK
<1>10. n \in 1 .. NPages /\ PageChunk(c0, p, n)
  BY <1>2, <1>4, <1>5, <1>c, <1>g DEF PageChunk
<1>11. InPages(c0, p, n)
  BY <1>4, <1>5, <1>10, PagesPlace
<1>12. ASSUME NEW d \in live, d.at >= MAX_SIZE PROVE Apart(c0, d) /\ Apart(d, c0)
  <2>0. d.at \in Nat /\ d.got \in Nat /\ c0.got \in Nat /\ c0.at \in Nat /\ 1 \in Nat
    BY <1>1, <1>6, <1>7, <1>c, LiveType
  <2>1. PICK q \in Pages : SlabChunk(d, q) \/ \E m \in 1 .. NPages : PageChunk(d, q, m)
    BY <1>1, <1>12 DEF LateInv
  <2>2. q \in Nat
    BY PagesNat
  <2>5. PageAt(p) <= c0.at /\ c0.at + c0.got <= PageAt(p + n)
    BY <1>4, <1>5, <1>11, <2>0, PageNat DEF InPages
  <2>3. CASE SlabChunk(d, q)
    <3>1. InSlab(d, q)
      BY <2>0, <2>2, <2>3, SlabPlace
    <3>2. ~(p <= q /\ q < p + n)
      <4>1. slab[q] # -1
        BY <2>3 DEF SlabChunk
      <4> QED
        BY <4>1, <2>2, <1>2, <1>4, <1>5
    <3>3. p + n <= q \/ q + 1 <= p
      BY <3>2, <2>2, <1>4, <1>5
    <3> QED
      BY <3>1, <3>3, <2>0, <2>2, <2>5, <1>4, <1>5, PlacesApart DEF InSlab
  <2>4. CASE \E m \in 1 .. NPages : PageChunk(d, q, m)
    <3>1. PICK m \in 1 .. NPages : PageChunk(d, q, m)
      BY <2>4
    <3>2. m \in Nat \ {0} /\ InPages(d, q, m)
      BY <3>1, <2>2, <1>5, PagesPlace
    <3>3. p + n <= q \/ q + m <= p
      <4> SUFFICES ASSUME q < p + n, p < q + m PROVE FALSE
        BY <3>2, <2>2, <1>4, <1>5
      <4> DEFINE r == IF p < q THEN q ELSE p
      <4>1. r \in Nat /\ p <= r /\ r < p + n /\ q <= r /\ r < q + m
        BY <3>2, <2>2, <1>4, <1>5
      <4> HIDE DEF r
      <4>2. d \in Used(r)
        BY <4>1, <3>2, <2>2, <1>1, UsesPages
      <4>3. r \in p .. p + n - 1
        BY <4>1, <1>4, <1>5
      <4> QED
        BY <4>2, <4>3, <1>2
    <3>4. PageAt(q) <= d.at /\ d.at + d.got <= PageAt(q + m)
      BY <3>2, <2>0, <2>2, PageNat DEF InPages
    <3> QED
      BY <3>2, <3>3, <3>4, <2>0, <2>2, <2>5, <1>4, <1>5, PlacesApart
  <2> QED
    BY <2>1, <2>3, <2>4
<1>13. LateInv'
  <2>1. ASSUME NEW c \in live', c.at >= MAX_SIZE
        PROVE  \E q \in Pages : SlabChunk(c, q) \/ \E m \in 1 .. NPages : PageChunk(c, q, m)
    <3>1. CASE c \in live
      BY <3>1, <2>1, <1>1 DEF LateInv
    <3>2. CASE c = c0
      BY <3>2, <1>10
    <3> QED
      BY <3>1, <3>2, <1>2
  <2>2. \A c, d \in live' : c # d /\ c.at >= MAX_SIZE /\ d.at >= MAX_SIZE => Apart(c, d)
    BY <1>1, <1>2, <1>12 DEF LateInv
  <2> QED
    BY <2>1, <2>2, <1>2 DEF LateInv, SlabChunk, PageChunk, Apart, PageAt, MAX_SIZE, Pages
<1> QED
  BY <1>1, <1>2, <1>5, <1>6, <1>7, <1>8, <1>9, <1>13, <1>c, LateGiven

LEMMA KfreeStep ==
    ASSUME KmallocInv, NEW c \in live, Kfree(c)
    PROVE  KmallocInv'
<1> DEFINE p == page_of(c.at)
<1>1. /\ TypeInv /\ TypeOK /\ LateInv /\ ~(c.at <= MAX_SIZE)
      /\ live' = live \ {c}
      /\ slab' = IF p \in Pages /\ Used(p) = {c} THEN [slab EXCEPT ![p] = -1] ELSE slab
      /\ UNCHANGED <<free_lists, order, free, cur, mixed, init_kmem_cache, short>>
  BY DEF KmallocInv, TypeInv, Kfree, is_early_block_addr, early
<1> HIDE DEF p
<1>2. slab \in [Pages -> -1 .. KMEM_CACHE_MAX_ORDER] /\ slab' \in [Pages -> -1 .. KMEM_CACHE_MAX_ORDER]
  <2>1. slab \in [Pages -> -1 .. KMEM_CACHE_MAX_ORDER]
    BY <1>1 DEF TypeOK
  <2>2. -1 \in -1 .. KMEM_CACHE_MAX_ORDER
    BY Consts
  <2> QED
    BY <2>1, <2>2, <1>1
<1>3. \A q \in Pages : slab'[q] = slab[q] \/ (slab'[q] = -1 /\ Used(q) = {c})
  BY <1>1, <1>2
<1>4. c.at \in Nat /\ MAX_SIZE \in Nat
  BY <1>1, LiveType, MaxSize
<1>5. Early' = Early
  BY <1>1, <1>4 DEF Early, MAX_SIZE
<1>6. ASSUME ~mixed PROVE HeapInv'
  <2>1. HeapInv
    BY <1>6 DEF KmallocInv
  <2> QED
    BY <2>1, <1>1, <1>5, HeapSame
<1>7. ASSUME NEW d \in live', d.at >= MAX_SIZE
      PROVE  \E q \in Pages : SlabChunk(d, q)' \/ \E n \in 1 .. NPages : PageChunk(d, q, n)'
  <2>1. d \in live /\ d # c
    BY <1>1
  <2>2. PICK q \in Pages : SlabChunk(d, q) \/ \E n \in 1 .. NPages : PageChunk(d, q, n)
    BY <2>1, <1>1, <1>7 DEF LateInv
  <2>3. q \in Nat /\ d.at \in Nat /\ d.got \in Nat
    BY <2>1, <1>1, PagesNat, LiveType
  <2>4. CASE SlabChunk(d, q)
    <3>1. d \in Used(q)
      <4>1. InSlab(d, q)
        BY <2>3, <2>4, SlabPlace
      <4>2. d.got > 0
        <5>1. slab[q] \in Power
          <6>1. slab[q] \in -1 .. KMEM_CACHE_MAX_ORDER /\ slab[q] # -1 /\ KMEM_CACHE_MAX_ORDER \in Power
            BY <2>4, <1>2, Consts DEF SlabChunk
          <6> QED
            BY <6>1 DEF Power, MaxPower
        <5> DEFINE P == 2^slab[q]
        <5>2. P \in Nat \ {0} /\ d.got = MIN_SIZE * P /\ MIN_SIZE \in Nat \ {0}
          BY <5>1, <2>4, PowType, Consts DEF SlabChunk
        <5> HIDE DEF P
        <5> QED
          BY <5>2
      <4>3. PageAt(q) \in Nat /\ PageAt(q + 1) \in Nat
        BY <2>3, PageNat
      <4> QED
        BY <4>1, <4>2, <4>3, <2>1, <2>3 DEF Used, InSlab
    <3>2. slab'[q] = slab[q]
      BY <3>1, <2>1, <1>3
    <3>3. SlabChunk(d, q)'
      BY <3>2, <2>4 DEF SlabChunk, PageAt, MAX_SIZE
    <3> QED
      BY <3>3
  <2>5. CASE \E n \in 1 .. NPages : PageChunk(d, q, n)
    <3>1. PICK n \in 1 .. NPages : PageChunk(d, q, n)
      BY <2>5
    <3>2. \A r \in q .. q + n - 1 : slab'[r] = -1
      <4> SUFFICES ASSUME NEW r \in q .. q + n - 1 PROVE slab'[r] = -1
        OBVIOUS
      <4>1. slab[r] = -1 /\ q + n <= NPages
        BY <3>1 DEF PageChunk
      <4>2. r \in Pages
        BY <4>1, <2>3, Consts DEF Pages
      <4> QED
        BY <4>1, <4>2, <1>3
    <3>3. PageChunk(d, q, n)'
      BY <3>1, <3>2 DEF PageChunk, PageAt, MAX_SIZE
    <3> QED
      BY <3>3
  <2> QED
    BY <2>2, <2>4, <2>5
<1>8. LateInv'
  <2>1. \A d, e \in live' : d # e /\ d.at >= MAX_SIZE /\ e.at >= MAX_SIZE => Apart(d, e)
    BY <1>1 DEF LateInv
  <2> QED
    BY <2>1, <1>7 DEF LateInv, SlabChunk, PageChunk, Apart, PageAt, MAX_SIZE, Pages
<1>9. TypeInv'
  <2>1. \A d \in live' : d.at \in 0 .. PageAt(NPages) /\ d.size \in Sizes /\ d.got \in Nat
    BY <1>1, LessLive
  <2> QED
    BY <2>1, <1>1, <1>2 DEF TypeInv, TypeOK, Block, Order, Pages, PageAt, MAX_SIZE
<1> QED
  BY <1>1, <1>6, <1>8, <1>9, LessLive DEF KmallocInv

LEMMA NextInv == KmallocInv /\ [Next]_vars => KmallocInv'
<1> SUFFICES ASSUME KmallocInv, [Next]_vars PROVE KmallocInv'
  OBVIOUS
<1>1. CASE KmallocInit
  BY <1>1, InitStep
<1>2. CASE FreeMerge
  BY <1>2, MergeStep
<1>3. CASE FreeDone
  BY <1>3, DoneStep
<1>4. ASSUME NEW c \in live, KfreeEarly(c) PROVE KmallocInv'
  BY <1>4, KfreeEarlyStep
<1>5. ASSUME NEW c \in live, Kfree(c) PROVE KmallocInv'
  BY <1>5, KfreeStep
<1>6. ASSUME NEW size \in Sizes, KmallocEarly(size) PROVE KmallocInv'
  BY <1>6, EarlyStep
<1>7. ASSUME NEW size \in Sizes, NEW p \in Pages, KmallocPages(size, p) PROVE KmallocInv'
  BY <1>7, PagesStep
<1>8. ASSUME NEW size \in Sizes, NEW p \in Pages, NEW i \in 0 .. PAGE_SIZE \div MIN_SIZE - 1,
             KmallocSlab(size, p, i)
      PROVE  KmallocInv'
  <2>1. i \in Nat
    OBVIOUS
  <2> QED
    BY <1>8, <2>1, SlabStep
<1>9. CASE UNCHANGED vars
  <2>1. UNCHANGED <<free_lists, order, free, cur, init_kmem_cache, slab, live, short, mixed>>
    BY <1>9 DEF vars
  <2>2. Early' = Early
    BY <2>1 DEF Early, MAX_SIZE
  <2>3. TypeInv /\ ChunksTight /\ ShortInv
    BY DEF KmallocInv
  <2>4. TypeInv'
    BY <2>1, <2>3 DEF TypeInv, TypeOK, Block, Order, Pages, PageAt, MAX_SIZE
  <2>5. ChunksTight' /\ ShortInv'
    BY <2>1, <2>2, <2>3 DEF ChunksTight, ShortInv, KMEM_CACHE_MAX_SIZE
  <2>6. ASSUME ~mixed PROVE HeapInv'
    <3>1. HeapInv
      BY <2>6 DEF KmallocInv
    <3> QED
      BY <2>1, <2>2, <3>1, HeapSame
  <2>7. LateInv'
    <3>1. LateInv
      BY DEF KmallocInv
    <3> QED
      BY <2>1, <3>1 DEF LateInv, SlabChunk, PageChunk, Apart, PageAt, MAX_SIZE, Pages
  <2> QED
    BY <2>1, <2>4, <2>5, <2>6, <2>7 DEF KmallocInv
<1> QED
  BY <1>1, <1>2, <1>3, <1>4, <1>5, <1>6, <1>7, <1>8, <1>9 DEF Next

\* The inductive invariant: blocks and chunks tile block_buffer, no two free
\* buddies stay apart, and the later chunks lie apart in their pages.
THEOREM KmallocInvariant == Spec => []KmallocInv
BY InitInv, NextInv, PTL DEF Spec

----------------------------------------------------------------------------
(* ChunksTile *)

\* The bytes of a block are those of its units.
ByteSpan(b, k) == b * MIN_SIZE .. (b + 2^k) * MIN_SIZE - 1

LEMMA UnitOf ==
    ASSUME NEW b \in Nat, NEW k \in Order, NEW y \in Nat
    PROVE  y \in ByteSpan(b, k) <=> y \div MIN_SIZE \in Span(b, k)
<1> DEFINE u == y \div MIN_SIZE
           n == 2^k
<1>1. MIN_SIZE \in Nat \ {0} /\ n \in Nat \ {0}
  BY Consts, OrderType
<1>2. u \in Nat /\ u * MIN_SIZE <= y /\ y < u * MIN_SIZE + MIN_SIZE
  BY <1>1
<1> HIDE DEF u, n
<1>3. (u + 1) * MIN_SIZE = u * MIN_SIZE + MIN_SIZE /\ u * MIN_SIZE \in Nat
  BY <1>1, <1>2
<1>4. b * MIN_SIZE \in Nat /\ (b + n) * MIN_SIZE \in Nat
  BY <1>1
<1>5. ASSUME b * MIN_SIZE <= y, y < (b + n) * MIN_SIZE PROVE b <= u /\ u < b + n
  <2>1. b * MIN_SIZE < (u + 1) * MIN_SIZE /\ u * MIN_SIZE < (b + n) * MIN_SIZE
    <3> DEFINE B == b * MIN_SIZE
               M == u * MIN_SIZE
               E == (b + n) * MIN_SIZE
    <3>1. B \in Nat /\ M \in Nat /\ E \in Nat /\ B <= y /\ y < E /\ M <= y /\ y < M + MIN_SIZE
      BY <1>2, <1>3, <1>4, <1>5
    <3>2. (u + 1) * MIN_SIZE = M + MIN_SIZE
      BY <1>3
    <3> HIDE DEF B, M, E
    <3>3. B < M + MIN_SIZE /\ M < E
      BY <3>1, <1>1
    <3> QED
      BY <3>2, <3>3 DEF B, M, E
  <2>2. b < u + 1 /\ u < b + n
    <3>1. u + 1 \in Int /\ b + n \in Int
      BY <1>1, <1>2
    <3> QED
      BY <2>1, <3>1, <1>1, <1>2, MulLess
  <2> QED
    BY <2>2, <1>2
<1>6. ASSUME b <= u, u < b + n PROVE b * MIN_SIZE <= y /\ y < (b + n) * MIN_SIZE
  <2>1. b * MIN_SIZE <= u * MIN_SIZE /\ (u + 1) * MIN_SIZE <= (b + n) * MIN_SIZE
    <3>1. u + 1 <= b + n
      BY <1>1, <1>2, <1>6
    <3> QED
      BY <3>1, <1>1, <1>2, <1>6, MulUp
  <2> DEFINE B == b * MIN_SIZE
             M == u * MIN_SIZE
             E == (b + n) * MIN_SIZE
  <2>2. /\ B \in Nat /\ M \in Nat /\ E \in Nat /\ M <= y /\ y < M + MIN_SIZE
        /\ B <= M /\ M + MIN_SIZE <= E
    BY <2>1, <1>2, <1>3, <1>4
  <2> HIDE DEF B, M, E
  <2>3. B <= y /\ y < E
    BY <2>2, <1>1
  <2> QED
    BY <2>3 DEF B, M, E
<1>7. y \in ByteSpan(b, k) <=> b * MIN_SIZE <= y /\ y < (b + n) * MIN_SIZE
  <2>1. ByteSpan(b, k) = b * MIN_SIZE .. (b + n) * MIN_SIZE - 1
    BY DEF ByteSpan, n
  <2> QED
    BY <2>1, <1>4
<1>8. u \in Span(b, k) <=> b <= u /\ u < b + n
  BY <1>1, <1>2 DEF Span, n
<1> QED
  BY <1>5, <1>6, <1>7, <1>8 DEF u

LEMMA ByteNat ==
    ASSUME NEW b \in Nat, NEW k \in Order PROVE ByteSpan(b, k) \subseteq Nat
<1>1. b * MIN_SIZE \in Nat /\ (b + 2^k) * MIN_SIZE \in Int
  BY Consts, OrderType
<1> QED
  BY <1>1 DEF ByteSpan

LEMMA UnitInBlock ==
    ASSUME NEW y \in Nat PROVE y \div MIN_SIZE \in Block <=> y < MAX_SIZE
<1> DEFINE N == 2^MAX_ORDER
<1>1. N \in Nat \ {0} /\ MIN_SIZE \in Nat \ {0} /\ MAX_SIZE = N * MIN_SIZE /\ Block = 0 .. N - 1
  BY BlockNat, MaxSize, Consts
<1>2. MAX_ORDER \in Order /\ 0 \in Nat
  BY Consts DEF Order
<1>3. y \in ByteSpan(0, MAX_ORDER) <=> y \div MIN_SIZE \in Span(0, MAX_ORDER)
  BY <1>2, UnitOf
<1>4. ByteSpan(0, MAX_ORDER) = 0 .. MAX_SIZE - 1
  <2>1. ByteSpan(0, MAX_ORDER) = 0 * MIN_SIZE .. (0 + N) * MIN_SIZE - 1
    BY DEF ByteSpan
  <2> HIDE DEF N
  <2>2. 0 * MIN_SIZE = 0 /\ (0 + N) * MIN_SIZE = MAX_SIZE
    BY <1>1
  <2> QED
    BY <2>1, <2>2
<1>5. Span(0, MAX_ORDER) = Block
  BY <1>1 DEF Span
<1>6. MAX_SIZE \in Nat
  BY MaxSize
<1> QED
  BY <1>3, <1>4, <1>5, <1>6

LEMMA ByteApart ==
    ASSUME NEW b \in Nat, NEW k \in Order, NEW c \in Nat, NEW j \in Order,
           Span(b, k) \cap Span(c, j) = {}
    PROVE  ByteSpan(b, k) \cap ByteSpan(c, j) = {}
<1> SUFFICES ASSUME NEW y \in ByteSpan(b, k), y \in ByteSpan(c, j) PROVE FALSE
  OBVIOUS
<1>1. y \in Nat
  BY ByteNat
<1>2. y \div MIN_SIZE \in Span(b, k) /\ y \div MIN_SIZE \in Span(c, j)
  BY <1>1, UnitOf
<1> QED
  BY <1>2

\* The chunks of the slab caches and of alloc_pages
LEMMA LateBytes ==
    ASSUME KmallocInv, NEW c \in live \ Early, NEW d \in live \ Early, c # d
    PROVE  Bytes(c) \cap Bytes(d) = {}
<1>1. TypeOK /\ ChunksTight /\ LateInv
  BY DEF KmallocInv, TypeInv
<1>2. ASSUME NEW e \in live \ Early
      PROVE  /\ e.at \in Nat /\ e.got \in Nat /\ e.at >= MAX_SIZE
             /\ Bytes(e) = e.at .. e.at + e.got - 1
  <2>1. e.at \in Nat /\ e.got \in Nat /\ e.size \in Nat /\ MAX_SIZE \in Nat
    BY <1>1, LiveType, MaxSize
  <2>2. e.got >= e.size
    <3>1. e.got + 0 >= e.size
      BY <1>1 DEF ChunksTight
    <3> QED
      BY <2>1, <3>1
  <2> QED
    BY <2>1, <2>2 DEF Bytes, Early
<1>3. Apart(c, d)
  BY <1>1, <1>2 DEF LateInv
<1>4. /\ c.at \in Nat /\ c.got \in Nat /\ d.at \in Nat /\ d.got \in Nat
      /\ Bytes(c) = c.at .. c.at + c.got - 1 /\ Bytes(d) = d.at .. d.at + d.got - 1
  BY <1>2
<1> QED
  BY <1>3, <1>4 DEF Apart

LEMMA TileBytes == KmallocInv => ChunksTile
<1> SUFFICES ASSUME KmallocInv PROVE ChunksTile
  OBVIOUS
<1>1. TypeOK
  BY DEF KmallocInv, TypeInv
<1>l. \A c, d \in live \ Early : c # d => Bytes(c) \cap Bytes(d) = {}
  BY LateBytes
<1> SUFFICES ASSUME ~short, ~mixed
             PROVE  /\ \A c, d \in live : c # d => Bytes(c) \cap Bytes(d) = {}
                    /\ (UNION {Bytes(c) : c \in Early}) \cup (UNION {BlockBytes(b) : b \in Unowned})
                            = 0 .. MAX_SIZE - 1
                    /\ \A b \in Unowned, c \in Early : BlockBytes(b) \cap Bytes(c) = {}
                    /\ \A k \in Order : \A b \in ToSet(free_lists[k]) : order[b] = k
  BY <1>1, <1>l DEF ChunksTile
<1>2. /\ Tiles(Heads, order) /\ OwnedInv /\ ListsInv /\ LateInv
      /\ \A c \in live : c.size <= c.got
  BY DEF KmallocInv, HeapInv, ShortInv
<1>3. /\ Heads \subseteq Block /\ Unowned \subseteq Heads /\ Block \subseteq Nat /\ order \in [Block -> Order]
      /\ MAX_SIZE \in Nat
  BY <1>1, <1>2, HeadsType, BlockNat, MaxSize DEF TypeOK
<1>4. \A c \in live : Bytes(c) = c.at .. c.at + c.got - 1 /\ c.at \in Nat /\ c.got \in Nat
  <2> SUFFICES ASSUME NEW c \in live
               PROVE  Bytes(c) = c.at .. c.at + c.got - 1 /\ c.at \in Nat /\ c.got \in Nat
    OBVIOUS
  <2>1. c.at \in Nat /\ c.got \in Nat /\ c.size \in Nat /\ c.size <= c.got
    BY <1>1, <1>2, LiveType
  <2> QED
    BY <2>1 DEF Bytes
<1>5. ASSUME NEW c \in Early
      PROVE  /\ Unit(c) \in Heads /\ Unit(c) \notin Unowned /\ Unit(c) \in Nat
             /\ order[Unit(c)] \in Order /\ Bytes(c) = ByteSpan(Unit(c), order[Unit(c)])
             /\ c \in live
  <2>1. /\ Unit(c) \in Block /\ c.at = Unit(c) * MIN_SIZE /\ c.got = MIN_SIZE * 2^order[Unit(c)]
        /\ Unit(c) \notin Unowned
    BY <1>2 DEF OwnedInv
  <2>2. Unit(c) \in Heads /\ Unit(c) \in Nat /\ order[Unit(c)] \in Order /\ c \in live
    BY <2>1, <1>3 DEF Heads, Early
  <2> DEFINE b == Unit(c)
             P == 2^order[Unit(c)]
  <2>3. P \in Nat /\ MIN_SIZE \in Nat /\ b \in Nat /\ c.at = b * MIN_SIZE /\ c.got = MIN_SIZE * P
    BY <2>1, <2>2, OrderType, Consts
  <2>4. Bytes(c) = c.at .. c.at + c.got - 1
    BY <2>2, <1>4
  <2>5. ByteSpan(Unit(c), order[Unit(c)]) = b * MIN_SIZE .. (b + P) * MIN_SIZE - 1
    BY DEF ByteSpan
  <2> HIDE DEF b, P
  <2>6. (b + P) * MIN_SIZE = b * MIN_SIZE + MIN_SIZE * P
    BY <2>3
  <2> QED
    BY <2>1, <2>2, <2>3, <2>4, <2>5, <2>6
<1>6. \A b \in Unowned : b \in Nat /\ order[b] \in Order /\ BlockBytes(b) = ByteSpan(b, order[b])
  BY <1>3 DEF BlockBytes, ByteSpan
<1>7. \A p, q \in Heads : p # q => ByteSpan(p, order[p]) \cap ByteSpan(q, order[q]) = {}
  <2> SUFFICES ASSUME NEW p \in Heads, NEW q \in Heads, p # q
               PROVE  ByteSpan(p, order[p]) \cap ByteSpan(q, order[q]) = {}
    OBVIOUS
  <2>1. p \in Nat /\ q \in Nat /\ order[p] \in Order /\ order[q] \in Order
    BY <1>3
  <2>2. Span(p, order[p]) \cap Span(q, order[q]) = {}
    BY <1>2 DEF Tiles
  <2> QED
    BY <2>1, <2>2, ByteApart
<1>8. \A p \in Heads : ByteSpan(p, order[p]) \subseteq 0 .. MAX_SIZE - 1
  <2> SUFFICES ASSUME NEW p \in Heads, NEW y \in ByteSpan(p, order[p]) PROVE y \in 0 .. MAX_SIZE - 1
    OBVIOUS
  <2>1. p \in Nat /\ order[p] \in Order
    BY <1>3
  <2>2. y \in Nat
    BY <2>1, ByteNat
  <2>3. y \div MIN_SIZE \in Span(p, order[p])
    BY <2>1, <2>2, UnitOf
  <2>4. y \div MIN_SIZE \in Block
    BY <2>3, <1>2 DEF Tiles
  <2> QED
    BY <2>2, <2>4, <1>3, UnitInBlock
<1>9. ASSUME NEW c \in live, NEW d \in live, c # d PROVE Bytes(c) \cap Bytes(d) = {}
  <2>0. c.at \in Nat /\ d.at \in Nat /\ c.got \in Nat /\ d.got \in Nat
    BY <1>4
  <2>1. CASE c \in Early /\ d \in Early
    <3>1. Unit(c) # Unit(d)
      BY <2>1, <1>2, <1>9 DEF OwnedInv
    <3> QED
      BY <2>1, <3>1, <1>5, <1>7
  <2>2. CASE c \in Early /\ d \notin Early
    <3>1. Bytes(c) \subseteq 0 .. MAX_SIZE - 1
      BY <2>2, <1>5, <1>8
    <3>2. d.at >= MAX_SIZE /\ Bytes(d) = d.at .. d.at + d.got - 1
      BY <2>0, <2>2, <1>3, <1>4 DEF Early
    <3> QED
      BY <3>1, <3>2, <2>0, <1>3
  <2>3. CASE c \notin Early /\ d \in Early
    <3>1. Bytes(d) \subseteq 0 .. MAX_SIZE - 1
      BY <2>3, <1>5, <1>8
    <3>2. c.at >= MAX_SIZE /\ Bytes(c) = c.at .. c.at + c.got - 1
      BY <2>0, <2>3, <1>3, <1>4 DEF Early
    <3> QED
      BY <3>1, <3>2, <2>0, <1>3
  <2>4. CASE c \notin Early /\ d \notin Early
    <3>1. c.at >= MAX_SIZE /\ d.at >= MAX_SIZE
      BY <2>0, <2>4, <1>3 DEF Early
    <3>2. Apart(c, d)
      BY <3>1, <1>2, <1>9 DEF LateInv
    <3>3. Bytes(c) = c.at .. c.at + c.got - 1 /\ Bytes(d) = d.at .. d.at + d.got - 1
      BY <1>4
    <3> QED
      BY <3>2, <3>3, <2>0 DEF Apart
  <2> QED
    BY <2>1, <2>2, <2>3, <2>4
<1>10. (UNION {Bytes(c) : c \in Early}) \cup (UNION {BlockBytes(b) : b \in Unowned}) = 0 .. MAX_SIZE - 1
  <2>1. ASSUME NEW c \in Early PROVE Bytes(c) \subseteq 0 .. MAX_SIZE - 1
    BY <1>5, <1>8
  <2>2. ASSUME NEW b \in Unowned PROVE BlockBytes(b) \subseteq 0 .. MAX_SIZE - 1
    BY <1>3, <1>6, <1>8
  <2>3. ASSUME NEW y \in 0 .. MAX_SIZE - 1
        PROVE  (\E c \in Early : y \in Bytes(c)) \/ (\E b \in Unowned : y \in BlockBytes(b))
    <3>1. y \in Nat /\ y < MAX_SIZE
      BY <1>3
    <3>2. y \div MIN_SIZE \in Block
      BY <3>1, UnitInBlock
    <3>3. PICK p \in Heads : y \div MIN_SIZE \in Span(p, order[p])
      BY <3>2, <1>2 DEF Tiles
    <3>4. p \in Nat /\ order[p] \in Order
      BY <1>3
    <3>5. y \in ByteSpan(p, order[p])
      BY <3>1, <3>3, <3>4, UnitOf
    <3>6. CASE p \in Unowned
      BY <3>5, <3>6, <1>6
    <3>7. CASE p \notin Unowned
      <4>1. PICK c \in Early : p = Unit(c)
        BY <3>7 DEF Heads
      <4> QED
        BY <4>1, <3>5, <1>5
    <3> QED
      BY <3>6, <3>7
  <2> QED
    BY <2>1, <2>2, <2>3
<1>11. \A b \in Unowned, c \in Early : BlockBytes(b) \cap Bytes(c) = {}
  <2> SUFFICES ASSUME NEW b \in Unowned, NEW c \in Early PROVE BlockBytes(b) \cap Bytes(c) = {}
    OBVIOUS
  <2>1. b # Unit(c) /\ b \in Heads /\ Unit(c) \in Heads
    BY <1>3, <1>5
  <2> QED
    BY <2>1, <1>5, <1>6, <1>7
<1>12. \A k \in Order : \A b \in ToSet(free_lists[k]) : order[b] = k
  BY <1>2 DEF ListsInv
<1> QED
  BY <1>9, <1>10, <1>11, <1>12

\* What kmalloc gives after kmalloc_init never overlaps.  Until a chunk is too
\* short or unequal blocks are merged nothing that callers own does, and together
\* with the free blocks it tiles block_buffer, for every sequence of kmalloc and
\* kfree before and after kmalloc_init.
THEOREM ChunksTileCorrect == Spec => []ChunksTile
BY KmallocInvariant, TileBytes, PTL

\* kmalloc's order arithmetic (fls, ilog2_roundup, the rounding of kmalloc and
\* kmalloc_early) cuts no chunk short by a unit and wastes no more than half.
THEOREM ChunksTightCorrect == Spec => []ChunksTight
<1>1. KmallocInv => ChunksTight
  BY DEF KmallocInv
<1> QED
  BY <1>1, KmallocInvariant, PTL

----------------------------------------------------------------------------
(* EarlyCoalesces *)

\* In a tiling, the buddy of a smallest block is a block of the same order.
LEMMA SmallestPair ==
    ASSUME NEW B \in SUBSET Block, NEW ord, Tiles(B, ord), NEW p \in B, ord[p] < MAX_ORDER,
           \A q \in B : ord[p] <= ord[q]
    PROVE  \E lo \in B : \E hi \in B :
              ord[lo] = ord[p] /\ ord[hi] = ord[p] /\ Aligned(lo, ord[p] + 1) /\ hi = lo + 2^ord[p]
<1> DEFINE k == ord[p]
           b == Buddy(p, k)
           lo == IF b < p THEN b ELSE p
<1>1. /\ k \in 0 .. MAX_ORDER - 1 /\ p \in Block /\ Aligned(p, k) /\ B \subseteq Nat
      /\ k \in Nat /\ k \in Order
  <2>1. ord[p] \in Order /\ Aligned(p, ord[p])
    BY DEF Tiles
  <2>2. k \in Nat /\ MAX_ORDER \in Nat
    BY <2>1, OrderType, Consts
  <2>3. k < MAX_ORDER
    OBVIOUS
  <2> QED
    BY <2>1, <2>2, <2>3, BlockNat
<1>2. b \in B /\ b # p
  BY <1>1, TilesBuddy
<1>3. /\ lo \in Block /\ Aligned(b, k) /\ Aligned(lo, k + 1) /\ {p, b} = {lo, lo + 2^k}
  BY <1>1, BuddyHalf
<1>4. ord[p] = k
  OBVIOUS
<1> HIDE DEF b, lo, k
<1>5. ord[b] = k
  <2>1. ord[b] \in Order /\ Aligned(b, ord[b]) /\ k <= ord[b] /\ ord[b] \in Nat /\ b \in Nat
    BY <1>1, <1>2, <1>4, OrderType DEF Tiles
  <2> SUFFICES ASSUME k < ord[b] PROVE FALSE
    BY <2>1, <1>1
  <2>2. b \in Span(b, ord[b])
    BY <2>1, SpanStart
  <2>3. lo \in Nat /\ (lo \in Span(b, ord[b]) \/ lo + 2^k \in Span(b, ord[b]))
    BY <2>2, <1>3, BlockNat
  <2>4. lo \in Span(b, ord[b]) /\ lo + 2^k \in Span(b, ord[b])
    BY <2>1, <2>3, <1>1, <1>3, LargeBlock
  <2>5. p \in Span(b, ord[b])
    BY <2>4, <1>3
  <2>6. p = b
    BY <2>5, <1>1, <1>2, TilesStart
  <2> QED
    BY <2>6, <1>2
<1>6. lo \in B /\ lo + 2^k \in B /\ ord[lo] = k /\ ord[lo + 2^k] = k
  <2>1. lo \in {p, b} /\ lo + 2^k \in {p, b}
    BY <1>3
  <2> QED
    BY <2>1, <1>2, <1>4, <1>5
<1> QED
  BY <1>3, <1>4, <1>6

LEMMA CoalescesInv == KmallocInv => EarlyCoalesces
<1> SUFFICES ASSUME KmallocInv, ~mixed, cur = -1, Early = {} PROVE free_lists[MAX_ORDER] = <<0>>
  BY DEF EarlyCoalesces
<1>1. /\ TypeOK /\ Tiles(Heads, order) /\ OwnedInv /\ ListsInv /\ NoBuddies
      /\ \A x \in Block : x # 0 => order[x] < MAX_ORDER
  BY DEF KmallocInv, TypeInv, HeapInv
<1>2. Heads = Listed /\ Heads \subseteq Block
  <2>1. Heads \subseteq Block
    BY <1>1, HeadsType
  <2> QED
    BY <2>1 DEF Heads, Unowned
<1>3. /\ \A x \in Heads : order[x] \in Nat /\ order[x] <= MAX_ORDER
      /\ MAX_ORDER \in Nat /\ MAX_ORDER \in Order
  <2>1. \A x \in Heads : order[x] \in Order
    BY <1>1 DEF Tiles
  <2>2. MAX_ORDER \in Nat /\ MAX_ORDER \in Order
    BY Consts DEF Order
  <2> QED
    BY <2>1, <2>2, OrderType
<1>4. PICK p \in Heads : \A q \in Heads : order[p] <= order[q]
  <2> DEFINE T == {order[x] : x \in Heads}
  <2>1. Heads # {}
    <3>1. 0 \in Block
      BY BlockNat
    <3> QED
      BY <3>1, <1>1 DEF Tiles
  <2>2. T \in SUBSET Nat /\ T # {}
    BY <2>1, <1>3
  <2>3. PICK n \in T : \A m \in T : n <= m
    <3> HIDE DEF T
    <3> QED
      BY <2>2, NatMin
  <2> QED
    BY <2>3
<1>5. order[p] = MAX_ORDER
  <2> SUFFICES ASSUME order[p] < MAX_ORDER PROVE FALSE
    BY <1>3
  <2>1. PICK lo \in Heads : \E hi \in Heads :
              order[lo] = order[p] /\ order[hi] = order[p]
                /\ Aligned(lo, order[p] + 1) /\ hi = lo + 2^order[p]
    BY <1>1, <1>2, <1>4, SmallestPair
  <2>2. PICK hi \in Heads :
              order[lo] = order[p] /\ order[hi] = order[p]
                /\ Aligned(lo, order[p] + 1) /\ hi = lo + 2^order[p]
    BY <2>1
  <2> QED
    BY <2>2, <1>1, <1>2 DEF NoBuddies
<1>6. p = 0
  BY <1>1, <1>2, <1>3, <1>5
<1> DEFINE s == free_lists[MAX_ORDER]
<1>7. s \in Seq(Block) /\ Once(s)
  BY <1>1, <1>3, ListType DEF TypeOK, ListsInv
<1>8. 0 \in ToSet(s) /\ ToSet(s) \subseteq {0}
  <2>0. \A k \in Order : \A x \in ToSet(free_lists[k]) : order[x] = k
    BY <1>1 DEF ListsInv
  <2>1. PICK k \in Order : 0 \in ToSet(free_lists[k])
    BY <1>2, <1>6, InListed
  <2>2. k = MAX_ORDER
    BY <2>0, <2>1, <1>5, <1>6
  <2>3. ASSUME NEW x \in ToSet(s) PROVE x = 0
    <3>1. order[x] = MAX_ORDER /\ x \in Listed
      BY <2>0, <1>3, InListed
    <3>2. x \in Block
      BY <3>1, <1>2
    <3> QED
      BY <3>1, <3>2, <1>1, <1>3
  <2> QED
    BY <2>1, <2>2, <2>3
<1> HIDE DEF s
<1>9. \A i \in 1 .. Len(s) : s[i] = 0
  BY <1>7, <1>8, InToSet
<1>10. PICK i \in 1 .. Len(s) : 0 = s[i]
  BY <1>7, <1>8, InToSet
<1>11. Len(s) = 1
  <2>1. Len(s) \in Nat /\ 1 \in 1 .. Len(s)
    BY <1>7, <1>10
  <2>2. Len(s) \in 1 .. Len(s) /\ s[Len(s)] = s[1]
    BY <2>1, <1>9
  <2> QED
    BY <2>1, <2>2, <1>7 DEF Once
<1>12. s = <<0>>
  <2>1. 0 \in Block
    BY BlockNat
  <2>2. <<0>> \in Seq(Block) /\ Len(<<0>>) = 1 /\ <<0>>[1] = 0
    BY <2>1
  <2> DEFINE t == <<0>>
  <2>3. t \in Seq(Block) /\ Len(t) = 1 /\ t[1] = 0
    BY <2>2
  <2> HIDE DEF t
  <2>4. s = t
    BY <2>3, <1>7, <1>9, <1>11, SeqEqual
  <2> QED
    BY <2>4 DEF t
<1> QED
  BY <1>12 DEF s

\* free_blocks puts block_buffer together again: once every early chunk is freed
\* it is one block, whatever the order of the calls.
THEOREM EarlyCoalescesCorrect == Spec => []EarlyCoalesces
BY KmallocInvariant, CoalescesInv, PTL

=============================================================================
