---------------------------- MODULE Libs_proofs ----------------------------
(* libs/: the spinlock, for every set of CPUs and any handlers; the ring of  *)
(* libs/fifo.c, for every size and every interleaving of its producer and    *)
(* its consumer; the growing ring of libs/queue.c, which implements an       *)
(* unbounded queue for every capacity it starts with and however often it    *)
(* grows; strings, vectors and kssplit for every minimal size and every      *)
(* line.                                                                     *)
EXTENDS SpinLock, Fifo, Queue, Strings, SequenceTheorems, WellFoundedInduction, TLAPS

(* The spinlock *)

\* MutualExclusion alone does not say why a cmpxchg that succeeds finds nobody
\* inside: the counter is 0 exactly when nobody is.
LockInv ==
    /\ LockTypeOK /\ MutualExclusion
    /\ \A p \in Proc : pc[p] = "in" => counter = 1

\* A step that neither touches the counter nor enters keeps the invariant.
LEMMA OutsideStep ==
    ASSUME LockInv, NEW p \in Proc, NEW l \in {"off", "out", "read", "cmpxchg"},
           Goto(p, l), UNCHANGED counter
    PROVE  LockInv'
BY DEF LockInv, LockTypeOK, MutualExclusion, Goto

\* Between spin_lock and spin_unlock a context is alone, for any number of CPUs
\* and any interrupts.
THEOREM LockExcludes == LockSpec => [](LockTypeOK /\ MutualExclusion)
<1>1. LockInit => LockInv
  BY DEF LockInit, LockInv, LockTypeOK, MutualExclusion
<1>2. LockInv /\ [LockNext]_lockVars => LockInv'
  <2> SUFFICES ASSUME LockInv, [LockNext]_lockVars PROVE LockInv'
    OBVIOUS
  <2>1. ASSUME NEW p \in Proc, Call(p) PROVE LockInv'
    BY <2>1, OutsideStep DEF Call
  <2>2. ASSUME NEW p \in Proc, ReadCounter(p) PROVE LockInv'
    BY <2>2, OutsideStep DEF ReadCounter
  <2>3. ASSUME NEW p \in Proc, Cmpxchg(p) PROVE LockInv'
    <3>1. CASE counter = 0
      <4>1. \A q \in Proc : pc[q] # "in"
        BY <3>1 DEF LockInv
      <4>2. counter' = 1 /\ pc' = [pc EXCEPT ![p] = "in"]
        BY <2>3, <3>1 DEF Cmpxchg, Goto
      <4> QED
        BY <4>1, <4>2 DEF LockInv, LockTypeOK, MutualExclusion
    <3>2. CASE counter # 0
      BY <2>3, <3>2, OutsideStep DEF Cmpxchg
    <3> QED
      BY <3>1, <3>2
  <2>4. ASSUME NEW p \in Proc, Unlock(p) PROVE LockInv'
    <3>1. \A q \in Proc : q # p => pc[q] # "in"
      BY <2>4 DEF Unlock, LockInv, MutualExclusion
    <3>2. counter' = 0 /\ pc' = [pc EXCEPT ![p] = "out"]
      BY <2>4 DEF Unlock, Goto
    <3> QED
      BY <3>1, <3>2 DEF LockInv, LockTypeOK, MutualExclusion
  <2>5. ASSUME NEW c \in CPU, Interrupt(c) \/ Return(c) PROVE LockInv'
    <3>1. <<c, "irq">> \in Proc
      BY DEF Proc, Context
    <3> QED
      BY <2>5, <3>1, OutsideStep DEF Interrupt, Return
  <2>6. CASE UNCHANGED lockVars
    BY <2>6 DEF LockInv, LockTypeOK, MutualExclusion, lockVars
  <2> QED
    BY <2>1, <2>2, <2>3, <2>4, <2>5, <2>6 DEF LockNext
<1>3. LockInv => LockTypeOK /\ MutualExclusion
  BY DEF LockInv
<1> QED
  BY <1>1, <1>2, <1>3, PTL DEF LockSpec

-----------------------------------------------------------------------------
(* The ring *)

FifoInv == FifoTypeOK /\ NoOverrun /\ StreamIntact /\ (op = "none" => clen = 0)

LEMMA RingIndexIs ==
    ASSUME NEW x \in Nat, x < 2 * Size
    PROVE  /\ x % Size = IF x < Size THEN x ELSE x - Size
           /\ x % Size \in Index
<1>1. Size \in Nat \ {0}
  BY SizeAssumption
<1>2. CASE x < Size
  BY <1>1, <1>2 DEF Index
<1>3. CASE x >= Size
  <2>1. x = 1 * Size + (x - Size) /\ x - Size \in 0 .. Size - 1
    BY <1>1, <1>3
  <2> QED
    BY <1>1, <1>3, <2>1 DEF Index
<1> QED
  BY <1>1, <1>2, <1>3

LEMMA ModSum ==
    \A a, n \in Index :
        /\ (a + n) % Size = IF a + n < Size THEN a + n ELSE a + n - Size
        /\ (a + n) % Size \in Index
<1> SUFFICES ASSUME NEW a \in Index, NEW n \in Index
             PROVE  /\ (a + n) % Size = IF a + n < Size THEN a + n ELSE a + n - Size
                    /\ (a + n) % Size \in Index
  OBVIOUS
<1> DEFINE x == a + n
<1>1. x \in Nat /\ x < 2 * Size
  BY SizeAssumption DEF Index
<1> HIDE DEF x
<1>2. x % Size = (IF x < Size THEN x ELSE x - Size) /\ x % Size \in Index
  BY <1>1, RingIndexIs
<1> QED
  BY <1>2, SizeAssumption DEF x, Index

LEMMA Fill ==
    \A i, o \in Index :
        /\ (i + Size - o) % Size = IF i >= o THEN i - o ELSE i - o + Size
        /\ (i + Size - o) % Size \in Index
<1> SUFFICES ASSUME NEW i \in Index, NEW o \in Index
             PROVE  /\ (i + Size - o) % Size = IF i >= o THEN i - o ELSE i - o + Size
                    /\ (i + Size - o) % Size \in Index
  OBVIOUS
<1> DEFINE x == i + Size - o
<1>1. x \in Nat /\ x < 2 * Size
  BY SizeAssumption DEF Index
<1> HIDE DEF x
<1>2. x % Size = (IF x < Size THEN x ELSE x - Size) /\ x % Size \in Index
  BY <1>1, RingIndexIs
<1> QED
  BY <1>2, SizeAssumption DEF x, Index

\* Going on from an index that was reached by j bytes.
LEMMA ModAdd ==
    ASSUME NEW a \in Index, NEW j \in Index, NEW k \in Index, j + k < Size
    PROVE  (((a + j) % Size) + k) % Size = (a + (j + k)) % Size
<1>1. Size \in Nat \ {0}
  BY SizeAssumption
<1> DEFINE b == (a + j) % Size
<1>2. b \in Index /\ b = IF a + j < Size THEN a + j ELSE a + j - Size
  BY ModSum
<1> HIDE DEF b
<1>3. (b + k) % Size = IF b + k < Size THEN b + k ELSE b + k - Size
  BY <1>2, ModSum
<1>4. j + k \in Index
  BY <1>1 DEF Index
<1>5. (a + (j + k)) % Size = IF a + (j + k) < Size THEN a + (j + k) ELSE a + (j + k) - Size
  BY <1>4, ModSum
<1>6. (b + k) % Size = (a + (j + k)) % Size
  BY <1>1, <1>2, <1>3, <1>5 DEF Index
<1> QED
  BY <1>6 DEF b

\* Different distances from the same index are different places.
LEMMA ModDiffer ==
    ASSUME NEW a \in Index, NEW j \in Index, NEW k \in Index, j # k
    PROVE  (a + j) % Size # (a + k) % Size
<1>1. (a + j) % Size = IF a + j < Size THEN a + j ELSE a + j - Size
  BY ModSum
<1>2. (a + k) % Size = IF a + k < Size THEN a + k ELSE a + k - Size
  BY ModSum
<1> QED
  BY <1>1, <1>2, SizeAssumption DEF Index

LEMMA LenIs ==
    ASSUME in \in Index, out \in Index
    PROVE  /\ fifo_len = IF in >= out THEN in - out ELSE in - out + Size
           /\ fifo_len \in Index
           /\ in = (out + fifo_len) % Size
<1>1. /\ fifo_len = IF in >= out THEN in - out ELSE in - out + Size
      /\ fifo_len \in Index
  BY Fill DEF fifo_len
<1>2. (out + fifo_len) % Size = IF out + fifo_len < Size THEN out + fifo_len
                                ELSE out + fifo_len - Size
  BY <1>1, ModSum
<1> QED
  BY <1>1, <1>2, SizeAssumption DEF Index

\* Moving in forward by n grows the fill by n, moving out shrinks it.
LEMMA LenAfterIn ==
    ASSUME in \in Index, out \in Index, NEW n \in Index, fifo_len + n < Size,
           in' = (in + n) % Size, out' = out
    PROVE  in' \in Index /\ fifo_len' = fifo_len + n
<1>1. in' \in Index /\ in' = IF in + n < Size THEN in + n ELSE in + n - Size
  BY ModSum
<1>2. fifo_len = IF in >= out THEN in - out ELSE in - out + Size
  BY LenIs
<1>3. fifo_len' = IF in' >= out' THEN in' - out' ELSE in' - out' + Size
  BY <1>1, Fill DEF fifo_len
<1> QED
  BY <1>1, <1>2, <1>3, SizeAssumption DEF Index

LEMMA LenAfterOut ==
    ASSUME in \in Index, out \in Index, NEW n \in Index, n <= fifo_len,
           out' = (out + n) % Size, in' = in
    PROVE  out' \in Index /\ fifo_len' = fifo_len - n
<1>1. out' \in Index /\ out' = IF out + n < Size THEN out + n ELSE out + n - Size
  BY ModSum
<1>2. fifo_len = IF in >= out THEN in - out ELSE in - out + Size
  BY LenIs
<1>3. fifo_len' = IF in' >= out' THEN in' - out' ELSE in' - out' + Size
  BY <1>1, Fill DEF fifo_len
<1> QED
  BY <1>1, <1>2, <1>3, SizeAssumption DEF Index

\* The three parts of StreamIntact, and of the invariant.
LEMMA InitFifoInv == FifoInit => FifoInv
<1> SUFFICES ASSUME FifoInit PROVE FifoInv
  OBVIOUS
<1>1. 0 \in Index
  BY SizeAssumption DEF Index
<1>2. fifo_len = 0
  <2>1. fifo_len = IF in >= out THEN in - out ELSE in - out + Size
    BY <1>1, LenIs DEF FifoInit
  <2> QED
    BY <2>1 DEF FifoInit
<1>3. FifoTypeOK
  BY <1>1 DEF FifoInit, FifoTypeOK
<1>4. NoOverrun
  BY <1>2, SizeAssumption DEF FifoInit, NoOverrun
<1>5. StreamIntact
  BY <1>2, SizeAssumption DEF FifoInit, StreamIntact
<1> QED
  BY <1>3, <1>4, <1>5 DEF FifoInv, FifoInit

LEMMA ProducerInv == FifoInv /\ Producer => FifoInv'
<1> SUFFICES ASSUME FifoInv, Producer PROVE FifoInv'
  OBVIOUS
<1> USE DEF FifoInv
<1>0. /\ Size \in Nat \ {0} /\ in \in Index /\ out \in Index
      /\ fifo_len \in Index /\ in = (out + fifo_len) % Size
      /\ sent \in Nat /\ plen \in Index /\ pk \in 0 .. plen
      /\ fifo_len + plen <= Size - 1 /\ data \in [Index -> Nat]
  BY SizeAssumption, LenIs DEF FifoTypeOK, NoOverrun
<1>1. ASSUME NEW n \in 1 .. Size, InCheck(n) PROVE FifoInv'
  <2>1. /\ plen' = n /\ pk' = 0 /\ fifo_len' = fifo_len
        /\ UNCHANGED <<in, out, data, sent, op, clen, ck, dst, last>>
    BY <1>1 DEF InCheck, cons, fifo_len
  <2>2. fifo_len + n <= Size - 1 /\ n \in Index
    BY <1>1, <1>0 DEF InCheck, fifo_avail, Index
  <2>3. FifoTypeOK'
    BY <2>1, <2>2, <1>0 DEF FifoTypeOK, Index
  <2>4. NoOverrun'
    BY <2>1, <2>2 DEF NoOverrun
  <2>5. StreamIntact'
    BY <2>1, <1>0 DEF StreamIntact
  <2> QED
    BY <2>1, <2>3, <2>4, <2>5
<1>2. CASE InCopy
  <2>1. /\ pk < plen /\ pk' = pk + 1 /\ fifo_len' = fifo_len
        /\ data' = [data EXCEPT ![(in + pk) % Size] = sent + pk]
        /\ UNCHANGED <<in, out, sent, plen, op, clen, ck, dst, last>>
    BY <1>2 DEF InCopy, cons, fifo_len
  <2>2. pk \in Index /\ (in + pk) % Size \in Index
    <3>1. pk \in Index
      BY <2>1, <1>0 DEF Index
    <3> QED
      BY <3>1, <1>0, ModSum
  <2>3. FifoTypeOK'
    BY <2>1, <2>2, <1>0, SMTT(30) DEF FifoTypeOK, Index
  <2>4. NoOverrun'
    BY <2>1 DEF NoOverrun
  <2>5. \A k \in 0 .. Size - 1 : k < fifo_len => (out + k) % Size # (in + pk) % Size
    <3> SUFFICES ASSUME NEW k \in 0 .. Size - 1, k < fifo_len
                 PROVE  (out + k) % Size # (in + pk) % Size
      OBVIOUS
    <3>1. (in + pk) % Size = (out + (fifo_len + pk)) % Size
      <4>1. fifo_len + pk < Size
        BY <2>1, <1>0 DEF Index
      <4> QED
        BY <4>1, <2>2, <1>0, ModAdd
    <3>2. k \in Index /\ fifo_len + pk \in Index /\ k # fifo_len + pk
      BY <2>1, <1>0 DEF Index
    <3>3. (out + k) % Size # (out + (fifo_len + pk)) % Size
      BY <3>2, <1>0, ModDiffer
    <3> QED
      BY <3>1, <3>3
  <2>6. \A k \in 0 .. Size - 1 : k < pk => (in + k) % Size # (in + pk) % Size
    <3> SUFFICES ASSUME NEW k \in 0 .. Size - 1, k < pk
                 PROVE  (in + k) % Size # (in + pk) % Size
      OBVIOUS
    <3>1. k \in Index /\ k # pk
      BY <2>2, <1>0 DEF Index
    <3> QED
      BY <3>1, <2>2, <1>0, ModDiffer
  <2>7. \A k \in 0 .. Size - 1 : (out + k) % Size \in Index /\ (in + k) % Size \in Index
    BY <1>0, ModSum DEF Index
  <2>8. \A k \in 0 .. Size - 1 :
          k < fifo_len => data'[(out + k) % Size] = sent - fifo_len + k
    BY <2>1, <2>2, <2>5, <2>7, <1>0 DEF StreamIntact
  <2>9. \A k \in 0 .. Size - 1 : k < pk + 1 => data'[(in + k) % Size] = sent + k
    <3> SUFFICES ASSUME NEW k \in 0 .. Size - 1, k < pk + 1
                 PROVE  data'[(in + k) % Size] = sent + k
      OBVIOUS
    <3>1. CASE k = pk
      BY <3>1, <2>1, <2>2, <1>0
    <3>2. CASE k < pk
      BY <3>2, <2>1, <2>2, <2>6, <2>7, <1>0 DEF StreamIntact
    <3> QED
      BY <3>1, <3>2, <1>0
  <2>10. StreamIntact'
    BY <2>1, <2>8, <2>9 DEF StreamIntact
  <2> QED
    BY <2>1, <2>3, <2>4, <2>10
<1>3. CASE InPublish
  <2>1. /\ plen > 0 /\ pk = plen /\ in' = (in + plen) % Size
        /\ sent' = sent + plen /\ plen' = 0 /\ pk' = 0
        /\ UNCHANGED <<out, data, op, clen, ck, dst, last>>
    BY <1>3 DEF InPublish, cons
  <2>2. in' \in Index /\ fifo_len' = fifo_len + plen
    <3>1. fifo_len + plen < Size
      BY <1>0 DEF Index
    <3> QED
      BY <3>1, <2>1, <1>0, LenAfterIn
  <2>3. FifoTypeOK'
    BY <2>1, <2>2, <1>0, SMTT(30) DEF FifoTypeOK, Index
  <2>4. NoOverrun'
    BY <2>1, <2>2, <1>0 DEF NoOverrun, FifoTypeOK, Index
  <2>5. sent' - fifo_len' = sent - fifo_len
    BY <2>1, <2>2, <1>0 DEF Index
  <2>6. \A k \in 0 .. Size - 1 :
          k < fifo_len' => data'[(out' + k) % Size] = sent' - fifo_len' + k
    <3> SUFFICES ASSUME NEW k \in 0 .. Size - 1, k < fifo_len'
                 PROVE  data[(out + k) % Size] = sent - fifo_len + k
      BY <2>1, <2>5
    <3>1. CASE k < fifo_len
      BY <3>1 DEF StreamIntact
    <3>2. CASE k >= fifo_len
      <4> DEFINE d == k - fifo_len
      <4>1. /\ d \in Index /\ d < pk /\ fifo_len + d < Size /\ fifo_len + d = k
            /\ d \in 0 .. Size - 1
        BY <3>2, <2>1, <2>2, <1>0 DEF Index
      <4> HIDE DEF d
      <4>2. (in + d) % Size = (out + (fifo_len + d)) % Size
        BY <4>1, <1>0, ModAdd
      <4>3. data[(in + d) % Size] = sent + d
        BY <4>1 DEF StreamIntact
      <4>4. data[(out + k) % Size] = sent + d
        BY <4>1, <4>2, <4>3
      <4>5. sent + d = sent - fifo_len + k
        BY <4>1, <1>0 DEF Index
      <4> QED
        BY <4>4, <4>5
    <3> QED
      BY <3>1, <3>2, <1>0 DEF Index
  <2>7. StreamIntact'
    BY <2>1, <2>5, <2>6 DEF StreamIntact
  <2> QED
    BY <2>1, <2>3, <2>4, <2>7
<1> QED
  BY <1>1, <1>2, <1>3 DEF Producer

\* Moving out past n bytes leaves the rest of the stream in place.
LEMMA OutMoves ==
    ASSUME FifoInv, NEW n \in Index, n <= fifo_len, out' = (out + n) % Size,
           UNCHANGED <<in, data, sent, plen, pk>>, clen' = 0, ck' = 0
    PROVE  out' \in Index /\ NoOverrun' /\ StreamIntact'
<1>0. /\ Size \in Nat \ {0} /\ in \in Index /\ out \in Index
      /\ fifo_len \in Index /\ sent \in Nat /\ plen \in Index
      /\ fifo_len + plen <= Size - 1
  BY SizeAssumption, LenIs DEF FifoInv, FifoTypeOK, NoOverrun
<1>1. out' \in Index /\ fifo_len' = fifo_len - n
  BY <1>0, LenAfterOut
<1>2. NoOverrun'
  BY <1>0, <1>1 DEF NoOverrun, Index
<1>3. \A k \in 0 .. Size - 1 :
        k < fifo_len' => data'[(out' + k) % Size] = sent' - fifo_len' + k
  <2> SUFFICES ASSUME NEW k \in 0 .. Size - 1, k < fifo_len'
               PROVE  data[(((out + n) % Size) + k) % Size] = sent - (fifo_len - n) + k
    BY <1>1
  <2>1. /\ k \in Index /\ n + k < Size /\ n + k < fifo_len
        /\ n + k \in 0 .. Size - 1
    BY <1>0, <1>1 DEF Index
  <2>2. (((out + n) % Size) + k) % Size = (out + (n + k)) % Size
    BY <2>1, <1>0, ModAdd
  <2>3. data[(out + (n + k)) % Size] = sent - fifo_len + (n + k)
    BY <2>1 DEF FifoInv, StreamIntact
  <2>4. sent - fifo_len + (n + k) = sent - (fifo_len - n) + k
    BY <1>0, <2>1 DEF Index
  <2> QED
    BY <2>2, <2>3, <2>4
<1>4. StreamIntact'
  BY <1>3, <1>0 DEF FifoInv, StreamIntact
<1> QED
  BY <1>1, <1>2, <1>4

LEMMA ConsumerInv == FifoInv /\ Consumer => FifoInv'
<1> SUFFICES ASSUME FifoInv, Consumer PROVE FifoInv'
  OBVIOUS
<1> USE DEF FifoInv
<1>0. /\ Size \in Nat \ {0} /\ in \in Index /\ out \in Index
      /\ fifo_len \in Index /\ sent \in Nat /\ data \in [Index -> Nat]
      /\ clen \in Index /\ ck \in 0 .. clen /\ clen <= fifo_len
      /\ dst \in [Index -> Nat] /\ 0 \in Index
  <2>1. 0 \in Index
    BY SizeAssumption DEF Index
  <2> QED
    BY <2>1, SizeAssumption, LenIs DEF FifoTypeOK, NoOverrun
<1>1. ASSUME NEW n \in 1 .. Size, NEW o \in {"out", "peek"}, OutCheck(n, o)
      PROVE  FifoInv'
  <2>1. /\ op' = o /\ clen' = n /\ ck' = 0 /\ fifo_len' = fifo_len /\ n <= fifo_len
        /\ UNCHANGED <<in, out, data, sent, plen, pk, dst, last>>
    BY <1>1, <1>0 DEF OutCheck, prod, fifo_len, Index
  <2>2. n \in Index
    BY <2>1, <1>0 DEF Index
  <2>3. FifoTypeOK'
    BY <2>1, <2>2 DEF FifoTypeOK, Index
  <2>4. NoOverrun' /\ StreamIntact'
    BY <2>1, <1>0 DEF NoOverrun, StreamIntact
  <2> QED
    BY <2>1, <2>3, <2>4
<1>2. CASE OutCopy
  <2>1. /\ ck < clen /\ ck' = ck + 1 /\ fifo_len' = fifo_len
        /\ dst' = [dst EXCEPT ![ck] = data[(out + ck) % Size]]
        /\ UNCHANGED <<in, out, data, sent, plen, pk, op, clen, last>>
    BY <1>2 DEF OutCopy, prod, fifo_len
  <2>2. ck \in Index /\ (out + ck) % Size \in Index
    <3>1. ck \in Index
      BY <2>1, <1>0 DEF Index
    <3> QED
      BY <3>1, <1>0, ModSum
  <2>3. FifoTypeOK'
    BY <2>1, <2>2, <1>0 DEF FifoTypeOK, Index
  <2>4. data[(out + ck) % Size] = sent - fifo_len + ck
    <3>1. ck \in 0 .. Size - 1 /\ ck < fifo_len
      BY <2>1, <2>2, <1>0 DEF Index
    <3> QED
      BY <3>1 DEF StreamIntact
  <2>5. \A k \in 0 .. Size - 1 : k < ck + 1 => dst'[k] = sent - fifo_len + k
    <3> SUFFICES ASSUME NEW k \in 0 .. Size - 1, k < ck + 1
                 PROVE  dst'[k] = sent - fifo_len + k
      OBVIOUS
    <3>1. CASE k = ck
      BY <3>1, <2>1, <2>2, <2>4, <1>0
    <3>2. CASE k < ck
      BY <3>2, <2>1, <2>2, <1>0 DEF StreamIntact, Index
    <3> QED
      BY <3>1, <3>2, <1>0
  <2>6. NoOverrun' /\ StreamIntact'
    BY <2>1, <2>5 DEF NoOverrun, StreamIntact
  <2> QED
    BY <2>1, <2>3, <2>6
<1>3. CASE OutPublish
  <2>1. /\ op' = "none" /\ clen' = 0 /\ ck' = 0
        /\ dst' = [i \in Index |-> 0]
        /\ last' = [k \in 1 .. clen |-> dst[k - 1]]
        /\ UNCHANGED <<in, data, sent, plen, pk>>
    BY <1>3 DEF OutPublish, prod
  <2>2. last' \in Seq(Nat)
    <3>1. \A k \in 1 .. clen : k - 1 \in Index
      BY <1>0 DEF Index
    <3>2. \A k \in 1 .. clen : dst[k - 1] \in Nat
      BY <3>1, <1>0
    <3>3. clen \in Nat
      BY <1>0 DEF Index
    <3> QED
      BY <2>1, <3>2, <3>3
  <2>3. out' \in Index /\ NoOverrun' /\ StreamIntact'
    <3>1. CASE op = "out"
      BY <3>1, <2>1, <1>3, <1>0, OutMoves DEF OutPublish
    <3>2. CASE op # "out"
      <4>1. out' = out /\ fifo_len' = fifo_len
        BY <3>2, <2>1, <1>3 DEF OutPublish, fifo_len
      <4> QED
        BY <4>1, <2>1, <1>0 DEF NoOverrun, StreamIntact, Index
    <3> QED
      BY <3>1, <3>2
  <2>4. FifoTypeOK'
    BY <2>1, <2>2, <2>3, <1>0 DEF FifoTypeOK
  <2> QED
    BY <2>1, <2>3, <2>4
<1>4. ASSUME NEW n \in 1 .. Size, fifo_skip(n) PROVE FifoInv'
  <2>1. /\ op = "none" /\ n <= fifo_len /\ out' = (out + n) % Size
        /\ UNCHANGED <<in, data, sent, plen, pk, op, clen, ck, dst, last>>
    BY <1>4, <1>0 DEF fifo_skip, prod, cons, Index
  <2>2. n \in Index /\ clen' = 0 /\ ck' = 0
    BY <2>1, <1>0 DEF Index
  <2>3. out' \in Index /\ NoOverrun' /\ StreamIntact'
    BY <2>1, <2>2, OutMoves
  <2> QED
    BY <2>1, <2>3 DEF FifoTypeOK
<1> QED
  BY <1>1, <1>2, <1>3, <1>4 DEF Consumer

\* For every size of the ring and every interleaving of one producer and one
\* consumer: neither side touches bytes the other one is using, and what the
\* consumer copies is the producer's stream, in order and complete.
THEOREM FifoCorrect == FifoRingSpec => [](FifoTypeOK /\ NoOverrun /\ StreamIntact)
<1>1. FifoInit => FifoInv
  BY InitFifoInv
<1>2. FifoInv /\ [FifoNext]_fifoVars => FifoInv'
  <2> SUFFICES ASSUME FifoInv, [FifoNext]_fifoVars PROVE FifoInv'
    OBVIOUS
  <2>1. CASE UNCHANGED fifoVars
    <3>1. fifo_len' = fifo_len
      BY <2>1 DEF fifoVars, fifo_len
    <3> QED
      BY <2>1, <3>1 DEF FifoInv, FifoTypeOK, NoOverrun, StreamIntact, fifoVars
  <2> QED
    BY <2>1, ProducerInv, ConsumerInv DEF FifoNext
<1>3. FifoInv => FifoTypeOK /\ NoOverrun /\ StreamIntact
  BY DEF FifoInv
<1> QED
  BY <1>1, <1>2, <1>3, PTL DEF FifoRingSpec

----------------------------------------------------------------------------
(* Refinement.  The bytes between out and in are, by StreamIntact, a piece of *)
(* the stream, so the queue the ring stands for is known from sent and        *)
(* fifo_len alone, and the copying steps leave it as it is.                   *)

\* the last n of the first s bytes of the stream
Piece(s, n) == [k \in 1 .. n |-> s - n + k - 1]

Ring == [k \in 1 .. fifo_len |-> data[(out + k - 1) % Size]]

RefInv ==
    /\ FifoInv
    /\ sent + plen <= MaxSent
    /\ op # "none" => clen > 0

LEMMA PieceLen ==
    ASSUME NEW s \in Nat, NEW n \in Nat
    PROVE  /\ Piece(s, n) \in Seq(Int) /\ Len(Piece(s, n)) = n
           /\ \A k \in 1 .. n : Piece(s, n)[k] = s - n + k - 1
BY DEF Piece

LEMMA PiecePut ==
    ASSUME NEW s \in Nat, NEW n \in Nat, NEW m \in Nat
    PROVE  Piece(s + m, n + m) = Piece(s, n) \o [k \in 1 .. m |-> s + k - 1]
<1> DEFINE A == Piece(s + m, n + m)
           B == Piece(s, n)
           C == [k \in 1 .. m |-> s + k - 1]
<1>1. C \in Seq(Int) /\ Len(C) = m /\ \A k \in 1 .. m : C[k] = s + k - 1
  OBVIOUS
<1>2. /\ B \in Seq(Int) /\ Len(B) = n /\ \A k \in 1 .. n : B[k] = s - n + k - 1
  BY PieceLen
<1>3. /\ A \in Seq(Int) /\ Len(A) = n + m
      /\ \A k \in 1 .. n + m : A[k] = (s + m) - (n + m) + k - 1
  <2>1. s + m \in Nat /\ n + m \in Nat
    OBVIOUS
  <2> QED
    BY <2>1, PieceLen
<1> HIDE DEF A, B, C
<1>4. B \o C \in Seq(Int) /\ Len(B \o C) = n + m
  BY <1>1, <1>2, ConcatProperties
<1>5. \A k \in 1 .. n + m : (B \o C)[k] = A[k]
  <2> SUFFICES ASSUME NEW k \in 1 .. n + m PROVE (B \o C)[k] = A[k]
    OBVIOUS
  <2>1. CASE k <= n
    <3>1. (B \o C)[k] = B[k] /\ k \in 1 .. n
      BY <1>1, <1>2, <2>1
    <3> QED
      BY <1>2, <1>3, <3>1
  <2>2. CASE k > n
    <3>1. (B \o C)[k] = C[k - n] /\ k - n \in 1 .. m
      BY <1>1, <1>2, <2>2
    <3>2. C[k - n] = s + (k - n) - 1
      BY <1>1, <3>1
    <3> QED
      BY <1>3, <3>1, <3>2
  <2>3. k <= n \/ k > n
    OBVIOUS
  <2> QED
    BY <2>1, <2>2, <2>3
<1> DEFINE D == B \o C
<1>6. A = D
  <2>1. D \in Seq(Int) /\ Len(D) = Len(A) /\ \A k \in 1 .. Len(A) : A[k] = D[k]
    BY <1>3, <1>4, <1>5
  <2> HIDE DEF D
  <2> QED
    BY <1>3, <2>1, SeqEqual
<1> QED
  BY <1>6 DEF A, B, C

LEMMA PieceCut ==
    ASSUME NEW s \in Nat, NEW n \in Nat, NEW m \in Nat, m <= n
    PROVE  /\ SubSeq(Piece(s, n), 1, m) = [k \in 1 .. m |-> s - n + k - 1]
           /\ SubSeq(Piece(s, n), m + 1, n) = Piece(s, n - m)
<1> DEFINE B == Piece(s, n)
<1>1. B \in Seq(Int) /\ Len(B) = n /\ \A k \in 1 .. n : B[k] = s - n + k - 1
  BY PieceLen
<1> HIDE DEF B
<1>2. SubSeq(B, 1, m) = [k \in 1 .. m |-> s - n + k - 1]
  <2>1. SubSeq(B, 1, m) = [k \in 1 .. m |-> B[k]]
    BY <1>1
  <2>2. \A k \in 1 .. m : B[k] = s - n + k - 1
    BY <1>1
  <2> QED
    BY <2>1, <2>2
<1>3. SubSeq(B, m + 1, n) = Piece(s, n - m)
  <2>1. SubSeq(B, m + 1, n) = [k \in 1 .. n - m |-> B[k + m]]
    BY <1>1
  <2>2. \A k \in 1 .. n - m : B[k + m] = s - (n - m) + k - 1
    BY <1>1
  <2> QED
    BY <2>1, <2>2 DEF Piece
<1> QED
  BY <1>2, <1>3 DEF B

LEMMA RingIs ==
    ASSUME FifoInv
    PROVE  Ring = Piece(sent, fifo_len) /\ fifo_len \in Nat /\ sent \in Nat /\ Len(Ring) = fifo_len
<1>1. fifo_len \in Index /\ sent \in Nat /\ out \in Index /\ Size \in Nat
  BY LenIs, SizeAssumption DEF FifoInv, FifoTypeOK
<1>2. fifo_len \in Nat /\ fifo_len < Size
  BY <1>1 DEF Index
<1>3. ASSUME NEW k \in 1 .. fifo_len
      PROVE  data[(out + k - 1) % Size] = sent - fifo_len + k - 1
  <2> DEFINE j == k - 1
  <2>1. j \in 0 .. Size - 1 /\ j < fifo_len /\ out + k - 1 = out + j
    BY <1>1, <1>2 DEF Index
  <2>2. data[(out + j) % Size] = sent - fifo_len + j
    BY <2>1 DEF FifoInv, StreamIntact
  <2>3. sent - fifo_len + j = sent - fifo_len + k - 1
    BY <1>1, <1>2
  <2> QED
    BY <2>1, <2>2, <2>3
<1>4. Ring = Piece(sent, fifo_len)
  BY <1>3 DEF Ring, Piece
<1> QED
  BY <1>1, <1>2, <1>4, PieceLen

LEMMA RingIsNext == FifoInv' => Ring' = Piece(sent', fifo_len') /\ fifo_len' \in Nat
<1>1. FifoInv => Ring = Piece(sent, fifo_len) /\ fifo_len \in Nat
  BY RingIs
<1>2. (FifoInv => Ring = Piece(sent, fifo_len) /\ fifo_len \in Nat)'
  BY <1>1, PTL
<1> QED
  BY <1>2

\* The abstract steps, on what the ring stands for
Put(n) ==
    /\ Len(Ring) + n <= Size - 1 /\ sent + n <= MaxSent
    /\ Ring' = Ring \o [k \in 1 .. n |-> sent + k - 1]
    /\ sent' = sent + n /\ last' = last
Take(n) ==
    /\ n <= Len(Ring)
    /\ Ring' = SubSeq(Ring, n + 1, Len(Ring)) /\ sent' = sent

LEMMA PublishPuts ==
    ASSUME RefInv, FifoInv', InPublish
    PROVE  plen \in 1 .. Size - 1 /\ Put(plen)
<1>1. /\ plen > 0 /\ in' = (in + plen) % Size /\ sent' = sent + plen /\ out' = out
      /\ last' = last
  BY DEF InPublish, cons
<1>2. /\ Size \in Nat \ {0} /\ in \in Index /\ out \in Index /\ fifo_len \in Index
      /\ sent \in Nat /\ plen \in Index /\ fifo_len + plen <= Size - 1
  BY SizeAssumption, LenIs DEF RefInv, FifoInv, FifoTypeOK, NoOverrun
<1>3. fifo_len' = fifo_len + plen
  <2>1. fifo_len + plen < Size
    BY <1>2 DEF Index
  <2> QED
    BY <1>1, <1>2, <2>1, LenAfterIn
<1>4. Ring = Piece(sent, fifo_len) /\ Len(Ring) = fifo_len
  BY RingIs DEF RefInv
<1>5. Ring' = Piece(sent', fifo_len')
  BY RingIsNext
<1>6. plen \in Nat /\ fifo_len \in Nat
  BY <1>2 DEF Index
<1>7. Piece(sent + plen, fifo_len + plen)
        = Piece(sent, fifo_len) \o [k \in 1 .. plen |-> sent + k - 1]
  BY <1>2, <1>6, PiecePut
<1>8. plen \in 1 .. Size - 1
  BY <1>1, <1>2 DEF Index
<1> QED
  BY <1>1, <1>2, <1>3, <1>4, <1>5, <1>7, <1>8 DEF Put, RefInv

\* out moves over n bytes
LEMMA MoveTakes ==
    ASSUME FifoInv, FifoInv', NEW n \in Nat, n <= fifo_len,
           out' = (out + n) % Size, in' = in, sent' = sent
    PROVE  Take(n)
<1>1. in \in Index /\ out \in Index /\ fifo_len \in Index /\ n \in Index /\ Size \in Nat
  <2>1. in \in Index /\ out \in Index /\ fifo_len \in Index
    BY LenIs DEF FifoInv, FifoTypeOK
  <2> QED
    BY <2>1, SizeAssumption DEF Index
<1>2. fifo_len' = fifo_len - n
  BY <1>1, LenAfterOut
<1>3. Ring = Piece(sent, fifo_len) /\ Len(Ring) = fifo_len /\ fifo_len \in Nat /\ sent \in Nat
  BY RingIs
<1>4. Ring' = Piece(sent', fifo_len')
  BY RingIsNext
<1>5. SubSeq(Piece(sent, fifo_len), n + 1, fifo_len) = Piece(sent, fifo_len - n)
  BY <1>3, PieceCut
<1> QED
  BY <1>2, <1>3, <1>4, <1>5 DEF Take

LEMMA OutPublishTakes ==
    ASSUME RefInv, FifoInv', OutPublish
    PROVE  /\ clen \in 1 .. Size - 1
           /\ clen <= Len(Ring) /\ last' = SubSeq(Ring, 1, clen)
           /\ Take(clen) \/ (Ring' = Ring /\ sent' = sent)
<1>1. /\ op # "none" /\ ck = clen
      /\ out' = IF op = "out" THEN (out + clen) % Size ELSE out
      /\ last' = [k \in 1 .. clen |-> dst[k - 1]]
      /\ in' = in /\ sent' = sent
  BY DEF OutPublish, prod
<1>2. /\ Size \in Nat \ {0} /\ clen \in Index /\ clen <= fifo_len /\ clen > 0
      /\ sent \in Nat
  BY <1>1, SizeAssumption DEF RefInv, FifoInv, FifoTypeOK, NoOverrun
<1>3. clen \in 1 .. Size - 1 /\ clen \in Nat
  BY <1>2 DEF Index
<1>4. Ring = Piece(sent, fifo_len) /\ Len(Ring) = fifo_len /\ fifo_len \in Nat
  BY RingIs DEF RefInv
<1>5. \A k \in 1 .. clen : dst[k - 1] = sent - fifo_len + k - 1
  <2> SUFFICES ASSUME NEW k \in 1 .. clen PROVE dst[k - 1] = sent - fifo_len + k - 1
    OBVIOUS
  <2> DEFINE j == k - 1
  <2>1. j \in 0 .. Size - 1 /\ j < ck
    BY <1>1, <1>2, <1>3
  <2>2. dst[j] = sent - fifo_len + j
    BY <2>1 DEF RefInv, FifoInv, StreamIntact
  <2>3. sent - fifo_len + j = sent - fifo_len + k - 1
    BY <1>2, <1>3, <1>4
  <2> QED
    BY <2>2, <2>3
<1>6. last' = [k \in 1 .. clen |-> sent - fifo_len + k - 1]
  BY <1>1, <1>5
<1>7. SubSeq(Piece(sent, fifo_len), 1, clen) = [k \in 1 .. clen |-> sent - fifo_len + k - 1]
  BY <1>2, <1>3, <1>4, PieceCut, ZenonT(60)
<1>8. CASE op = "out"
  <2>1. Take(clen)
    BY <1>1, <1>2, <1>3, <1>8, MoveTakes DEF RefInv
  <2> QED
    BY <1>2, <1>3, <1>4, <1>6, <1>7, <2>1
<1>9. CASE op # "out"
  <2>1. fifo_len' = fifo_len
    BY <1>1, <1>9 DEF fifo_len
  <2>2. Ring' = Ring
    BY <1>1, <1>4, <2>1, RingIsNext
  <2> QED
    BY <1>1, <1>2, <1>3, <1>4, <1>6, <1>7, <2>2
<1> QED
  BY <1>8, <1>9

LEMMA RefInvNext ==
    ASSUME RefInv, [FifoNext]_fifoVars, FifoInv'
    PROVE  RefInv'
<1>1. sent \in Nat /\ plen \in Nat /\ Size \in Nat /\ clen \in Nat
  BY SizeAssumption DEF RefInv, FifoInv, FifoTypeOK, Index
<1>2. ASSUME NEW n \in 1 .. Size, InCheck(n) PROVE RefInv'
  BY <1>1, <1>2 DEF RefInv, InCheck, cons
<1>3. CASE InCopy
  BY <1>3 DEF RefInv, InCopy, cons
<1>4. CASE InPublish
  BY <1>1, <1>4 DEF RefInv, InPublish, cons
<1>5. ASSUME NEW n \in 1 .. Size, NEW o, OutCheck(n, o) PROVE RefInv'
  BY <1>1, <1>5 DEF RefInv, OutCheck, prod
<1>6. CASE OutCopy
  BY <1>6 DEF RefInv, OutCopy, prod
<1>7. CASE OutPublish
  BY <1>7 DEF RefInv, OutPublish, prod
<1>8. ASSUME NEW n \in 1 .. Size, fifo_skip(n) PROVE RefInv'
  BY <1>8 DEF RefInv, fifo_skip, prod, cons
<1>9. CASE UNCHANGED fifoVars
  BY <1>9 DEF RefInv, fifoVars
<1> QED
  BY <1>2, <1>3, <1>4, <1>5, <1>6, <1>7, <1>8, <1>9 DEF FifoNext, Producer, Consumer

LEMMA StepRefines ==
    ASSUME RefInv, FifoInv', [FifoNext]_fifoVars
    PROVE  \/ \E n \in 1 .. Size - 1 : Put(n)
           \/ \E n \in 1 .. Size - 1 :
                n <= Len(Ring) /\ last' = SubSeq(Ring, 1, n) /\ Take(n)
           \/ \E n \in 1 .. Size - 1 :
                /\ n <= Len(Ring) /\ last' = SubSeq(Ring, 1, n)
                /\ Ring' = Ring /\ sent' = sent
           \/ \E n \in 1 .. Size - 1 : Take(n) /\ last' = last
           \/ Ring' = Ring /\ sent' = sent /\ last' = last
<1>0. FifoInv
  BY DEF RefInv
<1>1. CASE /\ UNCHANGED <<in, out, sent, last>>
  <2>1. fifo_len' = fifo_len
    BY <1>1 DEF fifo_len
  <2>2. Ring' = Ring
    BY <1>0, <1>1, <2>1, RingIs, RingIsNext
  <2> QED
    BY <1>1, <2>2
<1>2. CASE InPublish
  BY <1>2, PublishPuts
<1>3. CASE OutPublish
  BY <1>3, OutPublishTakes
<1>4. ASSUME NEW n \in 1 .. Size, fifo_skip(n)
      PROVE  n \in 1 .. Size - 1 /\ Take(n) /\ last' = last
  <2>1. /\ n <= fifo_len /\ out' = (out + n) % Size /\ in' = in /\ sent' = sent /\ last' = last
    BY <1>4, <1>0, RingIs, SizeAssumption DEF fifo_skip, prod, cons
  <2>2. n \in Nat /\ fifo_len \in Index /\ Size \in Nat
    BY <1>0, LenIs, SizeAssumption DEF FifoInv, FifoTypeOK
  <2>3. n \in 1 .. Size - 1
    BY <2>1, <2>2 DEF Index
  <2> QED
    BY <1>0, <2>1, <2>2, <2>3, MoveTakes
<1>5. ASSUME NEW n \in 1 .. Size, InCheck(n) PROVE UNCHANGED <<in, out, sent, last>>
  BY <1>5 DEF InCheck, cons
<1>6. CASE InCopy
  BY <1>1, <1>6 DEF InCopy, cons
<1>7. ASSUME NEW n \in 1 .. Size, NEW o, OutCheck(n, o) PROVE UNCHANGED <<in, out, sent, last>>
  BY <1>7 DEF OutCheck, prod
<1>8. CASE OutCopy
  BY <1>1, <1>8 DEF OutCopy, prod
<1>9. CASE UNCHANGED fifoVars
  BY <1>1, <1>9 DEF fifoVars
<1> QED
  BY <1>1, <1>2, <1>3, <1>4, <1>5, <1>6, <1>7, <1>8, <1>9 DEF FifoNext, Producer, Consumer

\* The ring of bytes that producer and consumer share without a lock implements
\* the bounded queue, for every size: each call takes effect at once, when it
\* publishes its index, and no step in between is visible to the other side.
THEOREM FifoImplements == FifoRingSpec => ImplementsFifo
<1>1. FifoInit => FifoInv /\ RefInv
  BY InitFifoInv, SizeAssumption DEF RefInv, FifoInit
<1>2. FifoInv /\ [FifoNext]_fifoVars => FifoInv'
  <2> SUFFICES ASSUME FifoInv, [FifoNext]_fifoVars PROVE FifoInv'
    OBVIOUS
  <2>1. CASE UNCHANGED fifoVars
    <3>1. fifo_len' = fifo_len
      BY <2>1 DEF fifoVars, fifo_len
    <3> QED
      BY <2>1, <3>1 DEF FifoInv, FifoTypeOK, NoOverrun, StreamIntact, fifoVars
  <2> QED
    BY <2>1, ProducerInv, ConsumerInv DEF FifoNext
<1>3. RefInv /\ [FifoNext]_fifoVars => RefInv' /\ FifoInv'
  BY <1>2, RefInvNext DEF RefInv
<1>4. FifoInit => AbstractFifo!SInit
  <2> SUFFICES ASSUME FifoInit PROVE AbstractFifo!SInit
    OBVIOUS
  <2>1. fifo_len = 0
    <3>1. 0 \in Index
      BY SizeAssumption DEF Index
    <3>2. fifo_len = IF in >= out THEN in - out ELSE in - out + Size
      BY <3>1, LenIs DEF FifoInit
    <3> QED
      BY <3>2 DEF FifoInit
  <2>2. Ring = <<>>
    BY <2>1 DEF Ring
  <2> QED
    BY <2>2 DEF FifoInit, AbstractFifo!SInit, Ring
<1>5. RefInv /\ FifoInv' /\ [FifoNext]_fifoVars => [AbstractFifo!SNext]_(AbstractFifo!svars)
  <2> SUFFICES ASSUME RefInv, FifoInv', [FifoNext]_fifoVars PROVE [AbstractFifo!SNext]_(AbstractFifo!svars)
    OBVIOUS
  <2>1. ASSUME NEW n \in 1 .. Size - 1, Put(n) PROVE AbstractFifo!Put(n)
    BY <2>1 DEF Put, AbstractFifo!Put, Ring
  <2>2. ASSUME NEW n \in 1 .. Size - 1, n <= Len(Ring), last' = SubSeq(Ring, 1, n), Take(n)
        PROVE  AbstractFifo!Get(n)
    BY <2>2 DEF Take, AbstractFifo!Get, Ring
  <2>3. ASSUME NEW n \in 1 .. Size - 1, n <= Len(Ring), last' = SubSeq(Ring, 1, n),
               Ring' = Ring, sent' = sent
        PROVE  AbstractFifo!Peek(n)
    BY <2>3 DEF AbstractFifo!Peek, Ring
  <2>4. ASSUME NEW n \in 1 .. Size - 1, Take(n), last' = last PROVE AbstractFifo!Skip(n)
    BY <2>4 DEF Take, AbstractFifo!Skip, Ring
  <2>5. ASSUME Ring' = Ring, sent' = sent, last' = last PROVE UNCHANGED AbstractFifo!svars
    BY <2>5 DEF AbstractFifo!svars, Ring
  <2> QED
    BY StepRefines, <2>1, <2>2, <2>3, <2>4, <2>5 DEF AbstractFifo!SNext
<1> QED
  BY <1>1, <1>3, <1>4, <1>5, PTL DEF FifoRingSpec, ImplementsFifo, AbstractFifo!SSpec

-----------------------------------------------------------------------------
(* The queue *)

\* The part of TypeOK that is inductive by itself.
RingInv ==
    /\ capacity \in Nat /\ capacity > 1
    /\ base \in [0 .. capacity - 1 -> Value \cup {Junk}]
    /\ front \in 0 .. capacity - 1 /\ rear \in 0 .. capacity - 1

\* What the ring stands for
Que == [i \in 1 .. queue_size |-> base[(front + i - 1) % capacity]]

LEMMA ModIs ==
    ASSUME NEW c \in Nat \ {0}, NEW x \in Nat, x < 2 * c
    PROVE  x % c = (IF x < c THEN x ELSE x - c) /\ x % c \in 0 .. c - 1
<1>1. CASE x < c
  BY <1>1
<1>2. CASE x >= c
  <2>1. x = 1 * c + (x - c) /\ x - c \in 0 .. c - 1
    BY <1>2
  <2> QED
    BY <1>2, <2>1
<1> QED
  BY <1>1, <1>2

LEMMA SizeIs ==
    ASSUME NEW c \in Nat \ {0}, NEW f \in 0 .. c - 1, NEW r \in 0 .. c - 1
    PROVE  /\ (r + c - f) % c = IF r >= f THEN r - f ELSE r - f + c
           /\ (r + c - f) % c \in 0 .. c - 1
<1> DEFINE x == r + c - f
<1>1. x \in Nat /\ x < 2 * c
  OBVIOUS
<1> HIDE DEF x
<1>2. x % c = (IF x < c THEN x ELSE x - c) /\ x % c \in 0 .. c - 1
  BY <1>1, ModIs
<1> QED
  BY <1>2 DEF x

LEMMA PlaceIs ==
    ASSUME NEW c \in Nat \ {0}, NEW f \in 0 .. c - 1, NEW k \in 0 .. c
    PROVE  /\ (f + k) % c = IF f + k < c THEN f + k ELSE f + k - c
           /\ (f + k) % c \in 0 .. c - 1
<1> DEFINE x == f + k
<1>1. x \in Nat /\ x < 2 * c
  OBVIOUS
<1> HIDE DEF x
<1>2. x % c = (IF x < c THEN x ELSE x - c) /\ x % c \in 0 .. c - 1
  BY <1>1, ModIs
<1> QED
  BY <1>2 DEF x

\* Where the k-th element lies, and how many there are
LEMMA RingFacts ==
    ASSUME RingInv
    PROVE  /\ queue_size \in 0 .. capacity - 1
           /\ queue_size = IF rear >= front THEN rear - front ELSE rear - front + capacity
           /\ \A k \in 0 .. capacity :
                /\ (front + k) % capacity = IF front + k < capacity THEN front + k
                                            ELSE front + k - capacity
                /\ (front + k) % capacity \in 0 .. capacity - 1
           /\ queue_full <=> queue_size = capacity - 1
<1>1. capacity \in Nat \ {0} /\ front \in 0 .. capacity - 1 /\ rear \in 0 .. capacity - 1
      /\ capacity > 1
  BY DEF RingInv
<1>2. /\ queue_size \in 0 .. capacity - 1
      /\ queue_size = IF rear >= front THEN rear - front ELSE rear - front + capacity
  BY <1>1, SizeIs DEF queue_size
<1>3. (rear + 1) % capacity = IF rear + 1 < capacity THEN rear + 1 ELSE rear + 1 - capacity
  <2>1. 1 \in 0 .. capacity
    BY <1>1
  <2> QED
    BY <1>1, <2>1, PlaceIs
<1>4. queue_full <=> queue_size = capacity - 1
  BY <1>1, <1>2, <1>3 DEF queue_full
<1> QED
  BY <1>1, <1>2, <1>4, PlaceIs

LEMMA QueIs ==
    ASSUME RingInv
    PROVE  /\ Que \in Seq(Value \cup {Junk}) /\ Len(Que) = queue_size
           /\ \A i \in 1 .. queue_size : Que[i] = base[(front + (i - 1)) % capacity]
<1>1. queue_size \in Nat /\ capacity \in Nat /\ queue_size <= capacity - 1 /\ front \in Int
  BY RingFacts DEF RingInv
<1>2. \A i \in 1 .. queue_size :
        /\ i - 1 \in 0 .. capacity /\ front + i - 1 = front + (i - 1)
  BY <1>1
<1>3. \A i \in 1 .. queue_size : base[(front + i - 1) % capacity] \in Value \cup {Junk}
  BY <1>2, RingFacts DEF RingInv
<1> QED
  BY <1>1, <1>2, <1>3 DEF Que

LEMMA EnqueueRefines ==
    ASSUME RingInv, NEW v \in Value, Enqueue(v)
    PROVE  RingInv' /\ Que' = Append(Que, v)
<1>1. /\ ~queue_full /\ base' = [base EXCEPT ![rear] = v] /\ rear' = (rear + 1) % capacity
      /\ front' = front /\ capacity' = capacity
  BY DEF Enqueue, Store
<1>2. capacity \in Nat \ {0} /\ front \in 0 .. capacity - 1 /\ rear \in 0 .. capacity - 1
      /\ capacity > 1 /\ base \in [0 .. capacity - 1 -> Value \cup {Junk}]
  BY DEF RingInv
<1>3. /\ rear' \in 0 .. capacity - 1
      /\ rear' = IF rear + 1 < capacity THEN rear + 1 ELSE rear + 1 - capacity
  <2>1. 1 \in 0 .. capacity
    BY <1>2
  <2> QED
    BY <1>1, <1>2, <2>1, PlaceIs
<1>4. RingInv'
  BY <1>1, <1>2, <1>3 DEF RingInv
<1> DEFINE n == queue_size
<1>5. /\ n \in 0 .. capacity - 1 /\ n # capacity - 1
      /\ n = IF rear >= front THEN rear - front ELSE rear - front + capacity
  BY <1>1, RingFacts
<1>6. queue_size' = IF rear' >= front THEN rear' - front ELSE rear' - front + capacity
  <2>1. (rear' + capacity - front) % capacity
          = IF rear' >= front THEN rear' - front ELSE rear' - front + capacity
    BY <1>2, <1>3, SizeIs
  <2> QED
    BY <1>1, <2>1 DEF queue_size
<1>7. queue_size' = n + 1
  <2> HIDE DEF n
  <2> QED
    BY <1>2, <1>3, <1>5, <1>6
<1> HIDE DEF n
<1>8. \A k \in 0 .. n : /\ (front + k) % capacity \in 0 .. capacity - 1
                        /\ (front + k) % capacity = rear <=> k = n
  <2> SUFFICES ASSUME NEW k \in 0 .. n
               PROVE  /\ (front + k) % capacity \in 0 .. capacity - 1
                      /\ (front + k) % capacity = rear <=> k = n
    OBVIOUS
  <2>1. /\ (front + k) % capacity = IF front + k < capacity THEN front + k
                                    ELSE front + k - capacity
        /\ (front + k) % capacity \in 0 .. capacity - 1
    <3>1. k \in 0 .. capacity
      BY <1>2, <1>5
    <3> QED
      BY <1>2, <3>1, PlaceIs
  <2> QED
    BY <1>2, <1>5, <2>1
<1>9. \A i \in 1 .. n + 1 : Que'[i] = IF i = n + 1 THEN v ELSE Que[i]
  <2> SUFFICES ASSUME NEW i \in 1 .. n + 1 PROVE Que'[i] = IF i = n + 1 THEN v ELSE Que[i]
    OBVIOUS
  <2>1. Que'[i] = base'[(front + i - 1) % capacity] /\ front + i - 1 = front + (i - 1)
    BY <1>1, <1>2, <1>5, <1>7 DEF Que
  <2>2. i - 1 \in 0 .. n
    BY <1>5
  <2>3. CASE i = n + 1
    <3>1. (front + (i - 1)) % capacity = rear
      BY <1>5, <1>8, <2>2, <2>3
    <3> QED
      BY <1>1, <1>2, <2>1, <2>3, <3>1
  <2>4. CASE i # n + 1
    <3>1. (front + (i - 1)) % capacity # rear /\ i \in 1 .. n
      BY <1>5, <1>8, <2>2, <2>4
    <3>2. Que[i] = base[(front + (i - 1)) % capacity]
      BY <3>1, QueIs DEF n
    <3>3. base'[(front + (i - 1)) % capacity] = base[(front + (i - 1)) % capacity]
      BY <1>1, <1>2, <1>8, <2>2, <3>1
    <3> QED
      BY <2>1, <2>4, <3>2, <3>3
  <2> QED
    BY <2>3, <2>4
<1>10. Que' = Append(Que, v)
  <2> DEFINE A == Append(Que, v)
             S == Value \cup {Junk}
             q == Que'
  <2>1. Que \in Seq(S) /\ Len(Que) = n /\ v \in S
    BY QueIs DEF n
  <2>2. A \in Seq(S) /\ Len(A) = n + 1 /\ \A i \in 1 .. n + 1 : A[i] = IF i = n + 1 THEN v ELSE Que[i]
    BY <1>5, <2>1
  <2>3. q = [i \in 1 .. n + 1 |-> q[i]]
    BY <1>1, <1>7 DEF Que
  <2>4. \A i \in 1 .. n + 1 : q[i] = A[i]
    BY <1>9, <2>2
  <2>5. q = A
    <3> HIDE DEF q, A
    <3>1. A = [i \in 1 .. n + 1 |-> A[i]]
      BY <1>5, <2>2
    <3> QED
      BY <2>3, <2>4, <3>1
  <2> QED
    BY <2>5
<1> QED
  BY <1>4, <1>10

\* The new memory holds the elements from its beginning, wrapped or not before.
LEMMA ExpandKeeps ==
    ASSUME RingInv, queue_full
    PROVE  /\ queue_size = capacity - 1
           /\ __queue_expand \in [0 .. 2 * capacity - 1 -> Value \cup {Junk}]
           /\ \A k \in 0 .. capacity - 2 : __queue_expand[k] = base[(front + k) % capacity]
<1>1. capacity \in Nat \ {0} /\ front \in 0 .. capacity - 1 /\ rear \in 0 .. capacity - 1
      /\ capacity > 1 /\ base \in [0 .. capacity - 1 -> Value \cup {Junk}]
  BY DEF RingInv
<1> DEFINE n == queue_size
           first == IF front < rear THEN n ELSE capacity - front
           second == IF front < rear THEN 0 ELSE rear
           e == [i \in 0 .. 2 * capacity - 1 |->
                    IF i < first THEN base[front + i]
                    ELSE IF i < first + second THEN base[i - first]
                    ELSE Junk]
<1>2. __queue_expand = e
  BY DEF __queue_expand
<1>3. /\ n = capacity - 1
      /\ n = IF rear >= front THEN rear - front ELSE rear - front + capacity
      /\ \A k \in 0 .. capacity :
            (front + k) % capacity = IF front + k < capacity THEN front + k
                                     ELSE front + k - capacity
  BY RingFacts
<1> HIDE DEF n
<1>4. first \in Nat /\ second \in Nat /\ first + second = n
  BY <1>1, <1>3
<1>5. ASSUME NEW i \in Nat, i < first PROVE front + i \in 0 .. capacity - 1
  BY <1>1, <1>3, <1>5
<1>6. ASSUME NEW i \in Nat, ~(i < first), i < first + second PROVE i - first \in 0 .. capacity - 1
  BY <1>1, <1>3, <1>6
<1>7. ASSUME NEW k \in 0 .. capacity - 2
      PROVE  /\ k < first => (front + k) % capacity = front + k
             /\ ~(k < first) => (front + k) % capacity = k - first /\ k < first + second
  <2>1. (front + k) % capacity = IF front + k < capacity THEN front + k ELSE front + k - capacity
    BY <1>1, <1>3
  <2> QED
    BY <1>1, <1>3, <2>1
<1> HIDE DEF first, second
<1>8. e \in [0 .. 2 * capacity - 1 -> Value \cup {Junk}]
  <2> SUFFICES ASSUME NEW i \in 0 .. 2 * capacity - 1 PROVE e[i] \in Value \cup {Junk}
    OBVIOUS
  <2>1. i \in Nat
    BY <1>1
  <2>2. CASE i < first
    BY <1>1, <1>5, <2>1, <2>2
  <2>3. CASE ~(i < first) /\ i < first + second
    BY <1>1, <1>6, <2>1, <2>3
  <2>4. CASE ~(i < first) /\ ~(i < first + second)
    BY <2>4
  <2> QED
    BY <2>2, <2>3, <2>4
<1>9. ASSUME NEW k \in 0 .. capacity - 2 PROVE e[k] = base[(front + k) % capacity]
  <2>1. k \in 0 .. 2 * capacity - 1
    BY <1>1
  <2>2. CASE k < first
    BY <1>7, <2>1, <2>2
  <2>3. CASE ~(k < first)
    BY <1>7, <2>1, <2>3
  <2> QED
    BY <2>2, <2>3
<1> QED
  BY <1>2, <1>3, <1>8, <1>9 DEF n

LEMMA ExpandRefines ==
    ASSUME RingInv, NEW v \in Value, EnqueueExpand(v)
    PROVE  RingInv' /\ Que' = Append(Que, v)
<1> DEFINE e == __queue_expand
           c == 2 * capacity
           n == queue_size
<1>1. /\ queue_full /\ front' = 0 /\ capacity' = c
      /\ base' = [e EXCEPT ![n] = v] /\ rear' = (n + 1) % c
  BY DEF EnqueueExpand, Store
<1>2. /\ capacity \in Nat /\ capacity > 1 /\ c \in Nat \ {0} /\ front \in Nat
      /\ n = capacity - 1
      /\ e \in [0 .. c - 1 -> Value \cup {Junk}]
      /\ \A k \in 0 .. n - 1 : e[k] = base[(front + k) % capacity]
  <2>1. /\ capacity \in Nat /\ capacity > 1 /\ front \in Nat
    BY DEF RingInv
  <2>2. /\ n = capacity - 1 /\ e \in [0 .. 2 * capacity - 1 -> Value \cup {Junk}]
        /\ \A k \in 0 .. capacity - 2 : e[k] = base[(front + k) % capacity]
    BY <1>1, ExpandKeeps
  <2>3. n - 1 = capacity - 2
    BY <2>1, <2>2
  <2> QED
    BY <2>1, <2>2, <2>3
<1> HIDE DEF e, n
<1>3. rear' = n + 1 /\ n \in 0 .. c - 1
  BY <1>1, <1>2
<1>4. RingInv'
  BY <1>1, <1>2, <1>3 DEF RingInv
<1>5. queue_size' = n + 1
  <2>1. queue_size' = (n + 1 + c - 0) % c
    BY <1>1, <1>3 DEF queue_size
  <2>2. n + 1 \in 0 .. c - 1 /\ 0 \in 0 .. c - 1
    BY <1>2
  <2>3. (n + 1 + c - 0) % c = IF n + 1 >= 0 THEN n + 1 - 0 ELSE n + 1 - 0 + c
    BY <1>2, <2>2, SizeIs, SMTT(30)
  <2> QED
    BY <1>2, <2>1, <2>3
<1>6. \A i \in 1 .. n + 1 : Que'[i] = IF i = n + 1 THEN v ELSE Que[i]
  <2> SUFFICES ASSUME NEW i \in 1 .. n + 1 PROVE Que'[i] = IF i = n + 1 THEN v ELSE Que[i]
    OBVIOUS
  <2>1. Que'[i] = base'[(0 + i - 1) % c]
    BY <1>1, <1>5 DEF Que
  <2>2. (0 + i - 1) % c = i - 1 /\ i - 1 \in 0 .. c - 1
    <3> DEFINE x == 0 + i - 1
    <3>1. x = i - 1 /\ x \in Nat /\ x < c
      BY <1>2
    <3> HIDE DEF x, c
    <3>2. x % c = x
      <4>1. c \in Nat \ {0}
        BY <1>2
      <4>2. x < 2 * c
        BY <3>1, <4>1
      <4> QED
        BY <3>1, <4>1, <4>2, ModIs
    <3>3. x \in 0 .. c - 1
      BY <1>2, <3>1
    <3> QED
      BY <3>1, <3>2, <3>3 DEF x
  <2>3. CASE i = n + 1
    BY <1>1, <1>2, <1>3, <2>1, <2>2, <2>3
  <2>4. CASE i # n + 1
    <3>1. i \in 1 .. n /\ i - 1 \in 0 .. n - 1 /\ i - 1 # n
      BY <1>2, <2>4
    <3>2. base'[i - 1] = e[i - 1]
      BY <1>1, <1>2, <2>2, <3>1
    <3>3. Que[i] = base[(front + (i - 1)) % capacity]
      BY <3>1, QueIs DEF n
    <3> QED
      BY <1>2, <2>1, <2>2, <2>4, <3>1, <3>2, <3>3
  <2> QED
    BY <2>3, <2>4
<1>7. Que' = Append(Que, v)
  <2> DEFINE A == Append(Que, v)
             S == Value \cup {Junk}
             q == Que'
  <2>1. Que \in Seq(S) /\ Len(Que) = n /\ v \in S
    BY QueIs DEF n
  <2>2. A \in Seq(S) /\ Len(A) = n + 1 /\ \A i \in 1 .. n + 1 : A[i] = IF i = n + 1 THEN v ELSE Que[i]
    BY <1>2, <2>1
  <2>3. q = [i \in 1 .. n + 1 |-> q[i]]
    BY <1>1, <1>5 DEF Que
  <2>4. \A i \in 1 .. n + 1 : q[i] = A[i]
    BY <1>6, <2>2
  <2>5. q = A
    <3> HIDE DEF q, A
    <3>1. A = [i \in 1 .. n + 1 |-> A[i]]
      BY <1>2, <2>2
    <3> QED
      BY <2>3, <2>4, <3>1
  <2> QED
    BY <2>5
<1> QED
  BY <1>4, <1>7

LEMMA DequeueRefines ==
    ASSUME RingInv, Dequeue
    PROVE  RingInv' /\ Que # <<>> /\ ret' = Head(Que) /\ Que' = Tail(Que)
<1> DEFINE n == queue_size
<1>1. /\ front # rear /\ ret' = base[front] /\ front' = (front + 1) % capacity
      /\ base' = base /\ rear' = rear /\ capacity' = capacity
  BY DEF Dequeue, queue_empty
<1>2. capacity \in Nat \ {0} /\ front \in 0 .. capacity - 1 /\ rear \in 0 .. capacity - 1
      /\ capacity > 1 /\ base \in [0 .. capacity - 1 -> Value \cup {Junk}]
  BY DEF RingInv
<1>3. /\ front' \in 0 .. capacity - 1
      /\ front' = IF front + 1 < capacity THEN front + 1 ELSE front + 1 - capacity
  <2>1. 1 \in 0 .. capacity
    BY <1>2
  <2> QED
    BY <1>1, <1>2, <2>1, PlaceIs
<1>4. RingInv'
  BY <1>1, <1>2, <1>3 DEF RingInv
<1>5. /\ n \in 0 .. capacity - 1
      /\ n = IF rear >= front THEN rear - front ELSE rear - front + capacity
  BY RingFacts
<1> HIDE DEF n
<1>6. queue_size' = n - 1 /\ n > 0
  <2>1. (rear + capacity - front') % capacity
          = IF rear >= front' THEN rear - front' ELSE rear - front' + capacity
    BY <1>2, <1>3, SizeIs
  <2>2. queue_size' = IF rear >= front' THEN rear - front' ELSE rear - front' + capacity
    BY <1>1, <2>1 DEF queue_size
  <2> QED
    BY <1>1, <1>2, <1>3, <1>5, <2>2
<1> DEFINE S == Value \cup {Junk}
<1>7. /\ Que \in Seq(S) /\ Len(Que) = n
      /\ \A i \in 1 .. n : Que[i] = base[(front + (i - 1)) % capacity]
  BY QueIs DEF n
<1>8. Que # <<>> /\ ret' = Head(Que)
  <2>1. 1 \in 1 .. n /\ (front + (1 - 1)) % capacity = front
    BY <1>2, <1>5, <1>6
  <2>2. Que[1] = base[(front + (1 - 1)) % capacity]
    BY <1>7, <2>1
  <2>3. Que # <<>> /\ Head(Que) = Que[1]
    BY <1>5, <1>6, <1>7
  <2> QED
    BY <1>1, <2>1, <2>2, <2>3
<1>9. \A i \in 1 .. n - 1 : Que'[i] = Que[i + 1]
  <2> SUFFICES ASSUME NEW i \in 1 .. n - 1 PROVE Que'[i] = Que[i + 1]
    OBVIOUS
  <2>1. Que'[i] = base[(front' + i - 1) % capacity]
    BY <1>1, <1>6 DEF Que
  <2>2. front' + i - 1 = front' + (i - 1) /\ i - 1 \in 0 .. capacity /\ i \in 0 .. capacity
    BY <1>2, <1>3, <1>5
  <2>3. /\ (front' + (i - 1)) % capacity = IF front' + (i - 1) < capacity THEN front' + (i - 1)
                                           ELSE front' + (i - 1) - capacity
    BY <1>2, <1>3, <2>2, PlaceIs
  <2>4. (front + i) % capacity = IF front + i < capacity THEN front + i ELSE front + i - capacity
    BY <1>2, <2>2, PlaceIs
  <2>5. (front' + (i - 1)) % capacity = (front + i) % capacity
    BY <1>2, <1>3, <1>5, <2>3, <2>4
  <2>6. i + 1 \in 1 .. n /\ (i + 1) - 1 = i
    BY <1>5
  <2>7. Que[i + 1] = base[(front + i) % capacity]
    BY <1>7, <2>6
  <2> QED
    BY <2>1, <2>2, <2>5, <2>7
<1>10. Que' = Tail(Que)
  <2> DEFINE q == Que'
             T == Tail(Que)
  <2>1. q = [i \in 1 .. n - 1 |-> q[i]]
    BY <1>6 DEF Que
  <2>2. T = [i \in 1 .. n - 1 |-> T[i]] /\ \A i \in 1 .. n - 1 : T[i] = Que[i + 1]
    <3> HIDE DEF S
    <3>1. T \in Seq(S) /\ Len(T) = n - 1 /\ \A i \in 1 .. Len(T) : T[i] = Que[i + 1]
      BY <1>7, <1>8, HeadTailProperties
    <3> HIDE DEF T
    <3> QED
      BY <3>1
  <2>3. q = T
    <3> HIDE DEF q, T
    <3>1. \A i \in 1 .. n - 1 : q[i] = T[i]
      BY <1>9, <2>2 DEF q
    <3> QED
      BY <2>1, <2>2, <3>1
  <2> QED
    BY <2>3
<1> QED
  BY <1>4, <1>8, <1>10

LEMMA EmptyIs == ASSUME RingInv PROVE queue_empty <=> Que = <<>>
<1>1. Len(Que) = queue_size /\ Que \in Seq(Value \cup {Junk})
  BY QueIs
<1>2. queue_empty <=> queue_size = 0
  <2>1. /\ queue_size = IF rear >= front THEN rear - front ELSE rear - front + capacity
        /\ front \in 0 .. capacity - 1 /\ rear \in 0 .. capacity - 1 /\ capacity \in Nat
    BY RingFacts DEF RingInv
  <2> QED
    BY <2>1 DEF queue_empty
<1> QED
  BY <1>1, <1>2

\* libs/queue.c keeps every element and its order, whatever sequence of calls it
\* goes through: an insertion into a full ring moves the elements to memory of
\* twice the size, wherever the ring had wrapped, and is still one insertion;
\* a call that fails changes nothing.
THEOREM QueueImplements == Spec => ImplementsQueue
<1>1. Init => RingInv
  BY CapacityAssumption DEF Init, RingInv
<1>2. RingInv /\ [Next]_vars => RingInv'
  <2> SUFFICES ASSUME RingInv, [Next]_vars PROVE RingInv'
    OBVIOUS
  <2>1. CASE UNCHANGED <<base, front, rear, capacity>>
    BY <2>1 DEF RingInv
  <2> QED
    BY <2>1, EnqueueRefines, ExpandRefines, DequeueRefines
    DEF Next, EnqueueNoMemory, DequeueEmpty, vars
<1>3. Init => Abstract!Init
  <2> SUFFICES ASSUME Init PROVE Abstract!Init
    OBVIOUS
  <2>1. RingInv /\ queue_empty
    BY <1>1 DEF Init, queue_empty
  <2>2. Que = <<>>
    BY <2>1, EmptyIs
  <2> QED
    BY <2>2 DEF Que, Abstract!Init, Init
<1>4. RingInv /\ [Next]_vars => [Abstract!Next]_<<Que, ret>>
  <2> SUFFICES ASSUME RingInv, [Next]_vars PROVE [Abstract!Next]_<<Que, ret>>
    OBVIOUS
  <2>1. ASSUME UNCHANGED <<base, front, rear, capacity>> PROVE Que' = Que
    BY <2>1 DEF Que, queue_size
  <2>2. ASSUME NEW v \in Value, Enqueue(v) \/ EnqueueExpand(v) PROVE Abstract!Enqueue(v)
    <3>1. Que' = Append(Que, v) /\ ret' = "ok"
      BY <2>2, EnqueueRefines, ExpandRefines DEF Enqueue, EnqueueExpand
    <3> QED
      BY <3>1 DEF Abstract!Enqueue, Que
  <2>3. ASSUME EnqueueNoMemory PROVE Abstract!EnqueueFails
    <3>1. Que' = Que /\ ret' = "ENOMEM"
      BY <2>1, <2>3 DEF EnqueueNoMemory
    <3> QED
      BY <3>1 DEF Abstract!EnqueueFails, Que
  <2>4. ASSUME Dequeue PROVE Abstract!Dequeue
    <3>1. Que # <<>> /\ ret' = Head(Que) /\ Que' = Tail(Que)
      BY <2>4, DequeueRefines
    <3> QED
      BY <3>1 DEF Abstract!Dequeue, Que
  <2>5. ASSUME DequeueEmpty PROVE Abstract!DequeueFails
    <3>1. Que = <<>> /\ ret' = "ENOENT" /\ Que' = Que
      BY <2>1, <2>5, EmptyIs DEF DequeueEmpty
    <3> QED
      BY <3>1 DEF Abstract!DequeueFails, Que
  <2>6. ASSUME UNCHANGED vars PROVE Que' = Que /\ ret' = ret
    BY <2>1, <2>6 DEF vars
  <2> QED
    BY <2>2, <2>3, <2>4, <2>5, <2>6 DEF Next, Abstract!Next
<1> QED
  BY <1>1, <1>2, <1>3, <1>4, PTL DEF Spec, ImplementsQueue, Abstract!Spec, Que

-----------------------------------------------------------------------------
(* Strings, vectors and the shell's line *)

\* A string whose last byte may not be written yet
Raw(s) ==
    /\ s = [mem |-> s.mem, length |-> s.length, cap |-> s.cap, spill |-> s.spill]
    /\ s.cap \in Nat \ {0} /\ s.length \in 0 .. s.cap
    /\ s.mem \in [0 .. s.cap - 1 -> Byte]
    /\ s.spill \subseteq {<<0, "NUL">>}

IsString(s) == Raw(s) /\ (s.length < s.cap => s.mem[s.length] = "NUL")

\* t holds the first n bytes of s
Keeps(s, t, n) == \A k \in 0 .. n - 1 : t.mem[k] = s.mem[k]

LEMMA PutZero ==
    ASSUME NEW s, Raw(s), NEW t, t = put(s, s.length, "NUL")
    PROVE  IsString(t) /\ t.length = s.length /\ t.cap = s.cap /\ Keeps(s, t, s.length)
<1>1. CASE s.length < s.cap
  <2>1. t = [mem |-> [s.mem EXCEPT ![s.length] = "NUL"], length |-> s.length,
             cap |-> s.cap, spill |-> s.spill]
    BY <1>1 DEF put, Raw
  <2>2. s.length \in 0 .. s.cap - 1
    BY <1>1 DEF Raw
  <2>3. /\ t.mem = [s.mem EXCEPT ![s.length] = "NUL"] /\ t.length = s.length
        /\ t.cap = s.cap /\ t.spill = s.spill
        /\ t = [mem |-> t.mem, length |-> t.length, cap |-> t.cap, spill |-> t.spill]
    BY <2>1
  <2>4. t.mem \in [0 .. s.cap - 1 -> Byte] /\ t.mem[s.length] = "NUL"
    BY <2>2, <2>3 DEF Raw, Byte
  <2>5. Keeps(s, t, s.length)
    BY <2>2, <2>3 DEF Raw, Keeps
  <2> QED
    BY <2>3, <2>4, <2>5 DEF Raw, IsString
<1>2. CASE ~(s.length < s.cap)
  <2>1. s.length = s.cap /\ s.length - s.cap = 0
    BY <1>2 DEF Raw
  <2>2. t = [mem |-> s.mem, length |-> s.length,
             cap |-> s.cap, spill |-> s.spill \cup {<<0, "NUL">>}]
    BY <1>2, <2>1 DEF put, Raw
  <2> QED
    BY <2>1, <2>2 DEF Raw, IsString, Keeps
<1> QED
  BY <1>1, <1>2

LEMMA PowerIs ==
    ASSUME NEW n \in 1 .. MaxText + 1
    PROVE  roundup_pow_of_two(n) \in Nat /\ n <= roundup_pow_of_two(n)
<1> DEFINE S == {2 ^ k : k \in 0 .. n}
           Good(p) == n <= p /\ (p = 1 \/ p \div 2 < n)
<1>1. S \subseteq Nat /\ \E p \in S : Good(p)
  BY PowerAssumption
<1>2. roundup_pow_of_two(n) = CHOOSE p \in S : Good(p)
  BY DEF roundup_pow_of_two
<1>3. (CHOOSE p \in S : Good(p)) \in S /\ Good(CHOOSE p \in S : Good(p))
  <2> HIDE DEF S, Good
  <2> QED
    BY <1>1
<1> QED
  BY <1>1, <1>2, <1>3

\* string_try_expand makes room and keeps the bytes.
LEMMA ExpandRoom ==
    ASSUME NEW s, IsString(s), NEW size \in 0 .. MaxText, NEW e, e = expand(s, size)
    PROVE  /\ Raw(e) /\ e.length = s.length /\ e.cap >= size
           /\ Keeps(s, e, s.length)
<1>1. CASE ~Short(s, size)
  BY <1>1 DEF expand, Short, IsString, Raw, Keeps
<1>2. CASE Short(s, size)
  <2> DEFINE new == roundup_pow_of_two(size + 1)
             old == put(s, s.length, "NUL")
             m == [k \in 0 .. new - 1 |-> IF k < s.length THEN s.mem[k] ELSE "any"]
  <2>1. new \in Nat /\ size + 1 <= new
    <3>1. size + 1 \in 1 .. MaxText + 1
      BY StringAssumption
    <3> HIDE DEF new
    <3> QED
      BY <3>1, PowerIs DEF new
  <2>2. IsString(old) /\ old.length = s.length /\ old.cap = s.cap
    <3> HIDE DEF old
    <3> QED
      BY PutZero DEF IsString, old
  <2>3. e = [old EXCEPT !.cap = new, !.mem = m]
    BY <1>2 DEF expand
  <2> HIDE DEF new, old, m
  <2>4. e = [mem |-> m, length |-> s.length, cap |-> new, spill |-> old.spill]
    BY <2>2, <2>3 DEF IsString, Raw
  <2>5. e.mem = m /\ e.length = s.length /\ e.cap = new /\ e.spill = old.spill
        /\ e = [mem |-> e.mem, length |-> e.length, cap |-> e.cap, spill |-> e.spill]
    BY <2>4
  <2>6. s.cap < size /\ s.cap \in Nat /\ s.length \in 0 .. s.cap /\ s.length < new
    BY <1>2, <2>1 DEF Short, IsString, Raw
  <2>7. m \in [0 .. new - 1 -> Byte]
    <3>1. \A k \in 0 .. new - 1 : k < s.length => s.mem[k] \in Byte
      BY <2>1, <2>6 DEF IsString, Raw
    <3> QED
      BY <3>1 DEF m, Byte
  <2>8. \A k \in 0 .. s.length - 1 : m[k] = s.mem[k]
    BY <2>1, <2>6 DEF m
  <2> QED
    BY <2>1, <2>2, <2>5, <2>6, <2>7, <2>8 DEF IsString, Raw, Keeps
<1> QED
  BY <1>1, <1>2

LEMMA ContentIs ==
    ASSUME NEW s, Raw(s)
    PROVE  /\ Content(s) \in Seq(Byte) /\ Len(Content(s)) = s.length
           /\ \A k \in 1 .. s.length : Content(s)[k] = s.mem[k - 1]
<1>1. s.length \in Nat /\ \A k \in 1 .. s.length : s.mem[k - 1] \in Byte
  BY DEF Raw
<1> QED
  BY <1>1 DEF Content

LEMMA RecordFill ==
    ASSUME NEW a, NEW b, NEW c, NEW d, NEW m, NEW p, NEW e,
           e = [mem |-> a, length |-> b, cap |-> c, spill |-> d],
           NEW f, f = [e EXCEPT !.mem = m, !.spill = @ \cup p]
    PROVE  f = [mem |-> m, length |-> b, cap |-> c, spill |-> d \cup p]
<1> DEFINE w == d \cup p
<1>1. f = [e EXCEPT !.mem = m, !.spill = w]
  OBVIOUS
<1> HIDE DEF w
<1>2. f = [[e EXCEPT !.mem = m] EXCEPT !.spill = w]
  BY <1>1
<1>3. PICK h : h = [mem |-> m, length |-> b, cap |-> c, spill |-> d]
  OBVIOUS
<1>4. [e EXCEPT !.mem = m] = h
  BY <1>3
<1>5. f = [h EXCEPT !.spill = w]
  BY <1>2, <1>4
<1>6. f = [mem |-> m, length |-> b, cap |-> c, spill |-> w]
  BY <1>3, <1>5
<1> QED
  BY <1>6 DEF w

\* ksappend_char and ksappend_strn append, whether the string has to grow or not.
LEMMA AppendKeeps ==
    ASSUME NEW s, IsString(s), NEW str \in Seq(Byte), s.length + Len(str) <= MaxText,
           NEW t, t = append(s, str)
    PROVE  /\ IsString(t) /\ t.length = s.length + Len(str)
           /\ Content(t) = Content(s) \o str
<1> DEFINE n == s.length + Len(str)
           e == expand(s, n)
           m == [k \in 0 .. e.cap - 1 |->
                    IF k >= s.length /\ k < n THEN str[k - s.length + 1] ELSE e.mem[k]]
           past == {<<k - e.cap, str[k - s.length + 1]>> :
                        k \in {j \in s.length .. n - 1 : j >= e.cap}}
           filled == [e EXCEPT !.mem = m, !.spill = @ \cup past]
           g == [filled EXCEPT !.length = n]
<1>1. t = put(g, n, "NUL")
  BY DEF append
<1>2. s.length \in Nat /\ Len(str) \in Nat /\ n \in 0 .. MaxText
  BY StringAssumption DEF IsString, Raw
<1> HIDE DEF n
<1>3. Raw(e) /\ e.length = s.length /\ e.cap >= n /\ Keeps(s, e, s.length)
  <2> HIDE DEF e
  <2> QED
    BY <1>2, ExpandRoom DEF e
<1> HIDE DEF e, m
<1>4. e.cap \in Nat \ {0} /\ s.length <= n /\ n <= e.cap /\ n \in Nat
  BY <1>2, <1>3 DEF Raw, n
<1>5. past = {}
  BY <1>2, <1>4
<1> HIDE DEF past
<1>6. g = [mem |-> m, length |-> n, cap |-> e.cap, spill |-> e.spill]
  <2>1. e = [mem |-> e.mem, length |-> e.length, cap |-> e.cap, spill |-> e.spill]
    BY <1>3 DEF Raw
  <2>2. filled = [mem |-> m, length |-> e.length, cap |-> e.cap, spill |-> e.spill]
    <3>1. e.spill \cup past = e.spill
      BY <1>5
    <3>2. filled = [mem |-> m, length |-> e.length, cap |-> e.cap, spill |-> e.spill \cup past]
      <4>1. filled = [e EXCEPT !.mem = m, !.spill = @ \cup past]
        OBVIOUS
      <4> HIDE DEF filled
      <4> QED
        BY <2>1, <4>1, RecordFill
    <3> QED
      BY <3>1, <3>2
  <2> HIDE DEF filled
  <2> QED
    BY <2>2
<1> HIDE DEF g, filled
<1>7. g.mem = m /\ g.length = n /\ g.cap = e.cap /\ g.spill = e.spill
      /\ g = [mem |-> g.mem, length |-> g.length, cap |-> g.cap, spill |-> g.spill]
  BY <1>6
<1>8. m \in [0 .. e.cap - 1 -> Byte]
  <2>1. \A k \in 0 .. e.cap - 1 : e.mem[k] \in Byte
    BY <1>3 DEF Raw
  <2>2. \A k \in 0 .. e.cap - 1 : k >= s.length /\ k < n => str[k - s.length + 1] \in Byte
    BY <1>2, <1>4 DEF n
  <2> QED
    BY <2>1, <2>2 DEF m
<1>9. Raw(g)
  BY <1>3, <1>4, <1>7, <1>8 DEF Raw
<1>10. IsString(t) /\ t.length = n /\ Keeps(g, t, n)
  BY <1>1, <1>7, <1>9, PutZero
<1>11. Content(t) = Content(s) \o str
  <2>1. /\ Content(s) \in Seq(Byte) /\ Len(Content(s)) = s.length
        /\ \A k \in 1 .. s.length : Content(s)[k] = s.mem[k - 1]
    BY ContentIs DEF IsString
  <2>2. /\ Content(t) \in Seq(Byte) /\ Len(Content(t)) = n
        /\ \A k \in 1 .. n : Content(t)[k] = t.mem[k - 1]
    BY <1>10, ContentIs DEF IsString
  <2>3. /\ Content(s) \o str \in Seq(Byte) /\ Len(Content(s) \o str) = n
        /\ \A k \in 1 .. n : (Content(s) \o str)[k] =
                IF k <= s.length THEN s.mem[k - 1] ELSE str[k - s.length]
    <3> DEFINE c == Content(s)
    <3>1. c \in Seq(Byte) /\ Len(c) = s.length
      BY <2>1
    <3> HIDE DEF c
    <3>2. /\ c \o str \in Seq(Byte) /\ Len(c \o str) = Len(c) + Len(str)
          /\ \A k \in 1 .. Len(c) + Len(str) :
                (c \o str)[k] = IF k <= Len(c) THEN c[k] ELSE str[k - Len(c)]
      BY <3>1, ConcatProperties
    <3>3. \A k \in 1 .. n : k <= s.length => k \in 1 .. s.length
      BY <1>2
    <3> QED
      BY <2>1, <3>1, <3>2, <3>3 DEF n, c
  <2>4. ASSUME NEW k \in 1 .. n PROVE Content(t)[k] = (Content(s) \o str)[k]
    <3>1. k - 1 \in 0 .. n - 1 /\ k - 1 \in 0 .. e.cap - 1 /\ (k - 1) - s.length + 1 = k - s.length
      BY <1>2, <1>4
    <3>2. Content(t)[k] = m[k - 1]
      BY <1>7, <1>10, <2>2, <3>1 DEF Keeps
    <3>3. CASE k <= s.length
      <4>1. k - 1 \in 0 .. s.length - 1 /\ ~(k - 1 >= s.length)
        BY <1>2, <3>3
      <4>2. m[k - 1] = e.mem[k - 1]
        BY <3>1, <4>1 DEF m
      <4> QED
        BY <1>3, <2>3, <3>2, <3>3, <4>1, <4>2 DEF Keeps
    <3>4. CASE ~(k <= s.length)
      <4>1. k - 1 >= s.length /\ k - 1 < n
        BY <1>2, <3>1, <3>4
      <4>2. m[k - 1] = str[k - s.length]
        BY <3>1, <4>1 DEF m
      <4> QED
        BY <2>3, <3>2, <3>4, <4>2
    <3> QED
      BY <3>3, <3>4
  <2> QED
    BY <2>2, <2>3, <2>4, SeqEqual
<1> QED
  BY <1>10, <1>11 DEF n

\* ksfit cuts the string or fills it up.
LEMMA FitKeeps ==
    ASSUME NEW s, IsString(s), NEW c \in Byte, NEW n \in 0 .. MaxText, NEW t, t = fit(s, c, n)
    PROVE  /\ IsString(t) /\ t.length = n
           /\ Content(t) = [k \in 1 .. n |-> IF k <= s.length THEN Content(s)[k] ELSE c]
<1> DEFINE e == expand(s, n)
           m == [k \in 0 .. e.cap - 1 |-> IF k >= s.length /\ k < n THEN c ELSE e.mem[k]]
           g == [e EXCEPT !.mem = m, !.length = n]
<1>1. t = put(g, n, "NUL")
  BY DEF fit
<1>2. Raw(e) /\ e.length = s.length /\ e.cap >= n /\ Keeps(s, e, s.length)
  <2> HIDE DEF e
  <2> QED
    BY ExpandRoom DEF e
<1> HIDE DEF e, m
<1>3. e.cap \in Nat \ {0} /\ n <= e.cap /\ n \in Nat /\ s.length \in 0 .. e.cap
  BY <1>2 DEF Raw
<1>4. g = [mem |-> m, length |-> n, cap |-> e.cap, spill |-> e.spill]
  <2>1. g = [[e EXCEPT !.mem = m] EXCEPT !.length = n]
    OBVIOUS
  <2>2. PICK h : h = [mem |-> m, length |-> e.length, cap |-> e.cap, spill |-> e.spill]
    OBVIOUS
  <2>3. [e EXCEPT !.mem = m] = h
    BY <1>2, <2>2 DEF Raw
  <2>4. g = [h EXCEPT !.length = n]
    BY <2>1, <2>3
  <2> HIDE DEF g
  <2> QED
    BY <2>2, <2>4
<1> HIDE DEF g
<1>5. g.mem = m /\ g.length = n /\ g.cap = e.cap /\ g.spill = e.spill
      /\ g = [mem |-> g.mem, length |-> g.length, cap |-> g.cap, spill |-> g.spill]
  BY <1>4
<1>6. m \in [0 .. e.cap - 1 -> Byte]
  <2>1. \A k \in 0 .. e.cap - 1 : e.mem[k] \in Byte
    BY <1>2 DEF Raw
  <2> QED
    BY <2>1 DEF m
<1>7. Raw(g)
  BY <1>2, <1>3, <1>5, <1>6 DEF Raw
<1>8. IsString(t) /\ t.length = n /\ Keeps(g, t, n)
  BY <1>1, <1>5, <1>7, PutZero
<1>9. ASSUME NEW k \in 1 .. n
      PROVE  t.mem[k - 1] = IF k <= s.length THEN Content(s)[k] ELSE c
  <2>1. k - 1 \in 0 .. n - 1 /\ k - 1 \in 0 .. e.cap - 1
    BY <1>3
  <2>2. t.mem[k - 1] = m[k - 1]
    BY <1>5, <1>8, <2>1 DEF Keeps
  <2>3. CASE k <= s.length
    <3>1. k - 1 \in 0 .. s.length - 1 /\ ~(k - 1 >= s.length) /\ k \in 1 .. s.length
      BY <1>3, <2>3
    <3>2. m[k - 1] = e.mem[k - 1]
      BY <2>1, <3>1 DEF m
    <3>3. Content(s)[k] = s.mem[k - 1]
      BY <3>1, ContentIs DEF IsString
    <3> QED
      BY <1>2, <2>2, <2>3, <3>1, <3>2, <3>3 DEF Keeps
  <2>4. CASE ~(k <= s.length)
    <3>1. k - 1 >= s.length /\ k - 1 < n
      BY <1>3, <2>1, <2>4
    <3> QED
      BY <2>1, <2>2, <2>4, <3>1 DEF m
  <2> QED
    BY <2>3, <2>4
<1>10. Content(t) = [k \in 1 .. n |-> t.mem[k - 1]]
  BY <1>8 DEF Content
<1> QED
  BY <1>8, <1>9, <1>10

\* kspop takes the last byte away.
LEMMA PopKeeps ==
    ASSUME NEW s, IsString(s), s.length > 0, NEW t,
           t = put([s EXCEPT !.length = @ - 1], s.length - 1, "NUL")
    PROVE  IsString(t) /\ t.length = s.length - 1
           /\ Content(t) = SubSeq(Content(s), 1, Len(Content(s)) - 1)
<1> DEFINE g == [s EXCEPT !.length = @ - 1]
           n == s.length - 1
<1>1. s.length \in Nat /\ n \in Nat /\ n < s.length /\ s.cap \in Nat /\ s.length <= s.cap
  BY DEF IsString, Raw
<1>2. g = [mem |-> s.mem, length |-> n, cap |-> s.cap, spill |-> s.spill]
  BY DEF IsString, Raw
<1>3. t = put(g, n, "NUL")
  OBVIOUS
<1> HIDE DEF g
<1>4. g.mem = s.mem /\ g.length = n /\ g.cap = s.cap /\ g.spill = s.spill
      /\ g = [mem |-> g.mem, length |-> g.length, cap |-> g.cap, spill |-> g.spill]
  BY <1>2
<1>5. Raw(g)
  BY <1>1, <1>4 DEF IsString, Raw
<1> HIDE DEF n
<1>6. IsString(t) /\ t.length = n /\ Keeps(g, t, n)
  BY <1>3, <1>4, <1>5, PutZero
<1>7. /\ Content(s) \in Seq(Byte) /\ Len(Content(s)) = s.length
      /\ \A k \in 1 .. s.length : Content(s)[k] = s.mem[k - 1]
  BY ContentIs DEF IsString
<1>8. SubSeq(Content(s), 1, s.length - 1) = [k \in 1 .. n |-> Content(s)[k]]
  BY <1>1, <1>7 DEF n
<1>9. \A k \in 1 .. n : k \in 1 .. s.length /\ k - 1 \in 0 .. n - 1
  BY <1>1
<1>10. \A k \in 1 .. n : Content(s)[k] = t.mem[k - 1]
  BY <1>4, <1>6, <1>7, <1>9 DEF Keeps
<1>11. Content(t) = [k \in 1 .. n |-> t.mem[k - 1]]
  BY <1>6 DEF Content
<1>12. Content(t) = SubSeq(Content(s), 1, Len(Content(s)) - 1)
  BY <1>7, <1>8, <1>10, <1>11
<1> QED
  BY <1>6, <1>12 DEF n

LEMMA FreshString ==
    IsString(ksalloc) /\ ksalloc.length = 0 /\ Content(ksalloc) = <<>>
<1>1. STRING_MIN_SIZE \in Nat \ {0}
  BY StringAssumption
<1> DEFINE m == [Fresh(STRING_MIN_SIZE) EXCEPT ![0] = "NUL"]
           s == [mem |-> m, length |-> 0, cap |-> STRING_MIN_SIZE, spill |-> {}]
<1>2. m \in [0 .. STRING_MIN_SIZE - 1 -> Byte] /\ m[0] = "NUL"
  <2>1. Fresh(STRING_MIN_SIZE) \in [0 .. STRING_MIN_SIZE - 1 -> Byte]
    BY <1>1 DEF Fresh, Byte
  <2>2. 0 \in 0 .. STRING_MIN_SIZE - 1 /\ "NUL" \in Byte
    BY <1>1 DEF Byte
  <2> QED
    BY <2>1, <2>2
<1>3. ksalloc = s
  BY DEF ksalloc
<1> HIDE DEF m
<1>4. s.mem = m /\ s.length = 0 /\ s.cap = STRING_MIN_SIZE /\ s.spill = {}
      /\ s = [mem |-> s.mem, length |-> s.length, cap |-> s.cap, spill |-> s.spill]
  OBVIOUS
<1> HIDE DEF s
<1>5. IsString(s)
  BY <1>1, <1>2, <1>4 DEF IsString, Raw
<1>6. Content(s) = <<>>
  BY <1>4 DEF Content
<1> QED
  BY <1>3, <1>4, <1>5, <1>6

-----------------------------------------------------------------------------
(* Vectors of pieces, and pieces joined *)

IsVector(v) ==
    /\ v = [base |-> v.base, size |-> v.size, cap |-> v.cap]
    /\ v.cap \in Nat \ {0} /\ v.size \in 0 .. v.cap
    /\ v.base \in [0 .. v.cap - 1 -> Seq(Byte)]

LEMMA PiecesAre ==
    ASSUME NEW v, IsVector(v)
    PROVE  /\ Pieces(v) \in Seq(Seq(Byte)) /\ Len(Pieces(v)) = v.size
           /\ \A k \in 1 .. v.size : Pieces(v)[k] = v.base[k - 1]
<1>1. v.size \in Nat /\ \A k \in 1 .. v.size : v.base[k - 1] \in Seq(Byte)
  BY DEF IsVector
<1> QED
  BY <1>1 DEF Pieces

\* vector_push appends a piece, whether the vector has to grow or not.
LEMMA PushAppends ==
    ASSUME NEW v, IsVector(v), NEW e \in Seq(Byte), NEW t, t = Push(v, e)
    PROVE  IsVector(t) /\ t.size = v.size + 1 /\ Pieces(t) = Append(Pieces(v), e)
<1> DEFINE c == IF v.size = v.cap THEN 2 * v.cap ELSE v.cap
           b == [k \in 0 .. c - 1 |->
                    IF k = v.size THEN e ELSE IF k < v.size THEN v.base[k] ELSE <<>>]
<1>1. c \in Nat \ {0} /\ v.size \in Nat /\ v.size + 1 <= c /\ v.size <= v.cap /\ v.cap \in Nat
  BY DEF IsVector
<1>2. b \in [0 .. c - 1 -> Seq(Byte)]
  <2>1. \A k \in 0 .. c - 1 : k < v.size => v.base[k] \in Seq(Byte)
    BY <1>1 DEF IsVector
  <2> HIDE DEF c
  <2>2. <<>> \in Seq(Byte)
    OBVIOUS
  <2> QED
    BY <2>1, <2>2
<1>3. t = [base |-> b, size |-> v.size + 1, cap |-> c]
  <2>1. t = [[[v EXCEPT !.base = b] EXCEPT !.cap = c] EXCEPT !.size = v.size + 1]
    BY DEF Push, IsVector
  <2> HIDE DEF b, c
  <2>2. [v EXCEPT !.base = b] = [base |-> b, size |-> v.size, cap |-> v.cap]
    BY DEF IsVector
  <2>3. PICK h : h = [base |-> b, size |-> v.size, cap |-> v.cap]
    OBVIOUS
  <2>4. t = [[h EXCEPT !.cap = c] EXCEPT !.size = v.size + 1]
    BY <2>1, <2>2, <2>3
  <2> QED
    BY <2>3, <2>4
<1> HIDE DEF b, c
<1>4. t.base = b /\ t.size = v.size + 1 /\ t.cap = c
      /\ t = [base |-> t.base, size |-> t.size, cap |-> t.cap]
  BY <1>3
<1>5. IsVector(t)
  BY <1>1, <1>2, <1>4 DEF IsVector
<1>6. /\ Pieces(v) \in Seq(Seq(Byte)) /\ Len(Pieces(v)) = v.size
      /\ \A k \in 1 .. v.size : Pieces(v)[k] = v.base[k - 1]
  BY PiecesAre
<1>7. /\ Pieces(t) \in Seq(Seq(Byte)) /\ Len(Pieces(t)) = v.size + 1
      /\ \A k \in 1 .. v.size + 1 : Pieces(t)[k] = b[k - 1]
  BY <1>4, <1>5, PiecesAre
<1>8. \A k \in 1 .. v.size + 1 : b[k - 1] = IF k = v.size + 1 THEN e ELSE v.base[k - 1]
  BY <1>1 DEF b
<1>9. /\ Append(Pieces(v), e) \in Seq(Seq(Byte)) /\ Len(Append(Pieces(v), e)) = v.size + 1
      /\ \A k \in 1 .. v.size + 1 : Append(Pieces(v), e)[k] =
             IF k = v.size + 1 THEN e ELSE Pieces(v)[k]
  <2> DEFINE p == Pieces(v)
  <2> HIDE DEF p
  <2>1. p \in Seq(Seq(Byte)) /\ Len(p) = v.size /\ v.size \in Nat
    BY <1>1, <1>6 DEF p
  <2>2. /\ Append(p, e) \in Seq(Seq(Byte)) /\ Len(Append(p, e)) = v.size + 1
        /\ \A k \in 1 .. v.size + 1 : Append(p, e)[k] = IF k = v.size + 1 THEN e ELSE p[k]
    BY <2>1
  <2> QED
    BY <2>2 DEF p
<1>10. \A k \in 1 .. v.size + 1 : Pieces(t)[k] = Append(Pieces(v), e)[k]
  <2>1. \A k \in 1 .. v.size + 1 : k # v.size + 1 => k \in 1 .. v.size
    BY <1>1
  <2> QED
    BY <1>6, <1>7, <1>8, <1>9, <2>1
<1>11. Pieces(t) = Append(Pieces(v), e)
  BY <1>7, <1>9, <1>10, SeqEqual
<1> QED
  BY <1>4, <1>5, <1>11

LEMMA NewVector ==
    IsVector(Vector) /\ Vector.size = 0 /\ Pieces(Vector) = <<>>
<1>1. VECTOR_MIN \in Nat \ {0}
  BY StringAssumption
<1>2. <<>> \in Seq(Byte)
  OBVIOUS
<1>3. [k \in 0 .. VECTOR_MIN - 1 |-> <<>>] \in [0 .. VECTOR_MIN - 1 -> Seq(Byte)]
  BY <1>2
<1>4. IsVector(Vector)
  BY <1>1, <1>3 DEF IsVector, Vector
<1>5. Vector.size = 0
  BY DEF Vector
<1> QED
  BY <1>4, <1>5 DEF Pieces

LEMMA NatMin ==
    ASSUME NEW T \in SUBSET Nat, T # {}
    PROVE  \E m \in T : \A k \in T : m <= k
<1>1. PICK m \in T : \A k \in T : <<k, m>> \notin OpToRel(<, Nat)
  BY WFMin, NatLessThanWellFounded
<1>2. \A k \in T : ~(k < m)
  BY <1>1 DEF OpToRel
<1> QED
  BY <1>2

Sep(k) == IF k = 1 THEN <<>> ELSE <<" ">>

\* f has the joined pieces of P up to the k-th, for every k up to n.
Joins(f, P, n) ==
    /\ f \in [0 .. n -> Seq(Byte)] /\ f[0] = <<>>
    /\ \A k \in 1 .. n : f[k] = f[k - 1] \o Sep(k) \o P[k]

LEMMA OneType ==
    ASSUME NEW S, NEW e \in S
    PROVE  <<e>> \in Seq(S) /\ <<>> \in Seq(S) /\ Len(<<e>>) = 1 /\ <<e>>[1] = e
OBVIOUS

LEMMA AppendType ==
    ASSUME NEW S, NEW s \in Seq(S), NEW e \in S
    PROVE  Append(s, e) \in Seq(S) /\ Append(s, e) # <<>>
<1>1. Append(s, e) \in Seq(S) /\ Len(Append(s, e)) = Len(s) + 1
  OBVIOUS
<1>2. Len(s) \in Nat /\ Len(<<>>) = 0
  OBVIOUS
<1> QED
  BY <1>1, <1>2

LEMMA Regroup ==
    ASSUME NEW S, NEW a \in Seq(S), NEW b \in Seq(S), NEW c \in Seq(S)
    PROVE  a \o (b \o c) = (a \o b) \o c
BY ConcatAssociative

LEMMA ConcatType ==
    ASSUME NEW k, NEW a \in Seq(Byte), NEW b \in Seq(Byte)
    PROVE  Sep(k) \in Seq(Byte) /\ a \o Sep(k) \o b \in Seq(Byte)
<1>1. <<" ">> \in Seq(Byte) /\ <<>> \in Seq(Byte)
  <2>1. " " \in Byte
    BY DEF Byte
  <2> QED
    BY <2>1, OneType
<1>2. Sep(k) \in Seq(Byte)
  BY <1>1 DEF Sep
<1>3. PICK s \in Seq(Byte) : s = Sep(k)
  BY <1>2
<1>4. a \o s \in Seq(Byte)
  BY ConcatProperties
<1>5. (a \o s) \o b \in Seq(Byte)
  BY <1>4, ConcatProperties
<1> QED
  BY <1>2, <1>3, <1>5

LEMMA JoinExists ==
    ASSUME NEW P \in Seq(Seq(Byte))
    PROVE  \A n \in 0 .. Len(P) : \E f : Joins(f, P, n)
<1> DEFINE T == {n \in 0 .. Len(P) : ~\E f : Joins(f, P, n)}
<1> SUFFICES ASSUME T # {} PROVE FALSE
  OBVIOUS
<1>1. PICK m \in T : \A k \in T : m <= k
  <2>1. T \in SUBSET Nat
    OBVIOUS
  <2> HIDE DEF T
  <2> QED
    BY <2>1, NatMin
<1>2. m \in 0 .. Len(P) /\ Len(P) \in Nat /\ ~\E f : Joins(f, P, m)
  OBVIOUS
<1>3. m # 0
  <2> DEFINE g == [j \in 0 .. 0 |-> <<>>]
  <2>1. <<>> \in Seq(Byte)
    OBVIOUS
  <2>2. Joins(g, P, 0)
    BY <2>1 DEF Joins
  <2> QED
    BY <1>2, <2>2
<1>4. m - 1 \in 0 .. Len(P) /\ m - 1 \notin T
  <2> HIDE DEF T
  <2> QED
    BY <1>1, <1>2, <1>3
<1>5. PICK f : Joins(f, P, m - 1)
  BY <1>4
<1> HIDE DEF T
<1> DEFINE w == f[m - 1] \o Sep(m) \o P[m]
           g == [j \in 0 .. m |-> IF j = m THEN w ELSE f[j]]
<1>6. /\ f \in [0 .. m - 1 -> Seq(Byte)] /\ f[0] = <<>>
      /\ \A k \in 1 .. m - 1 : f[k] = f[k - 1] \o Sep(k) \o P[k]
  BY <1>5 DEF Joins
<1>7. w \in Seq(Byte)
  <2>1. f[m - 1] \in Seq(Byte) /\ P[m] \in Seq(Byte)
    BY <1>2, <1>3, <1>6
  <2> QED
    BY <2>1, ConcatType
<1>8. g[m] = w /\ \A j \in 0 .. m - 1 : g[j] = f[j]
  <2> HIDE DEF w
  <2> QED
    BY <1>2
<1> HIDE DEF w
<1>9. g \in [0 .. m -> Seq(Byte)]
  <2>1. \A j \in 0 .. m : j # m => f[j] \in Seq(Byte)
    BY <1>2, <1>6
  <2> QED
    BY <1>7, <2>1
<1> HIDE DEF g
<1>10. ASSUME NEW k \in 1 .. m PROVE g[k] = g[k - 1] \o Sep(k) \o P[k]
  <2>1. k - 1 \in 0 .. m - 1 /\ g[k - 1] = f[k - 1]
    BY <1>2, <1>8
  <2>2. CASE k = m
    BY <1>8, <2>1, <2>2 DEF w
  <2>3. CASE k # m
    <3>1. k \in 1 .. m - 1 /\ k \in 0 .. m - 1
      BY <1>2, <2>3
    <3> QED
      BY <1>6, <1>8, <2>1, <3>1
  <2> QED
    BY <2>2, <2>3
<1>11. g[0] = <<>>
  BY <1>2, <1>3, <1>6, <1>8
<1>12. Joins(g, P, m)
  BY <1>9, <1>10, <1>11 DEF Joins
<1> QED
  BY <1>2, <1>12

LEMMA JoinIs ==
    ASSUME NEW P \in Seq(Seq(Byte)), NEW f, Joins(f, P, Len(P))
    PROVE  Join(P) = f[Len(P)]
<1> DEFINE R(g) == [k \in 0 .. Len(P) |->
                      IF k = 0 THEN <<>>
                      ELSE g[k - 1] \o (IF k = 1 THEN <<>> ELSE <<" ">>) \o P[k]]
           w == CHOOSE g : g = R(g)
<1>1. Join(P) = w[Len(P)]
  BY DEF Join
<1>2. Len(P) \in Nat
  OBVIOUS
<1>3. R(f) = f
  <2>1. \A k \in 0 .. Len(P) : R(f)[k] = f[k]
    <3> SUFFICES ASSUME NEW k \in 0 .. Len(P) PROVE R(f)[k] = f[k]
      OBVIOUS
    <3>1. CASE k = 0
      BY <3>1 DEF Joins
    <3>2. CASE k # 0
      <4>1. k \in 1 .. Len(P)
        BY <1>2, <3>2
      <4>2. f[k] = f[k - 1] \o Sep(k) \o P[k]
        BY <4>1 DEF Joins
      <4> QED
        BY <3>2, <4>2 DEF Sep
    <3> QED
      BY <3>1, <3>2
  <2>2. f \in [0 .. Len(P) -> Seq(Byte)]
    BY DEF Joins
  <2> QED
    BY <2>1, <2>2
<1>4. w = R(w)
  <2> HIDE DEF R
  <2> QED
    BY <1>3
<1> HIDE DEF w
<1>5. /\ \A k \in 1 .. Len(P) : w[k] = w[k - 1] \o Sep(k) \o P[k]
      /\ w[0] = <<>> /\ w = [k \in 0 .. Len(P) |-> w[k]]
  <2>1. \A k \in 0 .. Len(P) : R(w)[k] =
            IF k = 0 THEN <<>> ELSE w[k - 1] \o (IF k = 1 THEN <<>> ELSE <<" ">>) \o P[k]
    OBVIOUS
  <2>2. DOMAIN R(w) = 0 .. Len(P) /\ R(w) = [k \in DOMAIN R(w) |-> R(w)[k]]
    OBVIOUS
  <2> HIDE DEF R
  <2>3. \A k \in 0 .. Len(P) : w[k] =
            IF k = 0 THEN <<>> ELSE w[k - 1] \o (IF k = 1 THEN <<>> ELSE <<" ">>) \o P[k]
    BY <1>4, <2>1
  <2>4. 0 \in 0 .. Len(P) /\ \A k \in 1 .. Len(P) : k \in 0 .. Len(P) /\ k # 0
    BY <1>2
  <2>5. w = [k \in 0 .. Len(P) |-> w[k]]
    BY <1>4, <2>2
  <2>6. \A k \in 1 .. Len(P) : w[k] = w[k - 1] \o (IF k = 1 THEN <<>> ELSE <<" ">>) \o P[k]
    BY <2>3, <2>4
  <2> QED
    BY <2>3, <2>4, <2>5, <2>6 DEF Sep
<1>6. \A k \in 0 .. Len(P) : w[k] = f[k]
  <2> DEFINE T == {k \in 0 .. Len(P) : w[k] # f[k]}
  <2> SUFFICES ASSUME T # {} PROVE FALSE
    OBVIOUS
  <2>1. PICK m \in T : \A k \in T : m <= k
    <3>1. T \in SUBSET Nat
      OBVIOUS
    <3> HIDE DEF T
    <3> QED
      BY <3>1, NatMin
  <2>2. m \in 0 .. Len(P) /\ w[m] # f[m]
    OBVIOUS
  <2>3. m # 0
    BY <1>5, <2>2 DEF Joins
  <2>4. m \in 1 .. Len(P) /\ m - 1 \in 0 .. Len(P) /\ m - 1 \notin T
    BY <2>1, <2>2, <2>3
  <2>5. w[m - 1] = f[m - 1]
    BY <2>4
  <2>6. w[m] = w[m - 1] \o Sep(m) \o P[m] /\ f[m] = f[m - 1] \o Sep(m) \o P[m]
    BY <1>5, <2>4 DEF Joins
  <2> QED
    BY <2>2, <2>5, <2>6
<1> QED
  BY <1>1, <1>2, <1>6

\* One more piece comes after a separator, unless it is the first.
LEMMA JoinAppend ==
    ASSUME NEW P \in Seq(Seq(Byte)), NEW e \in Seq(Byte)
    PROVE  /\ Join(P) \in Seq(Byte)
           /\ Join(Append(P, e)) = Join(P) \o Sep(Len(P) + 1) \o e
           /\ P = <<>> => Join(P) = <<>>
<1> DEFINE n == Len(P)
<1>0. PICK Q : Q = Append(P, e)
  OBVIOUS
<1>1. /\ n \in Nat /\ Q \in Seq(Seq(Byte)) /\ Len(Q) = n + 1 /\ Q[n + 1] = e
      /\ \A k \in 1 .. n : Q[k] = P[k]
  BY <1>0
<1> HIDE DEF n
<1>2. PICK f : Joins(f, Q, n + 1)
  <2>1. n + 1 \in 0 .. Len(Q)
    BY <1>1
  <2> QED
    BY <1>1, <2>1, JoinExists
<1> DEFINE g == [k \in 0 .. n |-> f[k]]
<1>3. /\ f \in [0 .. n + 1 -> Seq(Byte)] /\ f[0] = <<>>
      /\ \A k \in 1 .. n + 1 : f[k] = f[k - 1] \o Sep(k) \o Q[k]
  BY <1>2 DEF Joins
<1>4. g \in [0 .. n -> Seq(Byte)] /\ \A k \in 0 .. n : g[k] = f[k]
  BY <1>1, <1>3
<1> HIDE DEF g
<1>5. ASSUME NEW k \in 1 .. n PROVE g[k] = g[k - 1] \o Sep(k) \o P[k]
  <2>1. k \in 1 .. n + 1 /\ k \in 0 .. n /\ k - 1 \in 0 .. n
    BY <1>1
  <2> QED
    BY <1>1, <1>3, <1>4, <2>1
<1>6. Joins(g, P, n)
  <2>1. g[0] = <<>>
    BY <1>1, <1>3, <1>4
  <2> QED
    BY <1>4, <1>5, <2>1 DEF Joins
<1>7. Join(P) = g[n] /\ Join(P) = f[n]
  BY <1>1, <1>4, <1>6, JoinIs DEF n
<1>8. Join(Q) = f[n + 1]
  BY <1>1, <1>2, JoinIs
<1>9. n + 1 \in 1 .. n + 1 /\ (n + 1) - 1 = n /\ n \in 0 .. n + 1
  BY <1>1
<1>10. f[n + 1] = f[n] \o Sep(n + 1) \o e
  BY <1>1, <1>3, <1>9
<1>11. P = <<>> => n = 0
  BY DEF n
<1> QED
  BY <1>0, <1>3, <1>7, <1>8, <1>9, <1>10, <1>11 DEF n

\* A byte of a piece, and a separator with an empty piece after it
LEMMA JoinGrows ==
    ASSUME NEW P \in Seq(Seq(Byte)), NEW e \in Seq(Byte)
    PROVE  /\ \A c \in Byte : Join(Append(P, e \o <<c>>)) = Join(Append(P, e)) \o <<c>>
           /\ Join(Append(P, e)) \in Seq(Byte)
           /\ Join(Append(Append(P, e), <<>>)) = Join(Append(P, e)) \o <<" ">>
           /\ P # <<>> => Join(Append(P, <<>>)) = Join(P) \o <<" ">>
           /\ Join(Append(<<>>, <<>>)) = <<>>
<1>1. PICK j \in Seq(Byte) : j = Join(P) \o Sep(Len(P) + 1)
  <2>1. Join(P) \in Seq(Byte) /\ Sep(Len(P) + 1) \in Seq(Byte)
    BY JoinAppend, ConcatType
  <2>2. PICK a \in Seq(Byte), b \in Seq(Byte) : a = Join(P) /\ b = Sep(Len(P) + 1)
    BY <2>1
  <2>3. a \o b \in Seq(Byte)
    BY ConcatProperties
  <2> QED
    BY <2>2, <2>3
<1>2. \A d \in Seq(Byte) : Join(Append(P, d)) = j \o d
  BY <1>1, JoinAppend
<1>3. ASSUME NEW c \in Byte PROVE Join(Append(P, e \o <<c>>)) = Join(Append(P, e)) \o <<c>>
  <2>1. PICK d \in Seq(Byte) : d = <<c>>
    BY OneType
  <2>2. e \o d \in Seq(Byte)
    BY ConcatProperties
  <2>3. Join(Append(P, e \o d)) = j \o (e \o d)
    BY <1>2, <2>2
  <2>4. j \o (e \o d) = (j \o e) \o d
    BY Regroup
  <2> QED
    BY <1>2, <2>1, <2>3, <2>4
<1>4. Join(Append(P, e)) \in Seq(Byte)
  <2>1. j \o e \in Seq(Byte)
    BY ConcatProperties
  <2> QED
    BY <1>2, <2>1
<1>5. ASSUME NEW R \in Seq(Seq(Byte)), R # <<>>
      PROVE  Join(Append(R, <<>>)) = Join(R) \o <<" ">>
  <2>1. Len(R) + 1 # 1 /\ <<>> \in Seq(Byte)
    BY <1>5
  <2>2. PICK r \in Seq(Byte), d \in Seq(Byte) : r = Join(R) /\ d = <<" ">>
    <3>1. " " \in Byte
      BY DEF Byte
    <3> QED
      BY <2>1, <3>1, JoinAppend, OneType
  <2>3. Sep(Len(R) + 1) = d
    BY <2>1, <2>2 DEF Sep
  <2>4. Join(Append(R, <<>>)) = r \o d \o <<>>
    BY <2>1, <2>2, <2>3, JoinAppend
  <2>5. r \o d \in Seq(Byte)
    BY ConcatProperties
  <2>6. (r \o d) \o <<>> = r \o d
    BY <2>5, ConcatEmptySeq
  <2> QED
    BY <2>2, <2>4, <2>6
<1>6. Append(P, e) \in Seq(Seq(Byte)) /\ Append(P, e) # <<>>
  BY AppendType
<1>7. Join(Append(Append(P, e), <<>>)) = Join(Append(P, e)) \o <<" ">>
  BY <1>5, <1>6
<1>8. Join(Append(<<>>, <<>>)) = <<>>
  <2>1. PICK R \in Seq(Seq(Byte)), d \in Seq(Byte) : R = <<>> /\ d = <<>>
    BY EmptySeq
  <2>2. Join(Append(R, d)) = Join(R) \o Sep(Len(R) + 1) \o d /\ Join(R) = d
    BY <2>1, JoinAppend
  <2>3. Sep(Len(R) + 1) = d
    BY <2>1 DEF Sep
  <2>4. d \o d \o d = d
    BY <2>1
  <2> QED
    BY <2>1, <2>2, <2>3, <2>4
<1> QED
  BY <1>3, <1>4, <1>5, <1>7, <1>8

-----------------------------------------------------------------------------
(* The inductive invariant *)

Chars == Letter \cup {" "}

\* run_shell between its steps: kssplit is inside the line, a piece is never
\* longer than what was read, and before the first piece is pushed, what was read
\* is in sub, even after a byte was lost.
ShellInv ==
    /\ IsString(sub) /\ IsVector(vec)
    /\ line \in Seq(Chars) /\ pos \in Nat \ {0} /\ failed \in BOOLEAN
    /\ nulls \in Seq(Nat) /\ live \in Int
    /\ at \in {"prompt", "split", "nosub", "exec", "dead"}
    /\ at \in {"split", "nosub"} => Len(line) \in 1 .. MaxText /\ pos <= Len(line) + 1
    /\ at = "split" =>
        /\ sub.length < pos
        /\ vec.size = 0 /\ pos > 1 => sub.length > 0
    /\ ~failed => nulls = <<>> /\ at # "nosub"
    /\ at = "exec" => vec.size > 0
    /\ at = "prompt" => vec.size = 0
    /\ at = "dead" => failed

\* Two blocks for every piece in the vector, and two for the one in the making
Counted == ~failed => live = Held + 2 * vec.size + (IF at = "split" THEN 2 ELSE 0)

\* The pieces with the one in the making are the part of the line that was read.
Joined ==
    ~failed =>
        /\ at = "split" => Join(Append(Pieces(vec), Content(sub))) = SubSeq(line, 1, pos - 1)
        /\ at = "exec" => Join(Pieces(vec)) = line \/ Join(Pieces(vec)) \o <<" ">> = line

StringInv == IsString(kstr) /\ Content(kstr) = text

LEMMA SubSeqGrows ==
    ASSUME NEW s \in Seq(Byte), NEW p \in 1 .. Len(s)
    PROVE  SubSeq(s, 1, p) = SubSeq(s, 1, p - 1) \o <<s[p]>>
<1>1. p - 1 \in Nat /\ p \in Nat /\ Len(s) \in Nat /\ s[p] \in Byte
  OBVIOUS
<1>2. PICK a : a = SubSeq(s, 1, p - 1)
  OBVIOUS
<1>3. a \in Seq(Byte) /\ Len(a) = p - 1 /\ \A k \in 1 .. p - 1 : a[k] = s[k]
  BY <1>1, <1>2
<1>4. PICK b : b = SubSeq(s, 1, p)
  OBVIOUS
<1>5. b \in Seq(Byte) /\ Len(b) = p /\ \A k \in 1 .. p : b[k] = s[k]
  BY <1>1, <1>4
<1>6. PICK d \in Seq(Byte) : d = <<s[p]>>
  BY <1>1, OneType
<1>7. Len(d) = 1 /\ d[1] = s[p]
  BY <1>1, <1>6, OneType
<1>8. /\ a \o d \in Seq(Byte) /\ Len(a \o d) = Len(a) + Len(d)
      /\ \A k \in 1 .. Len(a) + Len(d) :
            (a \o d)[k] = IF k <= Len(a) THEN a[k] ELSE d[k - Len(a)]
  BY <1>3, ConcatProperties
<1>9. \A k \in 1 .. p : b[k] = (a \o d)[k]
  <2> SUFFICES ASSUME NEW k \in 1 .. p PROVE b[k] = (a \o d)[k]
    OBVIOUS
  <2>1. (a \o d)[k] = IF k <= p - 1 THEN a[k] ELSE d[k - (p - 1)]
    BY <1>1, <1>3, <1>7, <1>8
  <2>2. CASE k <= p - 1
    <3>1. k \in 1 .. p - 1
      BY <1>1, <2>2
    <3> QED
      BY <1>3, <1>5, <2>1, <2>2, <3>1
  <2>3. CASE ~(k <= p - 1)
    <3>1. k = p /\ k - (p - 1) = 1
      BY <1>1, <2>3
    <3> QED
      BY <1>5, <1>7, <2>1, <2>3, <3>1
  <2> QED
    BY <2>2, <2>3
<1>10. Len(a \o d) = p
  BY <1>1, <1>3, <1>7, <1>8
<1>11. b = a \o d
  BY <1>5, <1>8, <1>9, <1>10, SeqEqual
<1> QED
  BY <1>2, <1>4, <1>6, <1>11

LEMMA TextsAre ==
    ASSUME NEW n \in Nat, NEW l \in Texts(n)
    PROVE  l \in Seq(Chars) /\ l \in Seq(Byte) /\ Len(l) \in 1 .. n
<1>1. PICK m \in 1 .. n : l \in [1 .. m -> Chars]
  BY DEF Texts, Chars
<1>2. l \in Seq(Chars) /\ Len(l) = m
  BY <1>1
<1>3. Chars \subseteq Byte
  BY DEF Chars, Byte
<1> QED
  BY <1>2, <1>3, SeqMonotonic

LEMMA StringStep ==
    ASSUME StringInv, StringNext
    PROVE  StringInv'
<1>1. IsString(kstr) /\ Content(kstr) = text
  BY DEF StringInv
<1>2. Len(text) = kstr.length
  BY <1>1, ContentIs DEF IsString
<1>3. ASSUME NEW str \in Texts(2), AppendStr(str) PROVE StringInv'
  <2>1. kstr.length + Len(str) <= MaxText /\ kstr' = append(kstr, str) /\ text' = text \o str
    BY <1>3 DEF AppendStr
  <2>2. str \in Seq(Byte)
    BY TextsAre
  <2>3. IsString(kstr') /\ Content(kstr') = Content(kstr) \o str
    BY <1>1, <2>1, <2>2, AppendKeeps
  <2> QED
    BY <1>1, <2>1, <2>3 DEF StringInv
<1>4. ASSUME NEW str \in Texts(2), AppendFails(str) PROVE StringInv'
  BY <1>1, <1>4 DEF AppendFails, string, StringInv
<1>5. CASE PopChar
  <2>1. /\ kstr.length > 0
        /\ kstr' = put([kstr EXCEPT !.length = @ - 1], kstr.length - 1, "NUL")
        /\ text' = SubSeq(text, 1, Len(text) - 1)
    BY <1>5 DEF PopChar
  <2>2. IsString(kstr') /\ Content(kstr') = SubSeq(Content(kstr), 1, Len(Content(kstr)) - 1)
    BY <1>1, <2>1, PopKeeps
  <2> QED
    BY <1>1, <2>1, <2>2 DEF StringInv
<1>6. ASSUME NEW n \in 0 .. MaxText, Fit("b", n) PROVE StringInv'
  <2>1. /\ kstr' = fit(kstr, "b", n)
        /\ text' = [k \in 1 .. n |-> IF k <= Len(text) THEN text[k] ELSE "b"]
    BY <1>6 DEF Fit
  <2>2. "b" \in Byte
    BY DEF Byte, Letter
  <2>3. IsString(kstr')
        /\ Content(kstr') = [k \in 1 .. n |-> IF k <= kstr.length THEN Content(kstr)[k] ELSE "b"]
    BY <1>1, <2>1, <2>2, FitKeeps
  <2> QED
    BY <1>1, <1>2, <2>1, <2>3 DEF StringInv
<1> QED
  BY <1>3, <1>4, <1>5, <1>6 DEF StringNext

LEMMA LineFacts ==
    ASSUME ShellInv
    PROVE  line \in Seq(Byte) /\ \A k \in 1 .. Len(line) : line[k] \in Byte
<1>1. Chars \subseteq Byte /\ line \in Seq(Chars)
  BY DEF ShellInv, Chars, Byte
<1>2. line \in Seq(Byte)
  BY <1>1, SeqMonotonic
<1> QED
  BY <1>2

\* What kssplit has when it finds a byte, a space or the end
LEMMA SplitFacts ==
    ASSUME ShellInv, at = "split"
    PROVE  /\ IsString(sub) /\ IsVector(vec) /\ Pieces(vec) \in Seq(Seq(Byte))
           /\ Content(sub) \in Seq(Byte) /\ Len(Content(sub)) = sub.length
           /\ vec.size \in Nat /\ vec.cap \in Nat \ {0} /\ sub.length \in Nat /\ pos \in Nat \ {0}
           /\ Len(line) \in 1 .. MaxText /\ pos <= Len(line) + 1 /\ sub.length < pos
           /\ vec.size = 0 /\ pos > 1 => sub.length > 0
           /\ Len(Pieces(vec)) = vec.size /\ live \in Int /\ failed \in BOOLEAN /\ nulls \in Seq(Nat)
<1>1. IsString(sub) /\ IsVector(vec)
  BY DEF ShellInv
<1>2. Content(sub) \in Seq(Byte) /\ Len(Content(sub)) = sub.length
  BY <1>1, ContentIs DEF IsString
<1>3. Pieces(vec) \in Seq(Seq(Byte)) /\ Len(Pieces(vec)) = vec.size
  BY <1>1, PiecesAre
<1>4. vec.size \in Nat /\ vec.cap \in Nat \ {0} /\ sub.length \in Nat
  BY <1>1 DEF IsString, Raw, IsVector
<1> QED
  BY <1>1, <1>2, <1>3, <1>4 DEF ShellInv

\* kssplit without a piece: it is inside the line, and will not leave it without
\* one piece pushed.
LEMMA NoSubInv ==
    ASSUME ShellInv, at' = "nosub", failed' = TRUE, sub' = sub, live' = live,
           line' \in Seq(Chars), Len(line') \in 1 .. MaxText,
           pos' \in Nat \ {0}, pos' <= Len(line') + 1, IsVector(vec'), nulls' \in Seq(Nat)
    PROVE  ShellInv' /\ Counted' /\ Joined'
BY DEF ShellInv, Counted, Joined

LEMMA ReadLineInv ==
    ASSUME ShellInv, Counted, Joined, NEW l \in Texts(MaxText), ReadLine(l)
    PROVE  ShellInv' /\ Counted' /\ Joined'
<1>0. at = "prompt" /\ ~failed /\ line' = l /\ pos' = 1 /\ vec' = vec /\ nulls' = nulls
  BY DEF ReadLine
<1>2. l \in Seq(Chars) /\ Len(l) \in 1 .. MaxText
  BY TextsAre, StringAssumption
<1>a. CASE at' = "nosub" /\ failed' = TRUE /\ UNCHANGED <<sub, live>>
  <2>1. IsVector(vec') /\ nulls' \in Seq(Nat) /\ pos' <= Len(line') + 1
    BY <1>0, <1>2 DEF ShellInv
  <2> QED
    BY <1>0, <1>2, <1>a, <2>1, NoSubInv
<1>b. CASE at' = "split" /\ sub' = ksalloc /\ live' = live + 2 /\ failed' = (failed \/ FALSE)
  <2>1. /\ at = "prompt" /\ ~failed /\ line' = l /\ pos' = 1 /\ at' = "split" /\ sub' = ksalloc
        /\ live' = live + 2 /\ vec' = vec /\ failed' = failed /\ nulls' = nulls
    BY <1>0, <1>b DEF ShellInv
  <2>3. vec.size = 0 /\ IsVector(vec) /\ live \in Int /\ live = Held + 0
    BY <2>1 DEF ShellInv, Counted, Held
  <2>4. ShellInv'
    BY <2>1, <1>2, <2>3, FreshString DEF ShellInv
  <2>5. Counted'
    BY <2>1, <2>3 DEF Counted, Held
  <2>6. Pieces(vec) = <<>>
    BY <2>3 DEF Pieces
  <2>7. SubSeq(l, 1, 0) = <<>>
    OBVIOUS
  <2>8. <<>> \in Seq(Seq(Byte)) /\ <<>> \in Seq(Byte)
    BY EmptySeq
  <2>9. Join(Append(<<>>, <<>>)) = <<>>
    BY <2>8, JoinGrows
  <2>10. Joined'
    <3>1. Pieces(vec') = <<>> /\ Content(sub') = <<>> /\ pos' - 1 = 0
      BY <2>1, <2>6, FreshString
    <3> QED
      BY <2>1, <2>7, <2>9, <3>1 DEF Joined
  <2> QED
    BY <2>4, <2>5, <2>10
<1> QED
  BY <1>a, <1>b DEF ReadLine, NewSub

LEMMA SplitByteInv ==
    ASSUME ShellInv, Counted, Joined, SplitByte
    PROVE  ShellInv' /\ Counted' /\ Joined'
<1>1. /\ at = "split" /\ pos <= Len(line) /\ sub' = append(sub, <<line[pos]>>) /\ pos' = pos + 1
      /\ line' = line /\ vec' = vec /\ at' = at /\ live' = live /\ failed' = failed
      /\ nulls' = nulls
  BY DEF SplitByte
<1>2. pos \in 1 .. Len(line) /\ line[pos] \in Byte /\ line \in Seq(Byte)
  BY <1>1, SplitFacts, LineFacts
<1>3. PICK d \in Seq(Byte) : d = <<line[pos]>> /\ Len(d) = 1
  BY <1>2, OneType
<1>4. sub.length + Len(d) <= MaxText
  BY <1>1, <1>3, SplitFacts, StringAssumption
<1>5. IsString(sub') /\ sub'.length = sub.length + 1 /\ Content(sub') = Content(sub) \o d
  BY <1>1, <1>3, <1>4, SplitFacts, AppendKeeps
<1>6. ShellInv'
  <2>0. sub.length \in Nat /\ sub.length < pos /\ sub'.length = sub.length + 1 /\ pos' = pos + 1
    BY <1>1, <1>5, SplitFacts
  <2>1. sub'.length < pos' /\ sub'.length > 0 /\ pos' \in Nat \ {0} /\ pos' <= Len(line) + 1
    BY <1>2, <2>0
  <2> QED
    BY <1>1, <1>5, <2>1 DEF ShellInv
<1>7. Counted'
  BY <1>1 DEF Counted
<1>8. ASSUME ~failed PROVE Join(Append(Pieces(vec), Content(sub'))) = SubSeq(line, 1, pos)
  <2>1. Join(Append(Pieces(vec), Content(sub) \o <<line[pos]>>))
          = Join(Append(Pieces(vec), Content(sub))) \o <<line[pos]>>
    BY <1>1, <1>2, SplitFacts, JoinGrows
  <2>2. Join(Append(Pieces(vec), Content(sub))) = SubSeq(line, 1, pos - 1)
    BY <1>1, <1>8 DEF Joined
  <2>3. SubSeq(line, 1, pos) = SubSeq(line, 1, pos - 1) \o <<line[pos]>>
    BY <1>2, SubSeqGrows
  <2> QED
    BY <1>3, <1>5, <2>1, <2>2, <2>3
<1>9. Joined'
  <2>1. pos' - 1 = pos
    BY <1>1, <1>2
  <2> QED
    BY <1>1, <1>8, <2>1 DEF Joined
<1> QED
  BY <1>6, <1>7, <1>9

LEMMA SplitByteFailsInv ==
    ASSUME ShellInv, Counted, Joined, SplitByteFails
    PROVE  ShellInv' /\ Counted' /\ Joined'
<1>1. /\ at = "split" /\ pos <= Len(line) /\ Short(sub, sub.length + 1) /\ pos' = pos + 1
      /\ failed' = TRUE /\ line' = line /\ sub' = sub /\ vec' = vec /\ at' = at /\ live' = live
      /\ nulls' = nulls
  BY DEF SplitByteFails
<1>2. sub.length > 0
  <2>1. sub.cap < sub.length + 1 /\ sub.cap \in Nat \ {0} /\ sub.length \in Nat
    BY <1>1, SplitFacts DEF Short, IsString, Raw
  <2> QED
    BY <2>1
<1>3. pos' \in Nat \ {0} /\ pos' <= Len(line) + 1 /\ sub.length < pos'
  BY <1>1, SplitFacts
<1> QED
  BY <1>1, <1>2, <1>3 DEF ShellInv, Counted, Joined

LEMMA SplitSpaceInv ==
    ASSUME ShellInv, Counted, Joined, SplitSpace
    PROVE  ShellInv' /\ Counted' /\ Joined'
<1>0. line[pos] = " "
  BY DEF SplitSpace
<1>1. /\ at = "split" /\ pos <= Len(line) /\ vec' = Push(vec, Content(sub))
      /\ pos' = pos + 1 /\ line' = line /\ nulls' = nulls
  BY DEF SplitSpace
<1>2. pos \in 1 .. Len(line) /\ line \in Seq(Byte) /\ failed \in BOOLEAN /\ nulls \in Seq(Nat)
  BY <1>1, SplitFacts, LineFacts
<1>3. IsVector(vec') /\ vec'.size = vec.size + 1 /\ Pieces(vec') = Append(Pieces(vec), Content(sub))
  BY <1>1, SplitFacts, PushAppends
<1>a. CASE at' = "nosub" /\ failed' = TRUE /\ UNCHANGED <<sub, live>>
  <2>1. line' \in Seq(Chars) /\ Len(line') \in 1 .. MaxText
    BY <1>1 DEF ShellInv
  <2>2. pos' \in Nat \ {0} /\ pos' <= Len(line') + 1
    BY <1>1, <1>2
  <2> QED
    BY <1>1, <1>2, <1>3, <1>a, <2>1, <2>2, NoSubInv
<1>b. CASE at' = "split" /\ sub' = ksalloc /\ live' = live + 2 /\ failed' = (failed \/ FALSE)
  <2>1. at' = at /\ failed' = failed /\ sub' = ksalloc /\ live' = live + 2
    BY <1>1, <1>2, <1>b
  <2>4. ShellInv'
    <3>1. 0 < pos' /\ pos' \in Nat \ {0} /\ pos' <= Len(line) + 1 /\ vec'.size # 0
      BY <1>1, <1>2, <1>3, SplitFacts
    <3>2. live' \in Int
      BY <1>1, <2>1, SplitFacts
    <3> QED
      BY <1>1, <1>3, <2>1, <3>1, <3>2, FreshString DEF ShellInv
  <2>5. Counted'
    <3>1. vec.size \in Nat /\ live \in Int
      BY <1>1, SplitFacts
    <3> QED
      BY <1>1, <1>3, <2>1, <3>1 DEF Counted, Held
  <2>6. ASSUME ~failed PROVE Join(Append(Pieces(vec'), <<>>)) = SubSeq(line, 1, pos)
    <3>1. Join(Append(Append(Pieces(vec), Content(sub)), <<>>))
            = Join(Append(Pieces(vec), Content(sub))) \o <<" ">>
      BY <1>1, SplitFacts, JoinGrows
    <3>2. Join(Append(Pieces(vec), Content(sub))) = SubSeq(line, 1, pos - 1)
      BY <1>1, <2>6 DEF Joined
    <3>3. SubSeq(line, 1, pos) = SubSeq(line, 1, pos - 1) \o <<line[pos]>>
      BY <1>2, SubSeqGrows
    <3> QED
      BY <1>0, <1>3, <3>1, <3>2, <3>3
  <2>7. Joined'
    <3>1. pos' - 1 = pos /\ Content(sub') = <<>>
      BY <1>1, <1>2, <2>1, FreshString
    <3> QED
      BY <1>1, <2>1, <2>6, <3>1 DEF Joined
  <2> QED
    BY <2>4, <2>5, <2>7
<1> QED
  BY <1>a, <1>b DEF SplitSpace, NewSub

\* kssplit goes on after a failure, with a vector that has a piece.
LEMMA AfterFailure ==
    ASSUME ShellInv, at \in {"split", "nosub"}, pos <= Len(line), pos' = pos + 1, line' = line,
           NEW lost \in BOOLEAN, NewSub(lost), failed \/ lost,
           IsVector(vec'), vec'.size # 0, nulls' \in Seq(Nat)
    PROVE  ShellInv' /\ Counted' /\ Joined'
<1>1. /\ line' \in Seq(Chars) /\ Len(line') \in 1 .. MaxText /\ pos \in Nat \ {0} /\ live \in Int
      /\ failed \in BOOLEAN
  BY DEF ShellInv
<1>2. pos' \in Nat \ {0} /\ pos' <= Len(line') + 1 /\ 0 < pos'
  BY <1>1
<1>3. CASE at' = "nosub" /\ failed' = TRUE /\ UNCHANGED <<sub, live>>
  BY <1>1, <1>2, <1>3, NoSubInv
<1>4. CASE at' = "split" /\ sub' = ksalloc /\ live' = live + 2 /\ failed' = (failed \/ lost)
  <2>1. failed' = TRUE /\ live' \in Int
    BY <1>1, <1>4
  <2> QED
    BY <1>1, <1>2, <1>4, <2>1, FreshString DEF ShellInv, Counted, Joined
<1> QED
  BY <1>3, <1>4 DEF NewSub

LEMMA SplitSpaceFailsInv ==
    ASSUME ShellInv, Counted, Joined, SplitSpaceFails
    PROVE  ShellInv' /\ Counted' /\ Joined'
<1>1. /\ at = "split" /\ pos <= Len(line) /\ vec.size = vec.cap /\ pos' = pos + 1
      /\ line' = line /\ vec' = vec /\ nulls' = nulls /\ NewSub(TRUE)
  BY DEF SplitSpaceFails
<1>2. IsVector(vec') /\ vec'.size # 0 /\ nulls' \in Seq(Nat)
  BY <1>1, SplitFacts
<1> QED
  BY <1>1, <1>2, AfterFailure

LEMMA NullSpaceInv ==
    ASSUME ShellInv, Counted, Joined, NullSpace
    PROVE  ShellInv' /\ Counted' /\ Joined'
<1>1. at = "nosub" /\ pos <= Len(line) /\ pos' = pos + 1 /\ line' = line /\ NewSub(FALSE)
  BY DEF NullSpace
<1>2. IsVector(vec) /\ vec.size \in Nat /\ vec.cap \in Nat \ {0} /\ nulls \in Seq(Nat) /\ failed
  BY <1>1 DEF ShellInv, IsVector
<1>3. CASE vec' = Push(vec, <<>>) /\ nulls' = Append(nulls, vec.size)
  <2>1. IsVector(vec') /\ vec'.size = vec.size + 1
    BY <1>2, <1>3, EmptySeq, PushAppends
  <2>2. nulls' \in Seq(Nat) /\ vec'.size # 0
    BY <1>2, <1>3, <2>1
  <2> QED
    BY <1>1, <1>2, <2>1, <2>2, AfterFailure
<1>4. CASE vec.size = vec.cap /\ UNCHANGED <<vec, nulls>>
  BY <1>1, <1>2, <1>4, AfterFailure
<1> QED
  BY <1>3, <1>4 DEF NullSpace

LEMMA SplitEndInv ==
    ASSUME ShellInv, Counted, Joined, SplitEnd
    PROVE  ShellInv' /\ Counted' /\ Joined'
<1>1. at = "split" /\ pos > Len(line) /\ at' = "exec" /\ line' = line /\ pos' = pos /\ sub' = sub
      /\ nulls' = nulls
  BY DEF SplitEnd
<1>2. /\ pos - 1 = Len(line) /\ pos > 1 /\ line \in Seq(Byte) /\ live \in Int /\ vec.size \in Nat
      /\ failed \in BOOLEAN
  BY <1>1, SplitFacts, LineFacts
<1>3. SubSeq(line, 1, pos - 1) = line
  BY <1>2
<1>4. ~failed => Join(Append(Pieces(vec), Content(sub))) = line
  BY <1>1, <1>3 DEF Joined
<1>5. CASE sub.length > 0 /\ vec' = Push(vec, Content(sub)) /\ live' = live /\ failed' = failed
  <2>1. IsVector(vec') /\ vec'.size = vec.size + 1 /\ Pieces(vec') = Append(Pieces(vec), Content(sub))
    BY <1>1, <1>5, SplitFacts, PushAppends
  <2>2. ShellInv'
    BY <1>1, <1>2, <1>5, <2>1 DEF ShellInv
  <2>3. Counted'
    BY <1>1, <1>2, <1>5, <2>1 DEF Counted, Held
  <2>4. Joined'
    BY <1>1, <1>4, <1>5, <2>1 DEF Joined
  <2> QED
    BY <2>2, <2>3, <2>4
<1>6. CASE vec.size = vec.cap /\ failed' = TRUE /\ vec' = vec /\ live' = live
  <2>1. vec.size > 0
    BY <1>1, <1>6, SplitFacts
  <2> QED
    BY <1>1, <1>6, <2>1 DEF ShellInv, Counted, Joined
<1>7. CASE sub.length = 0 /\ live' = live - 2 /\ vec' = vec /\ failed' = failed
  <2>1. vec.size > 0
    BY <1>1, <1>2, <1>7, SplitFacts
  <2>2. ShellInv'
    BY <1>1, <1>2, <1>7, <2>1 DEF ShellInv
  <2>3. Counted'
    BY <1>1, <1>2, <1>7 DEF Counted, Held
  <2>4. ASSUME ~failed PROVE Join(Pieces(vec)) \o <<" ">> = line
    <3>1. Content(sub) = <<>> /\ Pieces(vec) # <<>> /\ Pieces(vec) \in Seq(Seq(Byte))
      BY <1>1, <1>7, <2>1, SplitFacts
    <3>2. PICK e \in Seq(Byte) : e = <<>>
      BY EmptySeq
    <3>3. Join(Append(Pieces(vec), <<>>)) = Join(Pieces(vec)) \o <<" ">>
      BY <3>1, <3>2, JoinGrows
    <3> QED
      BY <1>4, <2>4, <3>1, <3>3
  <2>5. Joined'
    BY <1>1, <1>7, <2>4 DEF Joined
  <2> QED
    BY <2>2, <2>3, <2>5
<1> QED
  BY <1>5, <1>6, <1>7 DEF SplitEnd

LEMMA PopAllInv ==
    ASSUME ShellInv, Counted, Joined, PopAll
    PROVE  ShellInv' /\ Counted' /\ Joined'
<1> DEFINE b == [k \in DOMAIN vec.base |-> <<>>]
<1>1. /\ at = "exec" /\ live' = live - 2 * (vec.size - Len(nulls)) /\ at' = "prompt"
      /\ line' = <<>> /\ pos' = 1 /\ sub' = ksalloc /\ failed' = failed /\ nulls' = <<>>
      /\ vec' = [vec EXCEPT !.size = 0, !.base = [k \in DOMAIN @ |-> <<>>]]
  BY DEF PopAll
<1>2. /\ vec = [base |-> vec.base, size |-> vec.size, cap |-> vec.cap]
      /\ vec.base \in [0 .. vec.cap - 1 -> Seq(Byte)] /\ vec.cap \in Nat \ {0} /\ vec.size \in Nat
      /\ live \in Int /\ failed \in BOOLEAN
  BY DEF ShellInv, IsVector
<1>3. b \in [0 .. vec.cap - 1 -> Seq(Byte)]
  <2>1. DOMAIN vec.base = 0 .. vec.cap - 1 /\ <<>> \in Seq(Byte)
    BY <1>2
  <2> QED
    BY <2>1
<1>4. vec' = [[vec EXCEPT !.size = 0] EXCEPT !.base = b]
  BY <1>1, <1>2
<1> HIDE DEF b
<1>5. PICK h : h = [base |-> vec.base, size |-> 0, cap |-> vec.cap]
  OBVIOUS
<1>6. [vec EXCEPT !.size = 0] = h
  BY <1>2, <1>5
<1>7. vec' = [base |-> b, size |-> 0, cap |-> vec.cap]
  BY <1>4, <1>5, <1>6
<1>8. /\ vec'.base = b /\ vec'.size = 0 /\ vec'.cap = vec.cap
      /\ vec' = [base |-> vec'.base, size |-> vec'.size, cap |-> vec'.cap]
  BY <1>7
<1>9. IsVector(vec')
  BY <1>2, <1>3, <1>8 DEF IsVector
<1>10. <<>> \in Seq(Chars) /\ <<>> \in Seq(Nat) /\ Len(nulls) \in Nat /\ (~failed => Len(nulls) = 0)
  BY EmptySeq DEF ShellInv
<1>a. live' \in Int
  BY <1>1, <1>2, <1>10
<1>11. ShellInv'
  BY <1>1, <1>2, <1>8, <1>9, <1>10, <1>a, FreshString DEF ShellInv
<1>12. Counted'
  BY <1>1, <1>2, <1>8, <1>10 DEF Counted, Held
<1> QED
  BY <1>1, <1>11, <1>12 DEF Joined

LEMMA NullFaultInv ==
    ASSUME ShellInv, Counted, Joined, NullFault
    PROVE  ShellInv' /\ Counted' /\ Joined'
<1>1. /\ at' = "dead" /\ failed' = failed /\ line' = line /\ pos' = pos /\ sub' = sub
      /\ vec' = vec /\ live' = live /\ nulls' = nulls
  BY DEF NullFault
<1>2. failed
  BY DEF NullFault, ShellInv
<1> QED
  BY <1>1, <1>2 DEF ShellInv, Counted, Joined

StringsInv == StringInv /\ ShellInv /\ Counted /\ Joined

LEMMA StringsInitInv == ASSUME StringsInit PROVE StringsInv
<1>1. /\ kstr = ksalloc /\ text = <<>> /\ line = <<>> /\ pos = 1 /\ sub = ksalloc /\ vec = Vector
      /\ at = "prompt" /\ live = Held /\ failed = FALSE /\ nulls = <<>>
  BY DEF StringsInit
<1>2. StringInv
  BY <1>1, FreshString DEF StringInv
<1>3. <<>> \in Seq(Chars)
  BY EmptySeq
<1>4. ShellInv
  <2>1. IsString(sub) /\ IsVector(vec) /\ vec.size = 0 /\ line \in Seq(Chars) /\ live \in Int
    BY <1>1, <1>3, FreshString, NewVector DEF Held
  <2>2. failed \in BOOLEAN /\ pos = 1 /\ at = "prompt" /\ nulls = <<>> /\ nulls \in Seq(Nat)
    BY <1>1, EmptySeq
  <2>3. pos \in Nat \ {0}
    BY <2>2
  <2> QED
    BY <2>1, <2>2, <2>3 DEF ShellInv
<1>5. Counted
  BY <1>1, NewVector DEF Counted, Held
<1> QED
  BY <1>1, <1>2, <1>4, <1>5 DEF StringsInv, Joined

LEMMA StringsStep ==
    ASSUME StringsInv, StringsNext \/ UNCHANGED <<string, shell>>
    PROVE  StringsInv'
<1>1. ASSUME UNCHANGED string PROVE StringInv'
  BY <1>1 DEF StringsInv, StringInv, string
<1>2. ASSUME UNCHANGED shell PROVE ShellInv' /\ Counted' /\ Joined'
  BY <1>2 DEF StringsInv, ShellInv, Counted, Joined, shell
<1>3. CASE StringNext /\ UNCHANGED shell
  BY <1>2, <1>3, StringStep DEF StringsInv
<1>4. CASE ShellNext /\ UNCHANGED string
  <2>1. ShellInv' /\ Counted' /\ Joined'
    BY <1>4, ReadLineInv, NullSpaceInv, NullFaultInv, SplitByteInv, SplitByteFailsInv, SplitSpaceInv,
       SplitSpaceFailsInv, SplitEndInv, PopAllInv DEF ShellNext, StringsInv
  <2> QED
    BY <1>1, <1>4, <2>1 DEF StringsInv
<1>5. CASE UNCHANGED <<string, shell>>
  BY <1>1, <1>2, <1>5 DEF StringsInv
<1> QED
  BY <1>3, <1>4, <1>5 DEF StringsNext

LEMMA StringsInvariant == StringsSpec => []StringsInv
<1>1. StringsInit => StringsInv
  BY StringsInitInv
<1>2. StringsInv /\ [StringsNext /\ UNCHANGED arg]_<<string, shell, arg>> => StringsInv'
  BY StringsStep
<1> QED
  BY <1>1, <1>2, PTL DEF StringsSpec

\* A string holds what was appended, popped and fitted (ksappend_strn, kspop_char,
\* ksfit), inside the memory string_try_expand has for it, for every minimal size
\* and any sequence of calls.
THEOREM TextKeptCorrect == StringsSpec => []TextKept
<1>1. StringsInv => TextKept
  <2> SUFFICES ASSUME StringsInv PROVE TextKept
    OBVIOUS
  <2>1. IsString(kstr) /\ Content(kstr) = text
    BY DEF StringsInv, StringInv
  <2> QED
    BY <2>1 DEF TextKept, IsString, Raw
<1> QED
  BY <1>1, StringsInvariant, PTL

\* kssplit loses nothing of any line, and always leaves run_shell a first piece.
THEOREM SplitRejoinsCorrect == StringsSpec => []SplitRejoins
<1>1. StringsInv => SplitRejoins
  BY DEF StringsInv, ShellInv, Joined, SplitRejoins
<1> QED
  BY <1>1, StringsInvariant, PTL

\* run_shell is back at its prompt with all memory of the line freed, for every
\* line, unless a kmalloc failed.
THEOREM NoLeakCorrect == StringsSpec => []NoLeak
<1>1. StringsInv => NoLeak
  <2> SUFFICES ASSUME StringsInv, at = "prompt", ~failed PROVE live = Held /\ vec.size = 0
    BY DEF NoLeak
  <2>1. vec.size = 0 /\ live = Held + 2 * vec.size + 0
    BY DEF StringsInv, ShellInv, Counted
  <2> QED
    BY <2>1 DEF Held
<1> QED
  BY <1>1, StringsInvariant, PTL

=============================================================================
