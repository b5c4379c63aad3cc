---------------------------- MODULE Sched_proofs ----------------------------
(* Proofs about threads, run queues and their directories, for every number  *)
(* of CPUs and of threads.                                                    *)
EXTENDS Sched, FiniteSetTheorems, SequenceTheorems, WellFoundedInduction, TLAPS

\* A queue links no thread twice.
Distinct(q) == \A i, j \in 1 .. Len(q) : q[i] = q[j] => i = j

Elems(q) == {q[i] : i \in 1 .. Len(q)}

\* t is in a queue of r.
Waits(r, t) == \E c \in CPU : t \in Elems(r[c])

Others == Idles \ {0}       \* the idle threads of the other CPUs

\* With the queues r and n on CPU 0 no thread is in two places, those freed
\* and still queued included.
Apart(r, n) ==
    /\ n \notin Others
    /\ \A t \in Others \cup {n} : ~Waits(r, t)
    /\ \A c \in CPU : Distinct(r[c])
    /\ \A c, d \in CPU : c # d => Elems(r[c]) \cap Elems(r[d]) = {}

\* The threads that live are those in a place.
Placed(r, n, st) ==
    \A t \in Tid : st[t] # "none" <=> (t = n \/ t \in Others \/ Waits(r, t))

\* ShellLives and DirectoryLives hold because the shell keeps CPU 0 once it has
\* it: current_dir leaves the fixed directories only while the shell runs.
ShellInv ==
    /\ job[shell] = "shell" /\ (shell = current \/ shell \in Elems(rq[0]))
    /\ current_dir \in Tid => current = shell
    /\ current_dir \in DOMAIN fs \/ (job[current_dir] = "shell" /\ current_dir < shell)

SchedInv ==
    /\ TypeOK /\ Dirs = Alive
    /\ Apart(rq, current)
    /\ \A t \in Tid : t = current \/ Waits(rq, t) \/ t \in Others => t < g_thread_id
    /\ \A t \in Alive : job[t] = "shell" => t = shell
    /\ pc # "wild" => current \in Alive
    /\ ~failed => Placed(rq, current, state) /\ pc # "wild"
    /\ ~failed /\ shell # NoThread => ShellInv

----------------------------------------------------------------------------
(* Sequences as queues *)

LEMMA PushQueue ==
    ASSUME NEW S, NEW q \in Seq(S), NEW x \in S
    PROVE  /\ <<x>> \o q \in Seq(S) /\ <<x>> \o q # <<>>
           /\ Head(<<x>> \o q) = x /\ Tail(<<x>> \o q) = q
           /\ Elems(<<x>> \o q) = Elems(q) \cup {x}
           /\ Distinct(q) /\ x \notin Elems(q) => Distinct(<<x>> \o q)
<1> DEFINE p == <<x>> \o q
<1>1. /\ p \in Seq(S) /\ Len(p) = Len(q) + 1 /\ Len(q) \in Nat /\ p[1] = x
      /\ \A i \in 1 .. Len(q) : p[i + 1] = q[i]
      /\ \A i \in 2 .. Len(p) : p[i] = q[i - 1] /\ i - 1 \in 1 .. Len(q)
  OBVIOUS
<1>2. p # <<>> /\ Head(p) = x
  BY <1>1
<1>3. Tail(p) = q
  <2>1. Tail(p) \in Seq(S) /\ Len(Tail(p)) = Len(q) /\ \A i \in 1 .. Len(q) : Tail(p)[i] = q[i]
    BY <1>1, <1>2
  <2> HIDE DEF p
  <2> QED
    BY <2>1, SeqEqual
<1> HIDE DEF p
<1>4. Elems(p) = Elems(q) \cup {x}
  <2>1. \A y \in Elems(p) : y \in Elems(q) \cup {x}
    BY <1>1 DEF Elems
  <2>2. \A y \in Elems(q) : y \in Elems(p)
    <3> SUFFICES ASSUME NEW i \in 1 .. Len(q) PROVE q[i] \in Elems(p)
      BY DEF Elems
    <3>1. i + 1 \in 1 .. Len(p) /\ p[i + 1] = q[i]
      BY <1>1
    <3> QED
      BY <3>1 DEF Elems
  <2>3. x \in Elems(p)
    BY <1>1 DEF Elems
  <2> QED
    BY <2>1, <2>2, <2>3
<1>5. ASSUME Distinct(q), x \notin Elems(q) PROVE Distinct(p)
  <2> SUFFICES ASSUME NEW i \in 1 .. Len(p), NEW j \in 1 .. Len(p), p[i] = p[j]
               PROVE  i = j
    BY DEF Distinct
  <2>1. i = 1 \/ (p[i] = q[i - 1] /\ i - 1 \in 1 .. Len(q) /\ p[i] \in Elems(q))
    BY <1>1 DEF Elems
  <2>2. j = 1 \/ (p[j] = q[j - 1] /\ j - 1 \in 1 .. Len(q) /\ p[j] \in Elems(q))
    BY <1>1 DEF Elems
  <2> QED
    BY <2>1, <2>2, <1>1, <1>5 DEF Distinct
<1> QED
  BY <1>1, <1>2, <1>3, <1>4, <1>5 DEF p

LEMMA PopQueue ==
    ASSUME NEW S, NEW q \in Seq(S), q # <<>>
    PROVE  /\ Tail(q) \in Seq(S) /\ Head(q) \in S /\ Head(q) \in Elems(q)
           /\ Elems(q) = Elems(Tail(q)) \cup {Head(q)}
           /\ Distinct(q) => Distinct(Tail(q)) /\ Head(q) \notin Elems(Tail(q))
<1>1. /\ Head(q) \in S /\ Tail(q) \in Seq(S) /\ Len(Tail(q)) = Len(q) - 1
      /\ Len(q) \in Nat \ {0} /\ Head(q) = q[1]
      /\ \A i \in 1 .. Len(q) - 1 : Tail(q)[i] = q[i + 1]
      /\ \A i \in 2 .. Len(q) : q[i] = Tail(q)[i - 1] /\ i - 1 \in 1 .. Len(Tail(q))
  OBVIOUS
<1>2. Head(q) \in Elems(q)
  BY <1>1 DEF Elems
<1>3. Elems(q) = Elems(Tail(q)) \cup {Head(q)}
  <2>1. \A y \in Elems(q) : y \in Elems(Tail(q)) \cup {Head(q)}
    BY <1>1 DEF Elems
  <2>2. \A y \in Elems(Tail(q)) : y \in Elems(q)
    <3> SUFFICES ASSUME NEW i \in 1 .. Len(Tail(q)) PROVE Tail(q)[i] \in Elems(q)
      BY DEF Elems
    <3>1. i + 1 \in 1 .. Len(q) /\ Tail(q)[i] = q[i + 1]
      BY <1>1
    <3> QED
      BY <3>1 DEF Elems
  <2> QED
    BY <1>2, <2>1, <2>2
<1>4. ASSUME Distinct(q) PROVE Distinct(Tail(q)) /\ Head(q) \notin Elems(Tail(q))
  <2>1. \A i \in 1 .. Len(Tail(q)) : i + 1 \in 1 .. Len(q) /\ Tail(q)[i] = q[i + 1] /\ i + 1 # 1
    BY <1>1
  <2>2. Distinct(Tail(q))
    BY <1>1, <1>4, <2>1 DEF Distinct
  <2>3. Head(q) \notin Elems(Tail(q))
    BY <1>1, <1>4, <2>1 DEF Distinct, Elems
  <2> QED
    BY <2>2, <2>3
<1> QED
  BY <1>1, <1>2, <1>3, <1>4

LEMMA AppendQueue ==
    ASSUME NEW S, NEW q \in Seq(S), NEW x \in S
    PROVE  /\ Append(q, x) \in Seq(S)
           /\ Elems(Append(q, x)) = Elems(q) \cup {x}
           /\ Distinct(q) /\ x \notin Elems(q) => Distinct(Append(q, x))
<1> DEFINE p == Append(q, x)
<1>1. /\ p \in Seq(S) /\ Len(p) = Len(q) + 1 /\ Len(q) \in Nat /\ p[Len(p)] = x
      /\ \A i \in 1 .. Len(q) : p[i] = q[i] /\ i \in 1 .. Len(p)
      /\ \A i \in 1 .. Len(p) : i = Len(p) \/ i \in 1 .. Len(q)
  OBVIOUS
<1> HIDE DEF p
<1>2. Elems(p) = Elems(q) \cup {x}
  BY <1>1 DEF Elems
<1>3. ASSUME Distinct(q), x \notin Elems(q) PROVE Distinct(p)
  <2> SUFFICES ASSUME NEW i \in 1 .. Len(p), NEW j \in 1 .. Len(p), p[i] = p[j]
               PROVE  i = j
    BY DEF Distinct
  <2>1. i = Len(p) \/ (p[i] = q[i] /\ i \in 1 .. Len(q) /\ p[i] \in Elems(q))
    BY <1>1 DEF Elems
  <2>2. j = Len(p) \/ (p[j] = q[j] /\ j \in 1 .. Len(q) /\ p[j] \in Elems(q))
    BY <1>1 DEF Elems
  <2> QED
    BY <2>1, <2>2, <1>1, <1>3 DEF Distinct
<1> QED
  BY <1>1, <1>2, <1>3 DEF p

\* A queue of distinct threads is as long as it has threads.
LEMMA DistinctLen ==
    ASSUME NEW S, NEW q \in Seq(S), Distinct(q)
    PROVE  Cardinality(Elems(q)) = Len(q)
<1>1. Len(q) \in Nat /\ q \in [1 .. Len(q) -> Elems(q)]
  BY DEF Elems
<1>2. q \in Bijection(1 .. Len(q), Elems(q))
  BY <1>1 DEF Bijection, Injection, Surjection, IsInjective, Distinct, Elems
<1>3. ExistsBijection(1 .. Len(q), Elems(q))
  BY <1>2 DEF ExistsBijection
<1>4. IsFiniteSet(1 .. Len(q)) /\ Cardinality(1 .. Len(q)) = Len(q)
  BY <1>1, FS_Interval
<1> QED
  BY <1>3, <1>4, FS_Bijection

----------------------------------------------------------------------------
(* Directories *)

LEMMA NatMin ==
    ASSUME NEW T \in SUBSET Nat, T # {}
    PROVE  \E m \in T : \A k \in T : m <= k
<1>1. PICK m \in T : \A k \in T : <<k, m>> \notin OpToRel(<, Nat)
  BY WFMin, NatLessThanWellFounded
<1>2. \A k \in T : ~(k < m)
  BY <1>1 DEF OpToRel
<1> QED
  BY <1>2

\* remove_directory takes away a directory without subdirectories alone.
LEMMA BelowLeaf ==
    ASSUME NEW f, NEW d, IsFiniteSet(DOMAIN f), \A x \in DOMAIN f : f[x] # d
    PROVE  Below(f, d) = {d}
<1> DEFINE N == Cardinality(DOMAIN f)
           R(g) == [n \in 0 .. N |->
                      IF n = 0 THEN {d}
                      ELSE LET above == g[n - 1]
                           IN  above \cup {x \in DOMAIN f : f[x] \in above}]
           g0 == [n \in 0 .. N |-> {d}]
           level == CHOOSE g : g = R(g)
<1>1. N \in Nat
  BY FS_CardinalityType
<1>2. R(g0) = g0
  <2>1. \A n \in 0 .. N : R(g0)[n] = {d}
    BY <1>1
  <2> QED
    BY <2>1
<1>3. level = R(level)
  <2> HIDE DEF R
  <2> QED
    BY <1>2
<1>4. \A n \in 0 .. N : level[n] = {d}
  <2> DEFINE T == {n \in 0 .. N : level[n] # {d}}
  <2> SUFFICES ASSUME T # {} PROVE FALSE
    OBVIOUS
  <2> HIDE DEF level
  <2>1. PICK m \in T : \A k \in T : m <= k
    <3>1. T \in SUBSET Nat
      BY <1>1
    <3> HIDE DEF T
    <3> QED
      BY <3>1, NatMin
  <2>2. m # 0
    BY <1>3, <1>1
  <2>3. m - 1 \in 0 .. N /\ level[m - 1] = {d}
    BY <2>1, <2>2, <1>1
  <2>4. level[m] = {d} \cup {x \in DOMAIN f : f[x] \in {d}}
    BY <1>3, <2>2, <2>3, <1>1
  <2> QED
    BY <2>4
<1>5. Below(f, d) = level[N]
  BY DEF Below
<1> QED
  BY <1>1, <1>4, <1>5

Tree(f) ==
    /\ fs_init = [d \in DOMAIN f \ Tid |-> f[d]]
    /\ \A d \in Tid \cap DOMAIN f : f[d] = Proc

LEMMA TreeShape ==
    ASSUME NEW f, Tree(f)
    PROVE  /\ {Root, Bin, Proc, Sys} \subseteq DOMAIN f
           /\ DOMAIN f \subseteq {Root, Bin, Proc, Sys} \cup Tid
           /\ DOMAIN f \ Tid = {Root, Bin, Proc, Sys}
           /\ {Root, Bin, Proc, Sys, NoDir} \cap Tid = {}
           /\ f[Root] = NoDir /\ \A x \in DOMAIN f : x # Root => f[x] \in {Root, Proc}
           /\ IsFiniteSet(DOMAIN f)
<1>1. DOMAIN fs_init = {Root, Bin, Proc, Sys}
  BY DEF fs_init
<1>2. DOMAIN f \ Tid = {Root, Bin, Proc, Sys}
  BY <1>1 DEF Tree
<1>3. {Root, Bin, Proc, Sys, NoDir} \cap Tid = {}
  BY TidAssumption DEF Root, Bin, Proc, Sys, NoDir, Tid
<1>4. \A d \in DOMAIN f \ Tid : f[d] = fs_init[d]
  BY DEF Tree
<1>5. Root # Bin /\ Root # Proc /\ Root # Sys
  BY DEF Root, Bin, Proc, Sys
<1>6. f[Root] = NoDir /\ \A x \in DOMAIN f : x # Root => f[x] \in {Root, Proc}
  BY <1>2, <1>4, <1>5 DEF fs_init, Tree
<1>7. IsFiniteSet({Root, Bin, Proc, Sys} \cup Tid)
  <2>1. IsFiniteSet(Tid)
    BY TidAssumption, FS_Interval DEF Tid
  <2>2. IsFiniteSet({Root}) /\ IsFiniteSet({Bin}) /\ IsFiniteSet({Proc}) /\ IsFiniteSet({Sys})
    BY FS_Singleton
  <2>3. IsFiniteSet({Root} \cup {Bin})
    BY <2>2, FS_Union
  <2>4. IsFiniteSet({Proc} \cup {Sys})
    BY <2>2, FS_Union
  <2>5. IsFiniteSet(({Root} \cup {Bin}) \cup ({Proc} \cup {Sys}))
    BY <2>3, <2>4, FS_Union
  <2>6. IsFiniteSet((({Root} \cup {Bin}) \cup ({Proc} \cup {Sys})) \cup Tid)
    BY <2>1, <2>5, FS_Union
  <2>7. (({Root} \cup {Bin}) \cup ({Proc} \cup {Sys})) \cup Tid = {Root, Bin, Proc, Sys} \cup Tid
    OBVIOUS
  <2> QED
    BY <2>6, <2>7
<1>8. DOMAIN f \subseteq {Root, Bin, Proc, Sys} \cup Tid
  BY <1>2
<1>9. IsFiniteSet(DOMAIN f)
  BY <1>7, <1>8, FS_Subset
<1> QED
  BY <1>2, <1>3, <1>6, <1>8, <1>9

LEMMA CreateDirectory ==
    ASSUME NEW f, Tree(f), NEW t \in Tid
    PROVE  /\ Tree(create_directory(f, t, Proc))
           /\ DOMAIN create_directory(f, t, Proc) = DOMAIN f \cup {t}
<1> DEFINE g == create_directory(f, t, Proc)
<1>1. DOMAIN g = DOMAIN f \cup {t} /\ g[t] = Proc /\ \A x \in DOMAIN f : x # t => g[x] = f[x]
  BY DEF create_directory
<1> HIDE DEF g
<1>2. DOMAIN g \ Tid = DOMAIN f \ Tid
  BY <1>1
<1>3. [d \in DOMAIN g \ Tid |-> g[d]] = [d \in DOMAIN f \ Tid |-> f[d]]
  BY <1>1, <1>2
<1>4. \A d \in Tid \cap DOMAIN g : g[d] = Proc
  BY <1>1 DEF Tree
<1> QED
  BY <1>1, <1>3, <1>4 DEF Tree, g

LEMMA RemoveDirectory ==
    ASSUME NEW f, Tree(f), NEW t \in Tid
    PROVE  /\ Tree(remove_directory(f, t))
           /\ DOMAIN remove_directory(f, t) = DOMAIN f \ {t}
<1> DEFINE g == remove_directory(f, t)
<1>1. Below(f, t) = {t}
  <2>1. \A x \in DOMAIN f : f[x] # t
    BY TreeShape
  <2> QED
    BY <2>1, TreeShape, BelowLeaf
<1>2. DOMAIN g = DOMAIN f \ {t} /\ \A x \in DOMAIN f : x # t => g[x] = f[x]
  BY <1>1 DEF remove_directory
<1> HIDE DEF g
<1>3. DOMAIN g \ Tid = DOMAIN f \ Tid
  BY <1>2
<1>4. [d \in DOMAIN g \ Tid |-> g[d]] = [d \in DOMAIN f \ Tid |-> f[d]]
  BY <1>2, <1>3
<1>5. \A d \in Tid \cap DOMAIN g : g[d] = Proc
  BY <1>2 DEF Tree
<1> QED
  BY <1>2, <1>4, <1>5 DEF Tree, g

----------------------------------------------------------------------------
(* Queues *)

LEMMA PushApart ==
    ASSUME NEW r \in [CPU -> Seq(Tid)], NEW c \in CPU, NEW n \in Tid, NEW t \in Tid,
           Apart(r, n), t # n, t \notin Others, ~Waits(r, t),
           NEW s \in [CPU -> Seq(Tid)],
           s[c] = <<t>> \o r[c], \A d \in CPU : d # c => s[d] = r[d]
    PROVE  /\ Apart(s, n)
           /\ \A x : Waits(s, x) <=> (Waits(r, x) \/ x = t)
           /\ \A d \in CPU : Elems(r[d]) \subseteq Elems(s[d])
<1>1. r[c] \in Seq(Tid) /\ Distinct(r[c]) /\ t \notin Elems(r[c])
  BY DEF Apart, Waits
<1>2. Elems(s[c]) = Elems(r[c]) \cup {t} /\ Distinct(s[c])
  BY <1>1, PushQueue
<1>3. \A d \in CPU : d # c => s[d] = r[d]
  OBVIOUS
<1>4. \A x : Waits(s, x) <=> (Waits(r, x) \/ x = t)
  BY <1>2, <1>3 DEF Waits
<1>5. ASSUME NEW d \in CPU, NEW e \in CPU, d # e PROVE Elems(s[d]) \cap Elems(s[e]) = {}
  <2>1. Elems(r[d]) \cap Elems(r[e]) = {} /\ t \notin Elems(r[d]) /\ t \notin Elems(r[e])
    BY <1>5 DEF Apart, Waits
  <2>2. /\ Elems(s[d]) = Elems(r[d]) \/ (d = c /\ Elems(s[d]) = Elems(r[d]) \cup {t})
        /\ Elems(s[e]) = Elems(r[e]) \/ (e = c /\ Elems(s[e]) = Elems(r[e]) \cup {t})
    BY <1>2, <1>3
  <2> QED
    BY <2>1, <2>2, <1>5
<1>6. \A d \in CPU : Distinct(s[d])
  BY <1>2, <1>3 DEF Apart
<1>7. \A x \in Others \cup {n} : ~Waits(s, x)
  BY <1>4 DEF Apart
<1>8. n \notin Others
  BY DEF Apart
<1>9. Apart(s, n)
  BY <1>5, <1>6, <1>7, <1>8 DEF Apart
<1>10. \A d \in CPU : Elems(r[d]) \subseteq Elems(s[d])
  BY <1>2, <1>3
<1> QED
  BY <1>4, <1>9, <1>10

\* From r to s h leaves the queue of CPU 0.
Leaves(r, s, h) ==
    /\ Elems(r[0]) = Elems(s[0]) \cup {h} /\ h \notin Elems(s[0]) /\ Distinct(s[0])
    /\ \A d \in CPU : d # 0 => s[d] = r[d]

\* The same, and n joins it.
Replaces(r, s, h, n) ==
    /\ h \in Elems(r[0]) /\ Elems(s[0]) = (Elems(r[0]) \ {h}) \cup {n} /\ Distinct(s[0])
    /\ \A d \in CPU : d # 0 => s[d] = r[d]

LEMMA PopApart ==
    ASSUME NEW r \in [CPU -> Seq(Tid)], NEW n \in Tid, Apart(r, n),
           NEW s \in [CPU -> Seq(Tid)], NEW h \in Tid, Leaves(r, s, h)
    PROVE  /\ h # n /\ h \notin Others
           /\ Apart(s, h) /\ Waits(r, h)
           /\ \A x : Waits(s, x) <=> (Waits(r, x) /\ x # h)
<1>0. 0 \in CPU
  BY CpuAssumption
<1>1. /\ h \in Elems(r[0]) /\ Distinct(s[0])
      /\ Elems(r[0]) = Elems(s[0]) \cup {h} /\ h \notin Elems(s[0])
      /\ \A d \in CPU : d # 0 => s[d] = r[d]
  BY DEF Leaves
<1>2. \A d \in CPU : d # 0 => h \notin Elems(r[d])
  BY <1>0, <1>1 DEF Apart
<1>3. Waits(r, h)
  BY <1>0, <1>1 DEF Waits
<1>4. \A d \in CPU : \A x : x \in Elems(s[d]) <=> (x \in Elems(r[d]) /\ x # h)
  BY <1>1, <1>2
<1>5. \A x : Waits(s, x) <=> (Waits(r, x) /\ x # h)
  BY <1>4 DEF Waits
<1>6. h # n /\ h \notin Others
  BY <1>3 DEF Apart
<1>7. ASSUME NEW d \in CPU, NEW e \in CPU, d # e PROVE Elems(s[d]) \cap Elems(s[e]) = {}
  <2>1. Elems(r[d]) \cap Elems(r[e]) = {}
    BY <1>7 DEF Apart
  <2> QED
    BY <1>4, <2>1
<1>8. \A d \in CPU : Distinct(s[d])
  BY <1>1 DEF Apart
<1>9. \A x \in Others \cup {h} : ~Waits(s, x)
  BY <1>5 DEF Apart
<1>10. Apart(s, h)
  BY <1>6, <1>7, <1>8, <1>9 DEF Apart
<1> QED
  BY <1>3, <1>5, <1>6, <1>10

LEMMA RotateApart ==
    ASSUME NEW r \in [CPU -> Seq(Tid)], NEW n \in Tid, Apart(r, n),
           NEW s \in [CPU -> Seq(Tid)], NEW h \in Tid, Replaces(r, s, h, n)
    PROVE  /\ h # n /\ h \notin Others
           /\ Apart(s, h) /\ Waits(r, h)
           /\ \A x : Waits(s, x) <=> (x = n \/ (Waits(r, x) /\ x # h))
<1>0. 0 \in CPU
  BY CpuAssumption
<1>a. /\ h \in Elems(r[0]) /\ Elems(s[0]) = (Elems(r[0]) \ {h}) \cup {n} /\ Distinct(s[0])
      /\ \A d \in CPU : d # 0 => s[d] = r[d]
  BY DEF Replaces
<1>1. /\ \A d \in CPU : d # 0 => s[d] = r[d]
      /\ n \notin Others /\ ~Waits(r, n) /\ \A d \in CPU : n \notin Elems(r[d])
  BY <1>a DEF Apart, Waits
<1>2. \A d \in CPU : d # 0 => h \notin Elems(r[d])
  BY <1>0, <1>a DEF Apart
<1>3. Waits(r, h) /\ h # n
  BY <1>0, <1>1, <1>a DEF Waits
<1>4. \A d \in CPU : \A x : x \in Elems(s[d]) <=>
                               ((d = 0 /\ x = n) \/ (x \in Elems(r[d]) /\ x # h))
  BY <1>1, <1>2, <1>a
<1>5. \A x : Waits(s, x) <=> (x = n \/ (Waits(r, x) /\ x # h))
  BY <1>0, <1>4 DEF Waits
<1>6. h \notin Others
  BY <1>3 DEF Apart
<1>7. ASSUME NEW d \in CPU, NEW e \in CPU, d # e PROVE Elems(s[d]) \cap Elems(s[e]) = {}
  <2>1. Elems(r[d]) \cap Elems(r[e]) = {}
    BY <1>7 DEF Apart
  <2> QED
    BY <1>1, <1>4, <1>7, <2>1
<1>8. \A d \in CPU : Distinct(s[d])
  BY <1>1, <1>a DEF Apart
<1>9. \A x \in Others \cup {h} : ~Waits(s, x)
  BY <1>1, <1>3, <1>5 DEF Apart
<1>10. Apart(s, h)
  BY <1>6, <1>7, <1>8, <1>9 DEF Apart
<1> QED
  BY <1>3, <1>5, <1>6, <1>10

----------------------------------------------------------------------------
(* Steps *)

\* r is rq with q for the queue of CPU 0.
WithQueue(r, q) == r[0] = q /\ \A d \in CPU : d # 0 => r[d] = rq[d]

\* The threads with a directory in tree are those that live in st.
Exact(tree, st) == \A t \in Tid : t \in DOMAIN tree <=> st[t] # "none"

\* What schedule() does for a thread that ends, from queues r, states st and
\* directories tree.
LEMMA DieStep ==
    ASSUME NEW q, NEW st \in [Tid -> {"none", "runnable", "running"}], NEW tree,
           NEW r \in [CPU -> Seq(Tid)], WithQueue(r, q),
           rq \in [CPU -> Seq(Tid)], current \in Tid,
           Apart(r, current), Tree(tree),
           Exact(tree, st), Die(q, st, tree)
    PROVE  /\ rq' \in [CPU -> Seq(Tid)] /\ current' \in Tid
           /\ current' = Head(q) /\ current' # current
           /\ state' \in [Tid -> {"none", "runnable", "running"}]
           /\ \A t \in Tid : state'[t] = IF t = current THEN "none" ELSE st[t]
           /\ Tree(fs') /\ DOMAIN fs' = DOMAIN tree \ {current} /\ Dirs' = Alive'
           /\ Apart(rq', current')
           /\ \A t : t = current' \/ Waits(rq', t) => Waits(r, t)
           /\ Elems(q) = Elems(rq'[0]) \cup {current'}
           /\ pc' \in {"run", "wild"} /\ (pc' = "run" => current' \in Alive')
           /\ Placed(r, current, st) => Placed(rq', current', state') /\ pc' = "run"
<1>0. 0 \in CPU
  BY CpuAssumption
<1>1. /\ r[0] = q /\ q # <<>> /\ q \in Seq(Tid) /\ current' = Head(q)
      /\ rq' = [rq EXCEPT ![0] = Tail(q)] /\ \A d \in CPU : d # 0 => r[d] = rq[d]
  BY <1>0 DEF Die, Goto, WithQueue
<1>a. /\ rq' \in [CPU -> Seq(Tid)] /\ rq'[0] = Tail(r[0])
      /\ \A d \in CPU : d # 0 => rq'[d] = r[d]
  BY <1>0, <1>1
<1>b. /\ current' \in Tid /\ Distinct(r[0])
      /\ Elems(r[0]) = Elems(Tail(q)) \cup {Head(q)}
      /\ Distinct(r[0]) => Distinct(Tail(q)) /\ Head(q) \notin Elems(Tail(q))
  BY <1>0, <1>1, PopQueue DEF Apart
<1>c. /\ Elems(r[0]) = Elems(rq'[0]) \cup {current'}
      /\ Leaves(r, rq', current')
  BY <1>1, <1>a, <1>b DEF Leaves
<1>2. /\ current' # current /\ current' \notin Others
      /\ Apart(rq', current') /\ Waits(r, current')
      /\ \A x : Waits(rq', x) <=> (Waits(r, x) /\ x # current')
  BY <1>a, <1>b, <1>c, PopApart
<1>d. Elems(q) = Elems(rq'[0]) \cup {current'}
  BY <1>1, <1>c
<1>3. /\ state' \in [Tid -> {"none", "runnable", "running"}]
      /\ \A t \in Tid : state'[t] = IF t = current THEN "none" ELSE st[t]
  BY DEF Die
<1>4. Tree(fs') /\ DOMAIN fs' = DOMAIN tree \ {current}
  BY RemoveDirectory DEF Die
<1>5. \A t \in Tid : t \in Dirs' <=> state'[t] # "none"
  BY <1>3, <1>4 DEF Dirs, Exact
<1>6. Dirs' = Alive'
  BY <1>5 DEF Alive, Dirs
<1>7. pc' = IF st[current'] = "none" THEN "wild" ELSE "run"
  BY DEF Die, Goto
<1>8. pc' = "run" => current' \in Alive'
  BY <1>2, <1>b, <1>3, <1>7 DEF Alive
<1>9. ASSUME Placed(r, current, st) PROVE Placed(rq', current', state') /\ pc' = "run"
  <2>1. pc' = "run"
    BY <1>2, <1>b, <1>7, <1>9 DEF Placed
  <2>2. current \notin Others /\ ~Waits(r, current)
    BY DEF Apart
  <2>3. ASSUME NEW t \in Tid
        PROVE  state'[t] # "none" <=> (t = current' \/ t \in Others \/ Waits(rq', t))
    <3>1. st[t] # "none" <=> (t = current \/ t \in Others \/ Waits(r, t))
      BY <1>9 DEF Placed
    <3>2. state'[t] # "none" <=> (t # current /\ st[t] # "none")
      BY <1>3
    <3> QED
      BY <3>1, <3>2, <1>2, <2>2
  <2> QED
    BY <2>1, <2>3 DEF Placed
<1> QED
  BY <1>1, <1>a, <1>b, <1>d, <1>2, <1>3, <1>4, <1>6, <1>7, <1>8, <1>9

\* A thread id not used yet is in no place.
LEMMA Fresh ==
    ASSUME SchedInv, NEW t \in Tid, t >= g_thread_id
    PROVE  /\ t # current /\ t \notin Others /\ ~Waits(rq, t)
           /\ state[t] = "none" /\ t \notin DOMAIN fs
<1>1. t # current /\ t \notin Others /\ ~Waits(rq, t)
  <2>1. g_thread_id \in Int /\ t \in Int
    BY TidAssumption DEF SchedInv, TypeOK, Tid
  <2> QED
    BY <2>1 DEF SchedInv
<1>2. state[t] = "none" /\ t \notin DOMAIN fs
  BY DEF SchedInv, TypeOK, Dirs
<1> QED
  BY <1>1, <1>2

LEMMA Facts ==
    ASSUME SchedInv
    PROVE  /\ rq \in [CPU -> Seq(Tid)] /\ current \in Tid /\ Tree(fs)
           /\ state \in [Tid -> {"none", "runnable", "running"}]
           /\ \A t \in Tid : t \in DOMAIN fs <=> state[t] # "none"
           /\ \A t \in Tid : state[t] # "none" => t < g_thread_id
           /\ g_thread_id \in Int /\ Tid \subseteq Int
           /\ 0 \in CPU /\ Up \subseteq CPU
<1>1. rq \in [CPU -> Seq(Tid)] /\ current \in Tid /\ Tree(fs)
  BY DEF SchedInv, TypeOK, Tree, Dirs
<1>2. state \in [Tid -> {"none", "runnable", "running"}]
  BY DEF SchedInv, TypeOK
<1>3. \A t \in Tid : t \in DOMAIN fs <=> state[t] # "none"
  <2>1. Dirs = Alive
    BY DEF SchedInv
  <2>2. \A t \in Tid : t \in Dirs <=> t \in Alive
    BY <2>1
  <2> QED
    BY <2>2 DEF Dirs, Alive
<1>4. g_thread_id \in Int /\ Tid \subseteq Int
  BY TidAssumption DEF SchedInv, TypeOK, Tid
<1>5. \A t \in Tid : state[t] # "none" => t < g_thread_id
  BY <1>4 DEF SchedInv, TypeOK
<1> QED
  BY <1>1, <1>2, <1>3, <1>4, <1>5, CpuAssumption

\* Only the shell runs the shell, and while a shell lives CPU 0 runs it or has
\* it in its queue.
LEMMA ShellFacts ==
    ASSUME SchedInv, ~failed
    PROVE  /\ Runs({"shell"}) => current = shell
           /\ shell # NoThread => shell \in Tid /\ state[shell] # "none" /\ shell < g_thread_id
<1>1. current \in Tid /\ Placed(rq, current, state) /\ shell \in Tid \cup {NoThread}
  BY Facts DEF SchedInv, TypeOK
<1>2. state[current] # "none"
  BY <1>1 DEF Placed
<1>3. Runs({"shell"}) => current = shell
  BY <1>1, <1>2 DEF Runs, SchedInv, Alive
<1>4. ASSUME shell # NoThread PROVE shell \in Tid /\ state[shell] # "none"
  <2>1. shell = current \/ Waits(rq, shell)
    BY <1>4, Facts DEF SchedInv, ShellInv, Waits
  <2> QED
    BY <1>1, <1>4, <2>1 DEF Placed
<1> QED
  BY <1>3, <1>4, Facts

\* A thread ends, and with it the shell if it was the shell: Exit, Fault and
\* ShellFaultNoMemory.
LEMMA EndsInv ==
    ASSUME SchedInv, pc = "run", Die(rq[0], state, fs),
           UNCHANGED <<job, current_dir, g_thread_id, sched_lock, failed>>,
           \/ shell' = shell /\ (~failed => current # shell)
           \/ shell' = NoThread /\ current = shell
    PROVE  SchedInv'
<1>1. WithQueue(rq, rq[0])
  BY DEF WithQueue
<1>2. Apart(rq, current) /\ Exact(fs, state)
  BY Facts DEF SchedInv, Exact
<1>3. /\ rq' \in [CPU -> Seq(Tid)] /\ current' \in Tid /\ current' # current
      /\ state' \in [Tid -> {"none", "runnable", "running"}]
      /\ \A t \in Tid : state'[t] = IF t = current THEN "none" ELSE state[t]
      /\ Tree(fs') /\ DOMAIN fs' = DOMAIN fs \ {current} /\ Dirs' = Alive'
      /\ Apart(rq', current')
      /\ \A t : t = current' \/ Waits(rq', t) => Waits(rq, t)
      /\ Elems(rq[0]) = Elems(rq'[0]) \cup {current'}
      /\ pc' \in {"run", "wild"} /\ (pc' = "run" => current' \in Alive')
      /\ Placed(rq, current, state) => Placed(rq', current', state') /\ pc' = "run"
  BY <1>1, <1>2, Facts, DieStep
<1>4. TypeOK'
  <2>1. fs_init = [d \in DOMAIN fs' \ Tid |-> fs'[d]] /\ \A d \in Dirs' : fs'[d] = Proc
    BY <1>3 DEF Tree, Dirs
  <2>2. \A t \in Tid : t >= g_thread_id' => state'[t] = "none" /\ t \notin Dirs'
    BY <1>3, Fresh DEF Dirs
  <2>3. /\ job' \in [Tid -> Job] /\ current_dir' \in DOMAIN fs_init \cup Tid
        /\ g_thread_id' \in 0 .. MaxTid + 1 /\ sched_lock' \in [CPU -> {0, 1}]
        /\ shell' \in Tid \cup {NoThread} /\ failed' \in BOOLEAN
    BY DEF SchedInv, TypeOK
  <2> QED
    BY <1>3, <2>1, <2>2, <2>3 DEF TypeOK
<1>5. \A t \in Tid : t = current' \/ Waits(rq', t) \/ t \in Others => t < g_thread_id'
  BY <1>3 DEF SchedInv
<1>6. \A t \in Alive' : job'[t] = "shell" => t = shell'
  <2>1. \A t \in Alive' : t \in Alive /\ t # current
    BY <1>3 DEF Alive
  <2> QED
    BY <2>1 DEF SchedInv
<1>7. ~failed' => Placed(rq', current', state') /\ pc' # "wild"
  BY <1>3 DEF SchedInv
<1>8. ASSUME ~failed', shell' # NoThread PROVE ShellInv'
  <2>1. shell' = shell /\ current # shell /\ ShellInv
    BY <1>8 DEF SchedInv
  <2>2. shell = current' \/ shell \in Elems(rq'[0])
    BY <1>3, <2>1 DEF ShellInv
  <2>3. current_dir \notin Tid /\ current_dir \in DOMAIN fs \cup Tid
    BY <2>1, Facts, TreeShape DEF ShellInv, SchedInv, TypeOK, fs_init
  <2>4. current_dir \in DOMAIN fs'
    BY <2>3, <1>3, Facts
  <2> QED
    BY <2>1, <2>2, <2>3, <2>4 DEF ShellInv
<1> QED
  BY <1>3, <1>4, <1>5, <1>6, <1>7, <1>8 DEF SchedInv

LEMMA ExitInv == ASSUME SchedInv, Exit PROVE SchedInv'
<1>1. ~failed => current # shell
  <2>1. job[current] = "work" /\ current \in Tid
    BY Facts DEF Exit, Runs
  <2> QED
    BY <2>1, TidAssumption DEF SchedInv, ShellInv, NoThread, Tid
<1> QED
  BY <1>1, EndsInv DEF Exit, Runs

LEMMA FaultInv == ASSUME SchedInv, Fault PROVE SchedInv'
  BY EndsInv DEF Fault, Runs

LEMMA ShellFaultNoMemoryInv == ASSUME SchedInv, ShellFaultNoMemory PROVE SchedInv'
  BY EndsInv DEF ShellFaultNoMemory, Runs

LEMMA YieldInv == ASSUME SchedInv, Yield PROVE SchedInv'
<1> DEFINE h == Head(rq[0])
<1>0. /\ pc = "run" /\ job[current] \in {"idle", "yield"} /\ rq[0] # <<>>
      /\ current' = h /\ pc' = IF state[h] = "none" THEN "wild" ELSE "run"
      /\ rq' = [rq EXCEPT ![0] = Append(Tail(@), current)]
  BY DEF Yield, Runs, Goto
<1>1. Apart(rq, current) /\ current \in Alive
  BY <1>0 DEF SchedInv
<1>a. /\ rq' \in [CPU -> Seq(Tid)] /\ h \in Tid
      /\ rq'[0] = Append(Tail(rq[0]), current)
      /\ \A d \in CPU : d # 0 => rq'[d] = rq[d]
  <2>1. rq[0] \in Seq(Tid) /\ rq[0] # <<>>
    BY <1>0, Facts
  <2>2. Append(Tail(rq[0]), current) \in Seq(Tid) /\ h \in Tid
    BY <2>1, Facts
  <2> QED
    BY <2>2, <1>0, Facts
<1>b. h = Head(rq[0])
  OBVIOUS
<1>c. /\ h \in Elems(rq[0]) /\ Distinct(rq'[0])
      /\ Elems(rq'[0]) = (Elems(rq[0]) \ {h}) \cup {current}
  <2>1. rq[0] \in Seq(Tid) /\ Distinct(rq[0]) /\ rq[0] # <<>> /\ current \notin Elems(rq[0])
    BY <1>0, <1>1, Facts DEF Apart, Waits
  <2> DEFINE tl == Tail(rq[0])
  <2>2. /\ tl \in Seq(Tid) /\ h \in Elems(rq[0]) /\ Elems(rq[0]) = Elems(tl) \cup {h}
        /\ Distinct(tl) /\ h \notin Elems(tl)
    BY <2>1, PopQueue
  <2> HIDE DEF tl, h
  <2>3. /\ Elems(Append(tl, current)) = Elems(tl) \cup {current}
        /\ Distinct(Append(tl, current))
    BY <2>1, <2>2, Facts, AppendQueue
  <2> QED
    BY <1>a, <2>1, <2>2, <2>3 DEF tl
<1> HIDE DEF h
<1>d. Replaces(rq, rq', h, current)
  BY <1>a, <1>c DEF Replaces
<1>2. /\ rq' \in [CPU -> Seq(Tid)] /\ h \in Tid /\ h # current /\ h \notin Others
      /\ Apart(rq', h) /\ Waits(rq, h)
      /\ \A x : Waits(rq', x) <=> (x = current \/ (Waits(rq, x) /\ x # h))
      /\ Elems(rq'[0]) = (Elems(rq[0]) \ {h}) \cup {current}
  BY <1>1, <1>a, <1>c, <1>d, Facts, RotateApart
<1>3. /\ state' \in [Tid -> {"none", "runnable", "running"}]
      /\ \A t \in Tid : state'[t] # "none" <=> state[t] # "none"
  <2>1. state' = [state EXCEPT ![current] = "runnable",
                               ![h] = IF @ = "none" THEN @ ELSE "running"]
    BY <1>b DEF Yield
  <2>2. state[current] # "none"
    BY <1>1 DEF Alive
  <2> QED
    BY <1>2, <2>1, <2>2, Facts
<1>4. /\ UNCHANGED <<job, fs, current_dir, g_thread_id, sched_lock, shell, failed>>
      /\ Dirs' = Dirs /\ Alive' = Alive
  BY <1>3 DEF Yield, Dirs, Alive
<1>5. TypeOK'
  <2>1. \A t \in Tid : t >= g_thread_id' => state'[t] = "none" /\ t \notin Dirs'
    BY <1>3, <1>4 DEF SchedInv, TypeOK
  <2> QED
    BY <1>0, <1>2, <1>3, <1>4, <2>1 DEF SchedInv, TypeOK
<1>6. \A t \in Tid : t = current' \/ Waits(rq', t) \/ t \in Others => t < g_thread_id'
  BY <1>0, <1>2, <1>4, Facts DEF SchedInv
<1>7. pc' # "wild" => current' \in Alive'
  BY <1>0, <1>2, <1>4 DEF Alive
<1>8. ~failed' => Placed(rq', current', state') /\ pc' # "wild"
  <2> SUFFICES ASSUME ~failed PROVE Placed(rq', current', state') /\ pc' # "wild"
    BY <1>4
  <2>1. Placed(rq, current, state)
    BY DEF SchedInv
  <2>2. pc' # "wild"
    BY <1>0, <1>2, <2>1 DEF Placed
  <2>3. Placed(rq', current', state')
    BY <1>0, <1>2, <1>3, <2>1 DEF Placed
  <2> QED
    BY <2>2, <2>3
<1>9. ASSUME ~failed', shell' # NoThread PROVE ShellInv'
  <2>1. ShellInv /\ current # shell
    BY <1>0, <1>4, <1>9 DEF SchedInv, ShellInv
  <2> QED
    BY <1>0, <1>2, <1>4, <2>1 DEF ShellInv
<1>10. Dirs' = Alive' /\ \A t \in Alive' : job'[t] = "shell" => t = shell'
  BY <1>4 DEF SchedInv
<1>11. Apart(rq', current')
  BY <1>0, <1>2
<1> QED
  BY <1>5, <1>6, <1>7, <1>8, <1>9, <1>10, <1>11 DEF SchedInv

LEMMA ThreadRunInv ==
    ASSUME SchedInv, NEW c \in CPU, NEW j \in {"yield", "work"}, ThreadRun(j, c)
    PROVE  SchedInv'
<1> DEFINE t == g_thread_id
<1>0. /\ pc = "run" /\ Runs({"shell"})
      /\ UNCHANGED <<current, current_dir, sched_lock, shell, pc, failed>>
      /\ t <= MaxTid /\ g_thread_id' = t + 1
      /\ rq' = [rq EXCEPT ![c] = <<t>> \o @]
      /\ state' = [state EXCEPT ![t] = "runnable"]
      /\ job' = [job EXCEPT ![t] = j] /\ fs' = create_directory(fs, t, Proc)
  BY DEF ThreadRun, thread_run, Runs
<1>1. t \in Tid /\ t >= g_thread_id
  BY <1>0, TidAssumption DEF SchedInv, TypeOK, Tid
<1>2. /\ t # current /\ t \notin Others /\ ~Waits(rq, t)
      /\ state[t] = "none" /\ t \notin DOMAIN fs
  BY <1>1, Fresh
<1>3. Apart(rq, current) /\ rq \in [CPU -> Seq(Tid)] /\ current \in Tid
  BY Facts DEF SchedInv
<1>4. /\ rq' \in [CPU -> Seq(Tid)] /\ Apart(rq', current)
      /\ \A x : Waits(rq', x) <=> (Waits(rq, x) \/ x = t)
      /\ \A d \in CPU : Elems(rq[d]) \subseteq Elems(rq'[d])
  <2>1. /\ rq' \in [CPU -> Seq(Tid)] /\ rq'[c] = <<t>> \o rq[c]
        /\ \A d \in CPU : d # c => rq'[d] = rq[d]
    <3>1. <<t>> \o rq[c] \in Seq(Tid)
      BY <1>1, <1>3
    <3> QED
      BY <3>1, <1>0, <1>3
  <2> HIDE DEF t
  <2> QED
    BY <2>1, <1>1, <1>2, <1>3, PushApart
<1>5. Tree(fs') /\ DOMAIN fs' = DOMAIN fs \cup {t}
  BY <1>0, <1>1, Facts, CreateDirectory
<1>6. /\ state' \in [Tid -> {"none", "runnable", "running"}]
      /\ \A x \in Tid : state'[x] = IF x = t THEN "runnable" ELSE state[x]
      /\ \A x \in Tid : job'[x] = IF x = t THEN j ELSE job[x]
      /\ job' \in [Tid -> Job]
  BY <1>0, <1>1, Facts DEF SchedInv, TypeOK, Job
<1>7. Dirs' = Alive' /\ \A x \in Tid : x \in Alive' <=> (x \in Alive \/ x = t)
  <2>1. \A x \in Tid : x \in Dirs' <=> x \in Alive'
    BY <1>5, <1>6, Facts DEF Dirs, Alive
  <2> QED
    BY <2>1, <1>6 DEF Dirs, Alive
<1>8. TypeOK'
  <2>1. fs_init = [d \in DOMAIN fs' \ Tid |-> fs'[d]] /\ \A d \in Dirs' : fs'[d] = Proc
    BY <1>5 DEF Tree, Dirs
  <2>2. ASSUME NEW x \in Tid, x >= g_thread_id' PROVE state'[x] = "none" /\ x \notin Dirs'
    <3>1. x # t /\ x >= g_thread_id
      BY <2>2, <1>0, Facts
    <3> QED
      BY <3>1, <1>5, <1>6, Fresh DEF Dirs
  <2>3. g_thread_id' \in 0 .. MaxTid + 1
    BY <1>0, <1>1, TidAssumption DEF Tid
  <2>4. /\ current_dir' \in DOMAIN fs_init \cup Tid /\ sched_lock' \in [CPU -> {0, 1}]
        /\ shell' \in Tid \cup {NoThread} /\ failed' \in BOOLEAN
        /\ pc' \in {"run", "spin", "wild", "stale"}
    BY <1>0 DEF SchedInv, TypeOK
  <2> QED
    BY <1>0, <1>3, <1>4, <1>6, <2>1, <2>2, <2>3, <2>4 DEF TypeOK
<1>9. \A x \in Tid : x = current' \/ Waits(rq', x) \/ x \in Others => x < g_thread_id'
  <2>1. \A x \in Tid : x = current \/ Waits(rq, x) \/ x \in Others => x < g_thread_id
    BY DEF SchedInv
  <2>2. \A x \in Tid : x = current' \/ Waits(rq', x) \/ x \in Others =>
                         x < g_thread_id \/ x = g_thread_id
    BY <2>1, <1>0, <1>4
  <2>3. g_thread_id' = g_thread_id + 1 /\ g_thread_id \in Int /\ Tid \subseteq Int
    BY <1>0, Facts
  <2> QED
    BY <2>2, <2>3
<1>10. \A x \in Alive' : job'[x] = "shell" => x = shell'
  <2>1. \A x \in Alive' : x \in Tid
    BY DEF Alive
  <2> QED
    BY <1>0, <1>6, <1>7, <2>1 DEF SchedInv
<1>11. current' \in Alive'
  BY <1>0, <1>3, <1>7 DEF SchedInv
<1>12. ~failed' => Placed(rq', current', state') /\ pc' # "wild"
  BY <1>0, <1>4, <1>6 DEF SchedInv, Placed
<1>13. ASSUME ~failed', shell' # NoThread PROVE ShellInv'
  <2>1. ShellInv /\ shell \in Tid /\ shell < g_thread_id
    BY <1>0, <1>13, ShellFacts DEF SchedInv
  <2>2. job'[shell] = "shell" /\ (shell = current \/ shell \in Elems(rq'[0]))
    BY <1>4, <1>6, <2>1, Facts DEF ShellInv
  <2>3. current_dir \in DOMAIN fs' \/ (job'[current_dir] = "shell" /\ current_dir < shell)
    <3>1. CASE current_dir \in DOMAIN fs
      BY <3>1, <1>5
    <3>2. CASE current_dir \notin DOMAIN fs
      <4>1. current_dir \in Tid
        BY <3>2, Facts, TreeShape DEF SchedInv, TypeOK, fs_init
      <4>2. job[current_dir] = "shell" /\ current_dir < shell
        BY <3>2, <2>1 DEF ShellInv
      <4>3. current_dir # t
        BY <4>1, <4>2, <2>1, Facts
      <4> QED
        BY <4>1, <4>2, <4>3, <1>6
    <3> QED
      BY <3>1, <3>2
  <2> QED
    BY <1>0, <2>1, <2>2, <2>3 DEF ShellInv
<1>14. Apart(rq', current')
  BY <1>0, <1>4
<1> QED
  BY <1>7, <1>8, <1>9, <1>10, <1>11, <1>12, <1>13, <1>14 DEF SchedInv

LEMMA ThreadRunNoProcInv ==
    ASSUME SchedInv, NEW c \in CPU, NEW j, ThreadRunNoProc(j, c)
    PROVE  SchedInv'
<1> DEFINE t == g_thread_id
<1>0. /\ UNCHANGED <<current, state, job, fs, current_dir, sched_lock, shell, pc>>
      /\ t <= MaxTid /\ g_thread_id' = t + 1 /\ failed' = TRUE
      /\ rq' = [rq EXCEPT ![c] = <<t>> \o @]
  BY DEF ThreadRunNoProc
<1>1. t \in Tid /\ t >= g_thread_id
  BY <1>0, TidAssumption DEF SchedInv, TypeOK, Tid
<1>2. t # current /\ t \notin Others /\ ~Waits(rq, t)
  BY <1>1, Fresh
<1>3. Apart(rq, current) /\ rq \in [CPU -> Seq(Tid)] /\ current \in Tid
  BY Facts DEF SchedInv
<1>4. /\ rq' \in [CPU -> Seq(Tid)] /\ Apart(rq', current)
      /\ \A x : Waits(rq', x) <=> (Waits(rq, x) \/ x = t)
  <2>1. /\ rq' \in [CPU -> Seq(Tid)] /\ rq'[c] = <<t>> \o rq[c]
        /\ \A d \in CPU : d # c => rq'[d] = rq[d]
    <3>1. <<t>> \o rq[c] \in Seq(Tid)
      BY <1>1, <1>3
    <3> QED
      BY <3>1, <1>0, <1>3
  <2> HIDE DEF t
  <2> QED
    BY <2>1, <1>1, <1>2, <1>3, PushApart
<1>5. Dirs' = Dirs /\ Alive' = Alive
  BY <1>0 DEF Dirs, Alive
<1>6. TypeOK'
  <2>1. \A x \in Tid : x >= g_thread_id' => state'[x] = "none" /\ x \notin Dirs'
    <3>1. \A x \in Tid : x >= g_thread_id' => x >= g_thread_id
      BY <1>0, Facts
    <3> QED
      BY <3>1, <1>0, <1>5 DEF SchedInv, TypeOK
  <2>2. g_thread_id' \in 0 .. MaxTid + 1
    BY <1>0, <1>1, TidAssumption DEF Tid
  <2> QED
    BY <1>0, <1>4, <1>5, <2>1, <2>2 DEF SchedInv, TypeOK
<1>7. \A x \in Tid : x = current' \/ Waits(rq', x) \/ x \in Others => x < g_thread_id'
  <2>1. \A x \in Tid : x = current \/ Waits(rq, x) \/ x \in Others => x < g_thread_id
    BY DEF SchedInv
  <2>2. \A x \in Tid : x = current' \/ Waits(rq', x) \/ x \in Others =>
                         x < g_thread_id \/ x = g_thread_id
    BY <2>1, <1>0, <1>4
  <2>3. g_thread_id' = g_thread_id + 1 /\ g_thread_id \in Int /\ Tid \subseteq Int
    BY <1>0, Facts
  <2> QED
    BY <2>2, <2>3
<1>8. /\ Dirs' = Alive' /\ \A x \in Alive' : job'[x] = "shell" => x = shell'
      /\ pc' # "wild" => current' \in Alive'
  BY <1>0, <1>5 DEF SchedInv
<1>9. Apart(rq', current')
  BY <1>0, <1>4
<1> QED
  BY <1>0, <1>6, <1>7, <1>8, <1>9 DEF SchedInv

\* The steps of the shell that change pc or current_dir alone.
LEMMA WalkInv ==
    ASSUME SchedInv, Runs({"shell"}), pc' \in {"run", "spin", "stale"},
           UNCHANGED <<rq, current, state, job, fs, g_thread_id, sched_lock, shell, failed>>,
           current_dir' = current_dir \/ current_dir' \in DOMAIN fs
    PROVE  SchedInv'
<1>1. Dirs' = Dirs /\ Alive' = Alive
  BY DEF Dirs, Alive
<1>2. DOMAIN fs \subseteq DOMAIN fs_init \cup Tid
  BY Facts, TreeShape DEF fs_init
<1>3. TypeOK'
  BY <1>1, <1>2 DEF SchedInv, TypeOK
<1>4. ASSUME ~failed, shell # NoThread PROVE ShellInv'
  <2>1. ShellInv /\ current = shell
    BY <1>4, ShellFacts DEF SchedInv
  <2>2. current_dir' \in DOMAIN fs \/ (job[current_dir'] = "shell" /\ current_dir' < shell)
    BY <2>1 DEF ShellInv
  <2> QED
    BY <2>1, <2>2 DEF ShellInv
<1>5. pc = "run"
  BY DEF Runs
<1>6. /\ Apart(rq', current')
      /\ \A t \in Tid : t = current' \/ Waits(rq', t) \/ t \in Others => t < g_thread_id'
      /\ ~failed' => Placed(rq', current', state')
  BY DEF SchedInv
<1>7. Dirs' = Alive' /\ \A t \in Alive' : job'[t] = "shell" => t = shell'
  BY <1>1 DEF SchedInv
<1>8. current' \in Alive'
  BY <1>1, <1>5 DEF SchedInv
<1> QED
  BY <1>3, <1>4, <1>6, <1>7, <1>8 DEF SchedInv

LEMMA CdInv ==
    ASSUME SchedInv,
           \/ CdRoot \/ CdUp \/ CdUpFreed \/ ReadFreed
           \/ \E d \in DOMAIN fs : Cd(d)
           \/ \E c \in CPU : ThreadRunSpin(c)
    PROVE  SchedInv'
<1>1. /\ Root \in DOMAIN fs /\ Proc \in DOMAIN fs
      /\ \A d \in DOMAIN fs : ParentOf(fs, d) \in DOMAIN fs
  <2>1. Tree(fs)
    BY Facts
  <2>2. /\ Root \in DOMAIN fs /\ Proc \in DOMAIN fs /\ fs[Root] = NoDir
        /\ \A x \in DOMAIN fs : x # Root => fs[x] \in {Root, Proc}
    BY <2>1, TreeShape
  <2> QED
    BY <2>2 DEF ParentOf
<1>2. ASSUME NEW d \in DOMAIN fs, Goes(d) PROVE SchedInv'
  BY <1>2, WalkInv DEF Goes, Runs
<1>3. CASE CdRoot \/ CdUp \/ CdUpFreed
  BY <1>1, <1>2, <1>3 DEF CdRoot, CdUp, CdUpFreed
<1>4. CASE \E d \in DOMAIN fs : Cd(d)
  BY <1>2, <1>4 DEF Cd
<1>5. CASE ReadFreed
  BY <1>5, WalkInv DEF ReadFreed
<1>6. CASE \E c \in CPU : ThreadRunSpin(c)
  BY <1>6, WalkInv DEF ThreadRunSpin
<1> QED
  BY <1>3, <1>4, <1>5, <1>6

LEMMA ShellFaultInv ==
    ASSUME SchedInv, NEW c \in CPU, ShellFault(c)
    PROVE  SchedInv'
<1> DEFINE t == g_thread_id + (IF c \in Up THEN 0 ELSE 1)
           r == [rq EXCEPT ![0] = <<t>> \o @]
           st == [state EXCEPT ![t] = "runnable"]
           tree == create_directory(fs, t, Proc)
<1>0. /\ pc = "run" /\ Runs({"shell"}) /\ current = shell
      /\ sched_lock' = [sched_lock EXCEPT ![c] = IF c \in Up THEN @ ELSE 1]
      /\ t <= MaxTid /\ g_thread_id' = t + 1
      /\ job' = [job EXCEPT ![t] = "shell"] /\ shell' = t
      /\ Die(<<t>> \o rq[0], st, tree)
      /\ UNCHANGED <<current_dir, failed>>
  BY DEF ShellFault, Runs
<1>1. t \in Tid /\ t >= g_thread_id
  BY <1>0, TidAssumption DEF SchedInv, TypeOK, Tid
<1> HIDE DEF t
<1>2. /\ t # current /\ t \notin Others /\ ~Waits(rq, t)
      /\ state[t] = "none" /\ t \notin DOMAIN fs
  BY <1>1, Fresh
<1>3. Apart(rq, current) /\ rq \in [CPU -> Seq(Tid)] /\ current \in Tid
  BY Facts DEF SchedInv
<1>4. /\ r \in [CPU -> Seq(Tid)] /\ Apart(r, current)
      /\ \A x : Waits(r, x) <=> (Waits(rq, x) \/ x = t)
  <2>1. /\ r \in [CPU -> Seq(Tid)] /\ r[0] = <<t>> \o rq[0]
        /\ \A d \in CPU : d # 0 => r[d] = rq[d]
    <3>1. <<t>> \o rq[0] \in Seq(Tid)
      BY <1>1, Facts
    <3> QED
      BY <3>1, Facts
  <2> HIDE DEF r
  <2> QED
    BY <2>1, <1>1, <1>2, <1>3, Facts, PushApart
<1>5. WithQueue(r, <<t>> \o rq[0])
  BY Facts DEF WithQueue
<1>a. Head(<<t>> \o rq[0]) = t
  BY <1>1, Facts, PushQueue
<1>6. Tree(tree) /\ DOMAIN tree = DOMAIN fs \cup {t}
  BY <1>1, Facts, CreateDirectory
<1>7. /\ st \in [Tid -> {"none", "runnable", "running"}]
      /\ \A x \in Tid : st[x] = IF x = t THEN "runnable" ELSE state[x]
  BY <1>1, Facts
<1>8. Exact(tree, st)
  BY <1>6, <1>7, Facts DEF Exact
<1> HIDE DEF r, st, tree
<1>9. /\ rq' \in [CPU -> Seq(Tid)] /\ current' \in Tid
      /\ current' = Head(<<t>> \o rq[0]) /\ current' # current
      /\ state' \in [Tid -> {"none", "runnable", "running"}]
      /\ \A x \in Tid : state'[x] = IF x = current THEN "none" ELSE st[x]
      /\ Tree(fs') /\ DOMAIN fs' = DOMAIN tree \ {current} /\ Dirs' = Alive'
      /\ Apart(rq', current')
      /\ \A x : x = current' \/ Waits(rq', x) => Waits(r, x)
      /\ pc' \in {"run", "wild"} /\ (pc' = "run" => current' \in Alive')
      /\ Placed(r, current, st) => Placed(rq', current', state') /\ pc' = "run"
  BY <1>0, <1>3, <1>4, <1>5, <1>6, <1>7, <1>8, DieStep
<1>b. current' = t
  BY <1>9, <1>a
<1>10. /\ \A x \in Tid : job'[x] = IF x = t THEN "shell" ELSE job[x]
       /\ job' \in [Tid -> Job]
  BY <1>0, <1>1 DEF SchedInv, TypeOK, Job
<1>11. TypeOK'
  <2>1. fs_init = [d \in DOMAIN fs' \ Tid |-> fs'[d]] /\ \A d \in Dirs' : fs'[d] = Proc
    BY <1>9 DEF Tree, Dirs
  <2>2. ASSUME NEW x \in Tid, x >= g_thread_id' PROVE state'[x] = "none" /\ x \notin Dirs'
    <3>1. x # t /\ x >= g_thread_id
      BY <2>2, <1>0, <1>1, Facts
    <3>2. state[x] = "none" /\ x \notin DOMAIN fs
      BY <3>1, Fresh
    <3> QED
      BY <3>1, <3>2, <1>6, <1>7, <1>9 DEF Dirs
  <2>3. g_thread_id' \in 0 .. MaxTid + 1 /\ shell' \in Tid
    BY <1>0, <1>1, TidAssumption DEF Tid
  <2>4. /\ current_dir' \in DOMAIN fs_init \cup Tid /\ sched_lock' \in [CPU -> {0, 1}]
        /\ failed' \in BOOLEAN
    BY <1>0 DEF SchedInv, TypeOK
  <2> QED
    BY <1>9, <1>10, <2>1, <2>2, <2>3, <2>4 DEF TypeOK
<1>12. \A x \in Tid : x = current' \/ Waits(rq', x) \/ x \in Others => x < g_thread_id'
  <2>1. \A x \in Tid : Waits(rq, x) \/ x \in Others => x < g_thread_id
    BY DEF SchedInv
  <2> QED
    BY <2>1, <1>0, <1>1, <1>4, <1>9, <1>b, Facts
<1>13. \A x \in Alive' : job'[x] = "shell" => x = shell'
  <2>1. \A x \in Alive' : x \in Tid /\ (x = t \/ (x \in Alive /\ x # shell))
    BY <1>0, <1>7, <1>9 DEF Alive
  <2> QED
    BY <1>0, <1>10, <2>1 DEF SchedInv
<1>14. ASSUME ~failed' PROVE Placed(rq', current', state') /\ pc' # "wild"
  <2>1. Placed(rq, current, state)
    BY <1>0, <1>14 DEF SchedInv
  <2>2. Placed(r, current, st)
    BY <1>4, <1>7, <2>1 DEF Placed
  <2> QED
    BY <2>2, <1>9
<1>15. ASSUME ~failed' PROVE ShellInv'
  <2>1. current \in Tid /\ current < t /\ job[current] = "shell" /\ shell # NoThread
    <3>1. current < g_thread_id /\ job[current] = "shell"
      BY <1>0, <1>3 DEF SchedInv, Runs
    <3> QED
      BY <3>1, <1>0, <1>1, <1>3, Facts, TidAssumption DEF NoThread, Tid
  <2>2. ShellInv
    BY <1>0, <1>15, <2>1 DEF SchedInv
  <2>3. job'[t] = "shell"
    BY <1>1, <1>10
  <2>4. current_dir \in DOMAIN fs' \/ (job'[current_dir] = "shell" /\ current_dir < t)
    <3>1. CASE current_dir \in DOMAIN fs /\ current_dir # current
      BY <3>1, <1>6, <1>9
    <3>2. CASE current_dir = current
      BY <3>2, <2>1, <1>2, <1>10
    <3>3. CASE current_dir \notin DOMAIN fs
      <4>1. current_dir \in Tid
        BY <3>3, Facts, TreeShape DEF SchedInv, TypeOK, fs_init
      <4>2. job[current_dir] = "shell" /\ current_dir < current
        BY <3>3, <2>2, <1>0 DEF ShellInv
      <4>3. current_dir < t /\ current_dir # t
        BY <4>1, <4>2, <2>1, <1>1, Facts
      <4> QED
        BY <4>1, <4>2, <4>3, <1>10
    <3> QED
      BY <3>1, <3>2, <3>3
  <2> QED
    BY <1>0, <1>b, <2>3, <2>4 DEF ShellInv
<1> QED
  BY <1>9, <1>11, <1>12, <1>13, <1>14, <1>15 DEF SchedInv

LEMMA ShellFaultNoProcInv == ASSUME SchedInv, ShellFaultNoProc PROVE SchedInv'
<1> DEFINE t == g_thread_id
           r == [rq EXCEPT ![0] = <<t>> \o @]
<1>0. /\ pc = "run" /\ current = shell /\ t <= MaxTid /\ g_thread_id' = t + 1
      /\ shell' = NoThread /\ failed' = TRUE
      /\ Die(<<t>> \o rq[0], state, fs)
      /\ UNCHANGED <<job, current_dir, sched_lock>>
  BY DEF ShellFaultNoProc, Runs
<1>1. t \in Tid /\ t >= g_thread_id
  BY <1>0, TidAssumption DEF SchedInv, TypeOK, Tid
<1>2. t # current /\ t \notin Others /\ ~Waits(rq, t)
  BY <1>1, Fresh
<1>3. Apart(rq, current) /\ rq \in [CPU -> Seq(Tid)] /\ current \in Tid
  BY Facts DEF SchedInv
<1>4. /\ r \in [CPU -> Seq(Tid)] /\ Apart(r, current)
      /\ \A x : Waits(r, x) <=> (Waits(rq, x) \/ x = t)
  <2>1. /\ r \in [CPU -> Seq(Tid)] /\ r[0] = <<t>> \o rq[0]
        /\ \A d \in CPU : d # 0 => r[d] = rq[d]
    <3>1. <<t>> \o rq[0] \in Seq(Tid)
      BY <1>1, Facts
    <3> QED
      BY <3>1, Facts
  <2> HIDE DEF t, r
  <2> QED
    BY <2>1, <1>1, <1>2, <1>3, Facts, PushApart
<1>5. WithQueue(r, <<t>> \o rq[0]) /\ Exact(fs, state)
  BY Facts DEF WithQueue, Exact
<1> HIDE DEF r
<1>6. /\ rq' \in [CPU -> Seq(Tid)] /\ current' \in Tid
      /\ state' \in [Tid -> {"none", "runnable", "running"}]
      /\ \A x \in Tid : state'[x] = IF x = current THEN "none" ELSE state[x]
      /\ Tree(fs') /\ DOMAIN fs' = DOMAIN fs \ {current} /\ Dirs' = Alive'
      /\ Apart(rq', current')
      /\ \A x : x = current' \/ Waits(rq', x) => Waits(r, x)
      /\ pc' \in {"run", "wild"} /\ (pc' = "run" => current' \in Alive')
  BY <1>0, <1>3, <1>4, <1>5, Facts, DieStep
<1>7. TypeOK'
  <2>1. fs_init = [d \in DOMAIN fs' \ Tid |-> fs'[d]] /\ \A d \in Dirs' : fs'[d] = Proc
    BY <1>6 DEF Tree, Dirs
  <2>2. ASSUME NEW x \in Tid, x >= g_thread_id' PROVE state'[x] = "none" /\ x \notin Dirs'
    <3>1. x >= g_thread_id
      BY <2>2, <1>0, Facts
    <3> QED
      BY <3>1, <1>6, Fresh DEF Dirs
  <2>3. g_thread_id' \in 0 .. MaxTid + 1
    BY <1>0, <1>1, TidAssumption DEF Tid
  <2>4. /\ job' \in [Tid -> Job] /\ current_dir' \in DOMAIN fs_init \cup Tid
        /\ sched_lock' \in [CPU -> {0, 1}]
    BY <1>0 DEF SchedInv, TypeOK
  <2> QED
    BY <1>0, <1>6, <2>1, <2>2, <2>3, <2>4 DEF TypeOK
<1>8. \A x \in Tid : x = current' \/ Waits(rq', x) \/ x \in Others => x < g_thread_id'
  <2>1. \A x \in Tid : Waits(rq, x) \/ x \in Others => x < g_thread_id
    BY DEF SchedInv
  <2>2. \A x \in Tid : x = current' \/ Waits(rq', x) \/ x \in Others =>
                         x < g_thread_id \/ x = g_thread_id
    BY <2>1, <1>4, <1>6
  <2>3. g_thread_id' = g_thread_id + 1 /\ g_thread_id \in Int /\ Tid \subseteq Int
    BY <1>0, Facts
  <2> QED
    BY <2>2, <2>3
<1>9. \A x \in Alive' : job'[x] = "shell" => x = shell'
  <2>1. \A x \in Alive' : x \in Alive /\ x # shell
    BY <1>0, <1>6 DEF Alive
  <2> QED
    BY <1>0, <2>1 DEF SchedInv
<1> QED
  BY <1>0, <1>6, <1>7, <1>8, <1>9 DEF SchedInv

----------------------------------------------------------------------------
(* The invariant and what follows from it *)

LEMMA InitSchedInv == ASSUME Init PROVE SchedInv
<1> DEFINE n == Cardinality(Up)
<1>1. n \in Nat /\ n >= 1 /\ n <= MaxTid /\ MaxTid \in Nat
  <2>1. IsFiniteSet(Up) /\ Up # {} /\ n <= MaxTid /\ MaxTid \in Nat
    BY CpuAssumption, TidAssumption
  <2>2. n \in Nat
    BY <2>1, FS_CardinalityType
  <2>3. n # 0
    BY <2>1, FS_EmptySet
  <2> QED
    BY <2>1, <2>2, <2>3
<1>2. 0 \in CPU /\ 0 \in Tid /\ n \in Tid
  BY <1>1, CpuAssumption DEF Tid
<1>3. Others = 1 .. n - 1
  <2> HIDE DEF n
  <2>1. Idles = {t \in Tid : t < n}
    BY DEF Idles, n
  <2>2. \A t : t \in Others <=> t \in 1 .. n - 1
    BY <1>1, <2>1 DEF Others, Tid
  <2> QED
    BY <2>2
<1>4. /\ rq = [c \in CPU |-> IF c = 0 THEN <<n>> ELSE <<>>] /\ current = 0
      /\ state = [t \in Tid |-> IF t < n THEN "running"
                                ELSE IF t = n THEN "runnable" ELSE "none"]
      /\ job = [t \in Tid |-> IF t = n THEN "shell" ELSE "idle"]
      /\ fs = [d \in DOMAIN fs_init \cup (0 .. n) |->
                 IF d \in 0 .. n THEN Proc ELSE fs_init[d]]
      /\ current_dir = Root /\ g_thread_id = n + 1
      /\ sched_lock = [c \in CPU |-> 0] /\ shell = n /\ pc = "run" /\ failed = FALSE
  BY DEF Init
<1> HIDE DEF n
<1>5. /\ rq \in [CPU -> Seq(Tid)] /\ Elems(rq[0]) = {n}
      /\ \A c \in CPU : c # 0 => Elems(rq[c]) = {}
      /\ \A c \in CPU : Distinct(rq[c])
  <2>1. rq[0] = <<n>> /\ \A c \in CPU : c # 0 => rq[c] = <<>>
    BY <1>2, <1>4
  <2>2. rq \in [CPU -> Seq(Tid)]
    BY <1>2, <1>4
  <2>3. Elems(<<n>>) = {n} /\ Distinct(<<n>>)
    BY DEF Elems, Distinct
  <2>4. Elems(<<>>) = {} /\ Distinct(<<>>)
    BY DEF Elems, Distinct
  <2> QED
    BY <2>1, <2>2, <2>3, <2>4
<1>6. \A t : Waits(rq, t) <=> t = n
  BY <1>2, <1>5 DEF Waits
<1>7. Apart(rq, current)
  <2>1. 0 \notin Others /\ n \notin Others /\ n # 0
    BY <1>1, <1>3
  <2>2. \A c, d \in CPU : c # d => Elems(rq[c]) \cap Elems(rq[d]) = {}
    BY <1>5
  <2> QED
    BY <1>4, <1>5, <1>6, <2>1, <2>2 DEF Apart
<1>8. {Root, Bin, Proc, Sys} \cap Tid = {} /\ DOMAIN fs_init = {Root, Bin, Proc, Sys}
  BY <1>1 DEF Root, Bin, Proc, Sys, Tid, fs_init
<1>9. 0 .. n \subseteq Tid
  BY <1>1 DEF Tid
<1>10. DOMAIN fs = DOMAIN fs_init \cup (0 .. n)
  BY <1>4
<1>11. Dirs = 0 .. n /\ DOMAIN fs \ Tid = DOMAIN fs_init
  BY <1>8, <1>9, <1>10 DEF Dirs
<1>12. \A t \in Tid : state[t] # "none" <=> t \in 0 .. n
  BY <1>1, <1>4 DEF Tid
<1>13. Alive = 0 .. n
  BY <1>9, <1>12 DEF Alive
<1>14. TypeOK
  <2>1. /\ state \in [Tid -> {"none", "runnable", "running"}] /\ job \in [Tid -> Job]
        /\ sched_lock \in [CPU -> {0, 1}]
    BY <1>4 DEF Job
  <2>2. fs_init = [d \in DOMAIN fs \ Tid |-> fs[d]] /\ \A d \in Dirs : fs[d] = Proc
    <3>1. \A d \in DOMAIN fs_init : fs[d] = fs_init[d]
      BY <1>4, <1>8, <1>9
    <3>2. fs_init = [d \in DOMAIN fs_init |-> fs_init[d]]
      BY DEF fs_init
    <3> QED
      BY <3>1, <3>2, <1>4, <1>11
  <2>3. \A t \in Tid : t >= g_thread_id => state[t] = "none" /\ t \notin Dirs
    <3>1. \A t \in Tid : t >= n + 1 => t \notin 0 .. n
      BY <1>1 DEF Tid
    <3> QED
      BY <3>1, <1>4, <1>11, <1>12
  <2>4. current_dir \in DOMAIN fs_init \cup Tid /\ shell \in Tid /\ current \in Tid
    BY <1>2, <1>4, <1>8
  <2>5. g_thread_id \in 0 .. MaxTid + 1
    BY <1>1, <1>4
  <2> QED
    BY <1>4, <1>5, <2>1, <2>2, <2>3, <2>4, <2>5 DEF TypeOK
<1>15. \A t \in Tid : t = current \/ Waits(rq, t) \/ t \in Others => t < g_thread_id
  BY <1>1, <1>3, <1>4, <1>6 DEF Tid
<1>16. Placed(rq, current, state)
  <2>1. \A t \in Tid : t \in 0 .. n <=> (t = 0 \/ t \in 1 .. n - 1 \/ t = n)
    BY <1>1 DEF Tid
  <2> QED
    BY <2>1, <1>3, <1>4, <1>6, <1>12 DEF Placed
<1>17. \A t \in Alive : job[t] = "shell" => t = shell
  BY <1>4 DEF Alive
<1>18. current \in Alive
  BY <1>1, <1>4, <1>13
<1>19. ShellInv
  <2>1. job[n] = "shell" /\ n \in Elems(rq[0])
    BY <1>2, <1>4, <1>5
  <2>2. Root \notin Tid /\ Root \in DOMAIN fs
    BY <1>8, <1>10
  <2> QED
    BY <1>4, <2>1, <2>2 DEF ShellInv
<1> QED
  BY <1>4, <1>7, <1>11, <1>13, <1>14, <1>15, <1>16, <1>17, <1>18, <1>19 DEF SchedInv

LEMMA SchedInvariant == Spec => []SchedInv
<1>1. Init => SchedInv
  BY InitSchedInv
<1>2. SchedInv /\ [Next]_vars => SchedInv'
  <2> SUFFICES ASSUME SchedInv, [Next]_vars PROVE SchedInv'
    OBVIOUS
  <2>1. CASE Yield
    BY <2>1, YieldInv
  <2>2. CASE Exit \/ Fault \/ ShellFaultNoMemory
    BY <2>2, ExitInv, FaultInv, ShellFaultNoMemoryInv
  <2>3. CASE ShellFaultNoProc
    BY <2>3, ShellFaultNoProcInv
  <2>4. CASE CdRoot \/ CdUp \/ CdUpFreed \/ ReadFreed \/ (\E d \in DOMAIN fs : Cd(d))
                \/ (\E c \in CPU : ThreadRunSpin(c))
    BY <2>4, CdInv
  <2>5. CASE \E c \in CPU : ShellFault(c)
    BY <2>5, ShellFaultInv
  <2>6. CASE \E c \in CPU, j \in {"yield", "work"} : ThreadRun(j, c)
    BY <2>6, ThreadRunInv
  <2>7. CASE \E c \in CPU, j \in {"yield", "work"} : ThreadRunNoProc(j, c)
    BY <2>7, ThreadRunNoProcInv
  <2>8. CASE UNCHANGED vars
    BY <2>8 DEF vars, SchedInv, TypeOK, Dirs, Alive, ShellInv
  <2> QED
    BY <2>1, <2>2, <2>3, <2>4, <2>5, <2>6, <2>7, <2>8 DEF Next
<1> QED
  BY <1>1, <1>2, PTL DEF Spec

LEMMA PlacesFollow == ASSUME SchedInv PROVE OnePlace
<1> SUFFICES ASSUME ~failed PROVE OnePlace
  BY DEF OnePlace
<1> DEFINE Queues == UNION {Queued(c) : c \in CPU}
<1>1. \A c : Queued(c) = Elems(rq[c])
  BY DEF Queued, Elems
<1>2. \A t : t \in Queues <=> Waits(rq, t)
  BY <1>1 DEF Waits
<1>3. /\ Placed(rq, current, state) /\ pc # "wild" /\ Apart(rq, current)
      /\ rq \in [CPU -> Seq(Tid)] /\ current \in Tid
  BY Facts DEF SchedInv
<1>4. \A t \in Queues : t \in Tid
  <2>1. \A c \in CPU : \A t \in Elems(rq[c]) : t \in Tid
    BY <1>3 DEF Elems
  <2> QED
    BY <1>2, <2>1 DEF Waits
<1> HIDE DEF Queues
<1>5. Others \subseteq Tid
  BY DEF Others, Idles
<1>6. Alive = {current} \cup Others \cup Queues
  <2>1. \A t \in Tid : t \in Alive <=> (t = current \/ t \in Others \/ t \in Queues)
    BY <1>2, <1>3 DEF Placed, Alive
  <2>2. \A t \in Alive : t \in Tid
    BY DEF Alive
  <2> QED
    BY <1>3, <1>4, <1>5, <2>1, <2>2
<1>7. current \notin Queues /\ Others \cap Queues = {}
  BY <1>2, <1>3 DEF Apart
<1>8. \A c \in CPU : Cardinality(Queued(c)) = Len(rq[c])
  BY <1>1, <1>3, DistinctLen DEF Apart
<1>9. \A c, d \in CPU : c # d => Queued(c) \cap Queued(d) = {}
  BY <1>1, <1>3 DEF Apart
<1> QED
  BY <1>3, <1>6, <1>7, <1>8, <1>9 DEF OnePlace, Queues, Others

\* Until create_thread_procfs fails, every thread runs or waits in one queue,
\* once, and schedule() never switches to a thread that was freed, with any
\* number of CPUs, threads and shells that faulted.
THEOREM OnePlaceCorrect == Spec => []OnePlace
  BY SchedInvariant, PlacesFollow, PTL

\* /proc has exactly the directories of the threads that live, whatever failed
\* before: schedule() frees a thread and its directory together.
THEOREM ProcExactCorrect == Spec => []ProcExact
<1>1. SchedInv => ProcExact
  BY DEF SchedInv, ProcExact
<1> QED
  BY <1>1, SchedInvariant, PTL

\* The shell's current_dir is a directory that lives, or that of an earlier
\* shell, the one thread that can end while a shell walks through /proc.
THEOREM DirectoryLivesCorrect == Spec => []DirectoryLives
<1>1. SchedInv => DirectoryLives
  BY DEF SchedInv, DirectoryLives, ShellInv
<1> QED
  BY <1>1, SchedInvariant, PTL

\* While memory lasts there is a shell, and CPU 0 runs it or has it in its queue,
\* after any sequence of faults, yields and exits.
THEOREM ShellLivesCorrect == Spec => []ShellLives
<1>1. SchedInv => ShellLives
  BY DEF SchedInv, ShellLives, ShellInv, Queued, Elems
<1> QED
  BY <1>1, SchedInvariant, PTL

=============================================================================
