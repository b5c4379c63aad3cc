--------------------------- MODULE Console_proofs ---------------------------
(* The clock of kernel/timer.c and the input of the shell, for every length  *)
(* of a behaviour and every interleaving of the user, the reader and the     *)
(* timer.                                                                    *)
EXTENDS Console, SequenceTheorems, TLAPS

Flag == {"SHIFT", "CTL", "ALT", "CAPSLOCK", "E0ESC"}

----------------------------------------------------------------------------
(* The clock.  Of ClockExact the msecs are inductive only with the fact that  *)
(* they are those of the ticks since the last full second.                    *)

TimeType == [hours : Nat, minutes : 0 .. SIXTY - 1, seconds : 0 .. SIXTY - 1,
             msecs : 0 .. MSECS - 1, ticks : 0 .. U32 - 1]

ClockInv ==
    /\ time \in TimeType
    /\ pc # "timer_scan" =>
        /\ Elapsed(time) = 10 * time.ticks
        /\ time.msecs = 10 * (time.ticks % TICK_NUM)

LEMMA DivModIs ==
    ASSUME NEW d \in Nat \ {0}, NEW x \in Nat
    PROVE  /\ x \div d \in Nat /\ x % d \in 0 .. d - 1
           /\ x = (x \div d) * d + (x % d)
<1>1. x \div d \in Int /\ x % d \in 0 .. d - 1 /\ x = (x \div d) * d + (x % d)
  OBVIOUS
<1>2. x \div d >= 0
  OBVIOUS
<1> QED
  BY <1>1, <1>2

\* The rest after one more tick
LEMMA NextRest ==
    ASSUME NEW d \in Nat \ {0}, NEW x \in Nat
    PROVE  (x + 1) % d = IF x % d = d - 1 THEN 0 ELSE (x % d) + 1
<1> DEFINE q == x \div d
           r == x % d
           q2 == (x + 1) \div d
           r2 == (x + 1) % d
<1>1. q \in Nat /\ r \in 0 .. d - 1 /\ x = q * d + r
  BY DivModIs
<1>2. q2 \in Nat /\ r2 \in 0 .. d - 1 /\ x + 1 = q2 * d + r2
  <2>1. x + 1 \in Nat
    OBVIOUS
  <2> QED
    BY <2>1, DivModIs
<1> HIDE DEF q, r, q2, r2
<1>3. q2 >= q
  <2> SUFFICES ASSUME q2 + 1 <= q PROVE FALSE
    BY <1>1, <1>2
  <2>1. (q2 + 1) * d <= q * d /\ (q2 + 1) * d = q2 * d + d
    BY <1>1, <1>2
  <2> QED
    BY <1>1, <1>2, <2>1
<1>4. q2 <= q + 1
  <2> SUFFICES ASSUME q + 2 <= q2 PROVE FALSE
    BY <1>1, <1>2
  <2>1. (q + 2) * d <= q2 * d /\ (q + 2) * d = q * d + 2 * d
    BY <1>1, <1>2
  <2> QED
    BY <1>1, <1>2, <2>1
<1>5. CASE q2 = q
  <2>1. r2 = r + 1
    BY <1>1, <1>2, <1>5
  <2> QED
    BY <1>1, <1>2, <2>1 DEF r, r2
<1>6. CASE q2 = q + 1
  <2>1. q2 * d = q * d + d
    BY <1>1, <1>6
  <2>2. r2 = r + 1 - d
    BY <1>1, <1>2, <2>1
  <2>3. r2 = 0 /\ r = d - 1
    BY <1>1, <1>2, <2>2
  <2> QED
    BY <2>3 DEF r, r2
<1> QED
  BY <1>1, <1>2, <1>3, <1>4, <1>5, <1>6

\* Carrying loses nothing.
LEMMA AddSecond ==
    ASSUME NEW t \in [hours : Nat, minutes : 0 .. SIXTY - 1, seconds : 0 .. SIXTY - 1,
                      msecs : {0}, ticks : 0 .. U32 - 1],
           NEW u, u = time_add(t, 1)
    PROVE  /\ u \in TimeType /\ u.ticks = t.ticks /\ u.msecs = 0
           /\ Elapsed(u) = Elapsed(t) + MSECS
<1>1. /\ SIXTY \in Nat \ {0} /\ MSECS \in Nat \ {0}
      /\ t.hours \in Nat /\ t.minutes \in 0 .. SIXTY - 1 /\ t.seconds \in 0 .. SIXTY - 1
      /\ t.msecs = 0 /\ t.ticks \in 0 .. U32 - 1
  BY TimeAssumption
<1>2. MSECS \div MSECS = 1 /\ MSECS % MSECS = 0
  <2> DEFINE q == MSECS \div MSECS
             r == MSECS % MSECS
  <2>1. q \in Nat /\ r \in 0 .. MSECS - 1 /\ MSECS = q * MSECS + r
    BY <1>1, DivModIs
  <2> HIDE DEF q, r
  <2>2. q # 0
    BY <1>1, <2>1
  <2>3. ~(q >= 2)
    <3> SUFFICES ASSUME q >= 2 PROVE FALSE
      OBVIOUS
    <3>1. q * MSECS >= 2 * MSECS
      BY <1>1, <2>1
    <3> QED
      BY <1>1, <2>1, <3>1
  <2>4. q = 1
    BY <2>1, <2>2, <2>3
  <2>5. r = 0
    BY <1>1, <2>1, <2>4
  <2> QED
    BY <2>4, <2>5 DEF q, r
<1> DEFINE s == t.seconds + 1
           n == t.minutes + (s \div SIXTY)
<1>3. /\ s \in Nat /\ s \div SIXTY \in Nat /\ s % SIXTY \in 0 .. SIXTY - 1
      /\ s = (s \div SIXTY) * SIXTY + (s % SIXTY)
  <2>1. s \in Nat
    BY <1>1
  <2> HIDE DEF s
  <2> QED
    BY <1>1, <2>1, DivModIs
<1>4. /\ n \in Nat /\ n \div SIXTY \in Nat /\ n % SIXTY \in 0 .. SIXTY - 1
      /\ n = (n \div SIXTY) * SIXTY + (n % SIXTY)
  <2>1. n \in Nat
    <3> HIDE DEF s
    <3> QED
      BY <1>1, <1>3
  <2> HIDE DEF n
  <2> QED
    BY <1>1, <2>1, DivModIs
<1>5. u = [t EXCEPT !.msecs = 0, !.seconds = s % SIXTY,
                    !.minutes = n % SIXTY, !.hours = @ + (n \div SIXTY)]
  <2>1. t.msecs + 1 * MSECS = MSECS
    BY <1>1
  <2> QED
    BY <1>2, <2>1 DEF time_add, time_add_ms
<1>6. /\ u \in TimeType /\ u.ticks = t.ticks /\ u.msecs = 0 /\ u.seconds = s % SIXTY
      /\ u.minutes = n % SIXTY /\ u.hours = t.hours + (n \div SIXTY)
  <2> DEFINE b == s % SIXTY
             d == n % SIXTY
             c == n \div SIXTY
  <2>1. b \in 0 .. SIXTY - 1 /\ d \in 0 .. SIXTY - 1 /\ c \in Nat
    BY <1>3, <1>4
  <2>2. u = [t EXCEPT !.msecs = 0, !.seconds = b, !.minutes = d, !.hours = @ + c]
    BY <1>5
  <2> HIDE DEF s, n, b, c, d
  <2>3. 0 \in 0 .. MSECS - 1 /\ t.hours + c \in Nat
    BY <1>1, <2>1
  <2>4. u = [hours |-> t.hours + c, minutes |-> d, seconds |-> b, msecs |-> 0, ticks |-> t.ticks]
    BY <2>2
  <2>5. u \in TimeType
    BY <1>1, <2>1, <2>3, <2>4 DEF TimeType
  <2>6. /\ u.ticks = t.ticks /\ u.msecs = 0 /\ u.seconds = b
        /\ u.minutes = d /\ u.hours = t.hours + c
    BY <2>4
  <2> QED
    BY <2>5, <2>6 DEF b, c, d
<1>7. (u.hours * SIXTY + u.minutes) * SIXTY + u.seconds
        = (t.hours * SIXTY + t.minutes) * SIXTY + t.seconds + 1
  <2> DEFINE a == s \div SIXTY
             b == s % SIXTY
             c == n \div SIXTY
             d == n % SIXTY
             h == t.hours
             m == t.minutes
  <2>1. /\ a \in Nat /\ b \in Nat /\ c \in Nat /\ d \in Nat /\ h \in Nat /\ m \in Nat
        /\ t.seconds + 1 = a * SIXTY + b /\ m + a = c * SIXTY + d
    BY <1>1, <1>3, <1>4
  <2>2. u.hours = h + c /\ u.minutes = d /\ u.seconds = b
    BY <1>6
  <2> HIDE DEF a, b, c, d, h, m, s, n
  <2>3. (h + c) * SIXTY + d = h * SIXTY + (m + a)
    BY <1>1, <2>1
  <2>4. (h * SIXTY + (m + a)) * SIXTY = (h * SIXTY + m) * SIXTY + a * SIXTY
    BY <1>1, <2>1
  <2>5. ((h + c) * SIXTY + d) * SIXTY + b = (h * SIXTY + m) * SIXTY + (t.seconds + 1)
    BY <1>1, <2>1, <2>3, <2>4
  <2>6. ((h + c) * SIXTY + d) * SIXTY + b = (h * SIXTY + m) * SIXTY + t.seconds + 1
    BY <1>1, <2>1, <2>5
  <2> QED
    BY <2>2, <2>6 DEF h, m
<1> DEFINE X == (t.hours * SIXTY + t.minutes) * SIXTY + t.seconds
<1>8. X \in Nat /\ Elapsed(t) = X * MSECS + 0 /\ Elapsed(u) = (X + 1) * MSECS + 0
  BY <1>1, <1>6, <1>7 DEF Elapsed
<1> HIDE DEF X
<1>9. Elapsed(u) = Elapsed(t) + MSECS
  BY <1>1, <1>8
<1> QED
  BY <1>6, <1>9

LEMMA SetTicks ==
    ASSUME NEW t \in TimeType, NEW n, NEW z
    PROVE  [t EXCEPT !.ticks = n, !.msecs = z]
             = [hours |-> t.hours, minutes |-> t.minutes, seconds |-> t.seconds,
                msecs |-> z, ticks |-> n]
<1> DEFINE u == [t EXCEPT !.ticks = n, !.msecs = z]
           v == [hours |-> t.hours, minutes |-> t.minutes, seconds |-> t.seconds,
                 msecs |-> z, ticks |-> n]
<1>1. t = [hours |-> t.hours, minutes |-> t.minutes, seconds |-> t.seconds,
           msecs |-> t.msecs, ticks |-> t.ticks]
  BY DEF TimeType
<1>2. DOMAIN u = DOMAIN t /\ DOMAIN t = {"hours", "minutes", "seconds", "msecs", "ticks"}
  BY <1>1
<1>3. u = [x \in DOMAIN t |-> IF x = "msecs" THEN z ELSE IF x = "ticks" THEN n ELSE t[x]]
  BY <1>2
<1>4. v = [x \in DOMAIN t |-> IF x = "msecs" THEN z ELSE IF x = "ticks" THEN n ELSE t[x]]
  BY <1>2
<1> QED
  BY <1>3, <1>4

\* One interrupt is ten milliseconds, and the parts stay in their ranges.
LEMMA TickedExact ==
    ASSUME time \in TimeType,
           Elapsed(time) = 10 * time.ticks, time.msecs = 10 * (time.ticks % TICK_NUM)
    PROVE  /\ Ticked \in TimeType
           /\ Ticked.ticks # 0 =>
                /\ Elapsed(Ticked) = 10 * Ticked.ticks
                /\ Ticked.msecs = 10 * (Ticked.ticks % TICK_NUM)
<1> DEFINE k == time.ticks
           n == (k + 1) % U32
           r == n % TICK_NUM
           p == k % TICK_NUM
           t == [time EXCEPT !.ticks = n, !.msecs = r * 10]
           X == (time.hours * SIXTY + time.minutes) * SIXTY + time.seconds
<1>1. /\ SIXTY \in Nat \ {0} /\ TICK_NUM \in Nat \ {0} /\ U32 \in Nat \ {0}
      /\ MSECS = 10 * TICK_NUM /\ MSECS \in Nat \ {0}
      /\ time.hours \in Nat /\ time.minutes \in 0 .. SIXTY - 1
      /\ time.seconds \in 0 .. SIXTY - 1 /\ time.msecs = 10 * p /\ k \in 0 .. U32 - 1
  BY TimeAssumption DEF TimeType
<1>2. k \in Nat /\ k + 1 \in Nat
  BY <1>1
<1>3. n \in 0 .. U32 - 1 /\ (n # 0 => n = k + 1)
  <2> DEFINE q == (k + 1) \div U32
  <2>1. q \in Nat /\ n \in 0 .. U32 - 1 /\ k + 1 = q * U32 + n
    <3> HIDE DEF k
    <3> QED
      BY <1>1, <1>2, DivModIs
  <2> HIDE DEF q, n, k
  <2>2. CASE q = 0
    BY <1>1, <2>1, <2>2
  <2>3. CASE q >= 1
    <3>1. q * U32 >= U32
      BY <1>1, <2>1, <2>3
    <3> QED
      BY <1>1, <2>1, <3>1
  <2> QED
    BY <2>1, <2>2, <2>3
<1>4. n \in Nat
  <2> HIDE DEF n
  <2> QED
    BY <1>1, <1>3
<1>5. r \in 0 .. TICK_NUM - 1 /\ p \in 0 .. TICK_NUM - 1
  <2> HIDE DEF n, k
  <2> QED
    BY <1>1, <1>2, <1>4, DivModIs
<1>6. n # 0 => r = IF p = TICK_NUM - 1 THEN 0 ELSE p + 1
  <2>1. (k + 1) % TICK_NUM = IF p = TICK_NUM - 1 THEN 0 ELSE p + 1
    <3> HIDE DEF k
    <3> QED
      BY <1>1, <1>2, NextRest
  <2> HIDE DEF n, k, p
  <2> QED
    BY <1>3, <2>1
<1>7. X \in Nat /\ X * MSECS \in Nat /\ Elapsed(time) = X * MSECS + 10 * p
  <2>1. X \in Nat
    <3> HIDE DEF p, k
    <3> QED
      BY <1>1
  <2>2. Elapsed(time) = X * MSECS + 10 * p
    <3> HIDE DEF p, k
    <3> QED
      BY <1>1 DEF Elapsed
  <2> HIDE DEF X
  <2>3. X * MSECS \in Nat
    BY <1>1, <2>1
  <2> QED
    BY <2>1, <2>2, <2>3
<1>8. Ticked = IF r = 0 THEN time_add(t, 1) ELSE t
  BY DEF Ticked
<1>9. /\ t = [hours |-> time.hours, minutes |-> time.minutes, seconds |-> time.seconds,
              msecs |-> r * 10, ticks |-> n]
      /\ t.ticks = n /\ t.msecs = r * 10
  <2> DEFINE z == r * 10
  <2> HIDE DEF r, n, z
  <2>1. /\ [time EXCEPT !.ticks = n, !.msecs = z]
             = [hours |-> time.hours, minutes |-> time.minutes, seconds |-> time.seconds,
                msecs |-> z, ticks |-> n]
    BY SetTicks
  <2>2. t = [hours |-> time.hours, minutes |-> time.minutes, seconds |-> time.seconds,
             msecs |-> z, ticks |-> n]
    BY <2>1 DEF z
  <2> HIDE DEF t
  <2>3. t.ticks = n /\ t.msecs = z
    BY <2>2
  <2> QED
    BY <2>2, <2>3 DEF z
<1>10. Elapsed(t) = X * MSECS + r * 10
  <2> HIDE DEF r, n
  <2> QED
    BY <1>9 DEF Elapsed
<1>11. X * MSECS + 10 * p = 10 * k
  BY <1>7
<1>12. CASE r # 0
  <2>1. r * 10 \in 0 .. MSECS - 1
    <3> HIDE DEF r
    <3> QED
      BY <1>1, <1>5
  <2>2. t \in TimeType
    <3> HIDE DEF r, n, t, k, p
    <3> QED
      BY <1>1, <1>3, <1>9, <2>1 DEF TimeType
  <2>3. ASSUME n # 0 PROVE Elapsed(t) = 10 * n
    <3> HIDE DEF r, n, t, k, p, X
    <3> QED
      BY <1>1, <1>2, <1>3, <1>5, <1>6, <1>7, <1>10, <1>11, <1>12, <2>3
  <2>4. t.msecs = 10 * (t.ticks % TICK_NUM)
    <3>1. r * 10 = 10 * r
      <4> HIDE DEF r
      <4> QED
        BY <1>1, <1>5
    <3>2. t.ticks % TICK_NUM = r
      BY <1>9
    <3> HIDE DEF r, n, t
    <3> QED
      BY <1>9, <3>1, <3>2
  <2>5. Ticked = t
    <3> HIDE DEF r, t
    <3> QED
      BY <1>8, <1>12
  <2> HIDE DEF t, n, r, k, p, X
  <2> QED
    BY <1>9, <2>2, <2>3, <2>4, <2>5
<1>13. CASE r = 0
  <2> DEFINE u == time_add(t, 1)
  <2>1. Ticked = u
    <3> HIDE DEF r, t
    <3> QED
      BY <1>8, <1>13
  <2>2. t.msecs = 0
    <3> HIDE DEF r, t
    <3> QED
      BY <1>9, <1>13
  <2>3. t \in [hours : Nat, minutes : 0 .. SIXTY - 1, seconds : 0 .. SIXTY - 1,
               msecs : {0}, ticks : 0 .. U32 - 1]
    <3> HIDE DEF r, n, t, k, p
    <3> QED
      BY <1>1, <1>3, <1>9, <1>13
  <2>4. /\ u \in TimeType /\ u.ticks = t.ticks /\ u.msecs = 0
        /\ Elapsed(u) = Elapsed(t) + MSECS
    <3> HIDE DEF t, r, n
    <3> QED
      BY <2>3, AddSecond
  <2>5. u.ticks % TICK_NUM = 0
    <3>1. n % TICK_NUM = 0
      BY <1>13
    <3> HIDE DEF t, r, n, u
    <3> QED
      BY <1>9, <2>4, <3>1
  <2>6. ASSUME n # 0 PROVE Elapsed(u) = 10 * n
    <3> HIDE DEF r, n, t, k, p, X, u
    <3> QED
      BY <1>1, <1>2, <1>3, <1>5, <1>6, <1>7, <1>10, <1>11, <1>13, <2>4, <2>6
  <2>7. u.msecs = 10 * (u.ticks % TICK_NUM)
    <3> HIDE DEF u
    <3> QED
      BY <2>4, <2>5
  <2> HIDE DEF t, n, r, k, p, X, u
  <2> QED
    BY <1>9, <2>1, <2>4, <2>6, <2>7
<1> QED
  BY <1>12, <1>13

----------------------------------------------------------------------------
(* The types *)

LEMMA SeqType ==
    ASSUME NEW S, NEW s \in Seq(S), NEW t \in Seq(S)
    PROVE  /\ s \o t \in Seq(S)
           /\ \A x \in S : Append(s, x) \in Seq(S)
           /\ s # <<>> => Head(s) \in S /\ Tail(s) \in Seq(S)
  OBVIOUS

LEMMA CodeType ==
    /\ \A k \in Key : Code[k] \in 28 .. 83
    /\ \A k \in Key : Make(k) \in Seq(0 .. 255) /\ Break(k) \in Seq(0 .. 255)
<1>1. Key = {"lshift", "rshift", "rctl", "lctl", "lalt", "ralt", "caps", "a", "enter",
             "dot", "del"}
  BY DEF Key, Code
<1>2. ASSUME NEW k \in Key
      PROVE  Code[k] \in 28 .. 83
  BY <1>1 DEF Code
<1>3. ASSUME NEW k \in Key
      PROVE  Make(k) \in Seq(0 .. 255) /\ Break(k) \in Seq(0 .. 255)
  <2>1. Code[k] \in 28 .. 83
    BY <1>2
  <2>2. Code[k] \in 0 .. 255 /\ Code[k] + 128 \in 0 .. 255 /\ 224 \in 0 .. 255
    BY <2>1
  <2>3. ASSUME NEW S, NEW x \in S, NEW y \in S
        PROVE  <<x>> \in Seq(S) /\ <<x, y>> \in Seq(S)
    OBVIOUS
  <2> DEFINE m == Code[k]
             b == Code[k] + 128
  <2>4. /\ Make(k) = IF Ext(k) THEN <<224, m>> ELSE <<m>>
        /\ Break(k) = IF Ext(k) THEN <<224, b>> ELSE <<b>>
    BY DEF Make, Break, E0
  <2>5. m \in 0 .. 255 /\ b \in 0 .. 255 /\ 224 \in 0 .. 255
    BY <2>2
  <2> HIDE DEF m, b
  <2>6. /\ <<m>> \in Seq(0 .. 255) /\ <<b>> \in Seq(0 .. 255)
        /\ <<224, m>> \in Seq(0 .. 255) /\ <<224, b>> \in Seq(0 .. 255)
    BY <2>3, <2>5
  <2> QED
    BY <2>4, <2>6
<1> QED
  BY <1>2, <1>3

LEMMA GetcType ==
    ASSUME NEW data \in 0 .. 255, NEW sh \in SUBSET Flag
    PROVE  getc(data, sh).shift \in SUBSET Flag /\ getc(data, sh).c \in Char \cup {"NO"}
<1>1. \A d : shiftcode(d) \in SUBSET Flag /\ togglecode(d) \in SUBSET Flag
  BY DEF shiftcode, togglecode, Flag
<1>2. \A s, d : charcode(s, d) \in Char \cup {"NO"}
  BY DEF charcode, ctlmap, shiftmap, normalmap, Char
<1>3. \A c \in Char \cup {"NO"} : swapcase(c) \in Char \cup {"NO"}
  BY DEF swapcase, Char
<1>4. CASE data = E0
  BY <1>4 DEF getc, Flag
<1>5. CASE data # E0 /\ data >= 128
  <2> DEFINE d == IF "E0ESC" \in sh THEN data ELSE data - 128
  <2>1. getc(data, sh) = [shift |-> sh \ (shiftcode(d) \cup {"E0ESC"}), c |-> "NO"]
    BY <1>5 DEF getc
  <2> QED
    BY <2>1
<1>6. CASE data # E0 /\ ~(data >= 128)
  <2> DEFINE d == IF "E0ESC" \in sh THEN data + 128 ELSE data
             s == SymDiff((sh \ {"E0ESC"}) \cup shiftcode(d), togglecode(d))
             c == charcode(s, d)
  <2>1. getc(data, sh) = [shift |-> s, c |-> IF "CAPSLOCK" \in s THEN swapcase(c) ELSE c]
    BY <1>6 DEF getc
  <2>2. s \in SUBSET Flag
    <3> HIDE DEF d
    <3> QED
      BY <1>1 DEF SymDiff
  <2>3. c \in Char \cup {"NO"}
    BY <1>2
  <2> HIDE DEF s, c
  <2> QED
    BY <1>3, <2>1, <2>2, <2>3
<1> QED
  BY <1>4, <1>5, <1>6

\* A keyboard that is read takes a byte; what follows of it is in the disjuncts.
LEMMA TypeStep ==
    ASSUME TypeOK, Next, time' \in TimeType
    PROVE  TypeOK'
<1> USE DEF TypeOK, TimeType
<1>1. ASSUME KeyboardRead PROVE TypeOK'
  <2> DEFINE g == getc(Head(kbd), shift)
  <2>1. Head(kbd) \in 0 .. 255 /\ Tail(kbd) \in Seq(0 .. 255)
    <3>1. kbd # <<>> /\ kbd \in Seq(0 .. 255)
      BY <1>1 DEF KeyboardRead
    <3> QED
      BY <3>1, SeqType
  <2>2. g.shift \in SUBSET Flag /\ g.c \in Char \cup {"NO"}
    <3>1. shift \in SUBSET Flag
      BY DEF Flag
    <3> QED
      BY <2>1, <3>1, GetcType
  <2> HIDE DEF g
  <2>3. /\ kbd' = Tail(kbd) /\ shift' = g.shift /\ rx' = rx /\ line' = line
        /\ pc' = pc \/ pc' = "reboot"
        /\ que' = que \/ (g.c # "NO" /\ que' = Append(que, g.c))
    BY <1>1 DEF KeyboardRead, queue, Q!Enqueue, Q!EnqueueFails, g
  <2>4. que' \in Seq(Char)
    <3>1. que \in Seq(Char)
      OBVIOUS
    <3>2. g.c # "NO" => Append(que, g.c) \in Seq(Char)
      BY <2>2, <3>1, SeqType
    <3> QED
      BY <2>3, <3>1, <3>2
  <2>5. shift' \subseteq {"SHIFT", "CTL", "ALT", "CAPSLOCK", "E0ESC"}
    BY <2>2, <2>3 DEF Flag
  <2> QED
    BY <2>1, <2>3, <2>4, <2>5
<1>2. ASSUME KeyboardInitEnd \/ NoSerial \/ Halt PROVE TypeOK'
  BY <1>2 DEF KeyboardInitEnd, NoSerial, Halt, keyboard, queue
<1>3. ASSUME NEW c \in Char \cup SerialByte, Append1(c)
      PROVE  line' \in Seq(Char \cup SerialByte) /\ pc' = "serial"
  BY <1>3 DEF Append1
<1>4. ASSUME ReadSerial PROVE TypeOK'
  <2>1. serial_getc(rx) \in Char \cup SerialByte
    BY <1>4 DEF ReadSerial, serial_getc, Char, SerialByte
  <2>2. line' \in Seq(Char \cup SerialByte) /\ pc' = "serial"
    BY <1>3, <1>4, <2>1 DEF ReadSerial
  <2> QED
    BY <1>4, <2>2 DEF ReadSerial, keyboard, queue
<1>5. ASSUME ReadQueue PROVE TypeOK'
  <2>1. que # <<>> /\ ret' = Head(que) /\ que' = Tail(que)
    BY <1>5 DEF ReadQueue, Q!Dequeue
  <2>2. ret' \in Char \cup SerialByte /\ que' \in Seq(Char)
    BY <2>1
  <2>3. line' \in Seq(Char \cup SerialByte) /\ pc' = "serial"
    <3> DEFINE c == ret'
    <3>1. c \in Char \cup SerialByte /\ Append1(c)
      BY <1>5, <2>2 DEF ReadQueue
    <3> HIDE DEF c
    <3> QED
      BY <1>3, <3>1
  <2> QED
    BY <1>5, <2>2, <2>3 DEF ReadQueue, keyboard
<1>6. ASSUME Timer PROVE TypeOK'
  BY <1>6 DEF Timer, TimerIrq, TimerIrqWrap, keyboard, queue
<1>7. ASSUME NEW k \in Key, Press(k) \/ Release(k) PROVE TypeOK'
  <2>1. Make(k) \in Seq(0 .. 255) /\ Break(k) \in Seq(0 .. 255)
    BY CodeType
  <2>2. kbd' = kbd \o Make(k) \/ kbd' = kbd \o Break(k)
    BY <1>7 DEF Press, Release
  <2>3. kbd' \in Seq(0 .. 255)
    <3>1. kbd \in Seq(0 .. 255)
      OBVIOUS
    <3>2. kbd \o Make(k) \in Seq(0 .. 255) /\ kbd \o Break(k) \in Seq(0 .. 255)
      BY <2>1, <3>1, SeqType
    <3> QED
      BY <2>2, <3>2
  <2> QED
    BY <1>7, <2>3 DEF Press, Release, queue
<1>8. ASSUME NEW b \in SerialByte, SerialArrive(b) PROVE TypeOK'
  BY <1>8 DEF SerialArrive, keyboard, queue
<1> QED
  BY <1>1, <1>2, <1>4, <1>5, <1>6, <1>7, <1>8 DEF Next, Reader, User

LEMMA ClockStep ==
    ASSUME TypeOK, ClockInv, Next
    PROVE  ClockInv'
<1>1. ASSUME time' = time, pc' = "timer_scan" => pc = "timer_scan",
             pc = "timer_scan" => pc' = "timer_scan"
      PROVE  ClockInv'
  BY <1>1 DEF ClockInv, Elapsed, TimeType
<1>2. CASE Reader
  <2>1. /\ time' = time
        /\ pc \in {"keyboard_init", "serial", "queue"}
        /\ pc' \in {"keyboard_init", "serial", "queue", "halt", "reboot"}
    BY <1>2 DEF Reader, KeyboardRead, KeyboardInitEnd, ReadSerial, NoSerial, ReadQueue, Halt,
                Append1
  <2> QED
    BY <1>1, <2>1
<1>3. CASE User
  BY <1>1, <1>3 DEF User, Press, Release, SerialArrive
<1>4. CASE TimerIrq
  <2>1. /\ pc \in {"serial", "queue", "halt"} /\ pc' # "timer_scan"
        /\ (left.clock => time' = Ticked /\ time'.ticks # 0) /\ (~left.clock => time' = time)
    BY <1>4 DEF TimerIrq
  <2>2. CASE ~left.clock
    BY <1>1, <2>1, <2>2
  <2>3. CASE left.clock
    <3>1. time' = Ticked /\ Ticked.ticks # 0
      BY <2>1, <2>3
    <3>2. /\ Ticked \in TimeType /\ Elapsed(Ticked) = 10 * Ticked.ticks
          /\ Ticked.msecs = 10 * (Ticked.ticks % TICK_NUM)
      BY <2>1, <3>1, TickedExact DEF ClockInv
    <3> HIDE DEF Ticked
    <3> QED
      BY <3>1, <3>2 DEF ClockInv, Elapsed, TimeType
  <2> QED
    BY <2>2, <2>3
<1>5. CASE TimerIrqWrap
  <2>1. pc \in {"serial", "queue", "halt"} /\ pc' = "timer_scan" /\ time' = Ticked
    BY <1>5 DEF TimerIrqWrap
  <2>2. Ticked \in TimeType
    BY <2>1, TickedExact DEF ClockInv
  <2> HIDE DEF Ticked
  <2> QED
    BY <2>1, <2>2 DEF ClockInv, TimeType
<1> QED
  BY <1>2, <1>3, <1>4, <1>5 DEF Next, Timer

(* The clock that timer_irq_handler keeps in two ways is that of the timer     *)
(* interrupts so far until ticks wraps around, and every variable of the       *)
(* console keeps its type: whatever the rate of the timer and the width of     *)
(* ticks, one being no multiple of the other included.                         *)
THEOREM ClockCorrect == Spec => []ClockExact
<1>1. Init => TypeOK /\ ClockInv
  <2> SUFFICES ASSUME Init PROVE TypeOK /\ ClockInv
    OBVIOUS
  <2>1. /\ SIXTY \in Nat \ {0} /\ TICK_NUM \in Nat \ {0} /\ U32 \in Nat \ {0}
        /\ MSECS \in Nat \ {0}
    BY TimeAssumption
  <2>2. 0 \in 0 .. SIXTY - 1 /\ 0 \in 0 .. MSECS - 1 /\ 0 \in 0 .. U32 - 1
    BY <2>1
  <2>3. time = [hours |-> 0, minutes |-> 0, seconds |-> 0, msecs |-> 0, ticks |-> 0]
    BY DEF Init
  <2>4. time \in TimeType
    BY <2>2, <2>3 DEF TimeType
  <2>5. 0 % TICK_NUM = 0
    BY <2>1
  <2>6. Elapsed(time) = 10 * time.ticks /\ time.msecs = 10 * (time.ticks % TICK_NUM)
    BY <2>1, <2>3, <2>5 DEF Elapsed
  <2> QED
    BY <2>4, <2>6 DEF Init, Q!Init, TypeOK, TimeType, ClockInv, Char, SerialByte
<1>2. TypeOK /\ ClockInv /\ [Next]_vars => (TypeOK /\ ClockInv)'
  <2> SUFFICES ASSUME TypeOK, ClockInv, [Next]_vars PROVE TypeOK' /\ ClockInv'
    OBVIOUS
  <2>1. CASE Next
    <3>1. ClockInv'
      BY <2>1, ClockStep
    <3>2. time' \in TimeType
      BY <3>1 DEF ClockInv, TimeType
    <3> QED
      BY <2>1, <3>1, <3>2, TypeStep
  <2>2. CASE UNCHANGED vars
    BY <2>2 DEF vars, keyboard, queue, TypeOK, ClockInv, Elapsed, TimeType
  <2> QED
    BY <2>1, <2>2
<1>3. TypeOK /\ ClockInv => ClockExact
  BY DEF ClockInv, ClockExact, time_ms, Elapsed
<1> QED
  BY <1>1, <1>2, <1>3, PTL DEF Spec

----------------------------------------------------------------------------
(* The keyboard.  Bytes that were not read yet stand between what the user    *)
(* did and what keyboard_device_getc knows of it, so the invariant speaks of   *)
(* the flags and the text there will be once they are read: the end of a run   *)
(* of getc over the bytes of the controller.  A run is a sequence of states    *)
(* given as two functions, S of the flags and W of the text so far.            *)

Out == Char \cup {"reboot"}

\* What keyboard_read_all_buffer makes of the byte b: nothing, a reboot, a character
Took(b, sh) ==
    LET g == getc(b, sh)
    IN  IF g.c = "NO" THEN <<>>
        ELSE IF g.c = "DEL" /\ {"CTL", "ALT"} \subseteq g.shift THEN <<"reboot">>
        ELSE <<g.c>>

Starts(u, w) == \A i \in 1 .. Len(u) : i \in 1 .. Len(w) /\ w[i] = u[i]

Run(S, W, bytes) ==
    /\ bytes \in Seq(0 .. 255)
    /\ \A i \in 0 .. Len(bytes) : S[i] \in SUBSET Flag /\ W[i] \in Seq(Out)
    /\ \A i \in 1 .. Len(bytes) :
        /\ S[i] = getc(bytes[i], S[i - 1]).shift
        /\ W[i] = W[i - 1] \o Took(bytes[i], S[i - 1])
    /\ \A i, j \in 0 .. Len(bytes) : i <= j => Starts(W[i], W[j])

Leads(sh0, w0, bytes, sh, w) ==
    \E S, W : /\ Run(S, W, bytes)
              /\ S[0] = sh0 /\ W[0] = w0
              /\ S[Len(bytes)] = sh /\ W[Len(bytes)] = w

LEMMA TookType ==
    ASSUME NEW b \in 0 .. 255, NEW sh \in SUBSET Flag
    PROVE  Took(b, sh) \in Seq(Out)
<1>1. getc(b, sh).c \in Char \cup {"NO"}
  BY GetcType
<1>2. \A x \in Out : <<x>> \in Seq(Out)
  OBVIOUS
<1>3. <<>> \in Seq(Out)
  OBVIOUS
<1>4. Took(b, sh) = <<>> \/ \E x \in Out : Took(b, sh) = <<x>>
  BY <1>1 DEF Out, Took
<1> QED
  BY <1>2, <1>3, <1>4

LEMMA StartsAppend ==
    ASSUME NEW u \in Seq(Out), NEW w \in Seq(Out), NEW x \in Seq(Out), Starts(u, w)
    PROVE  Starts(u, w \o x) /\ Starts(u, u)
<1>1. /\ Len(w) \in Nat /\ Len(x) \in Nat /\ Len(w \o x) = Len(w) + Len(x)
      /\ \A i \in 1 .. Len(w) : (w \o x)[i] = w[i]
  BY ConcatProperties
<1>2. \A i \in 1 .. Len(w) : i \in 1 .. Len(w \o x)
  BY <1>1
<1> QED
  BY <1>1, <1>2 DEF Starts

LEMMA LeadsType ==
    ASSUME NEW sh0, NEW w0, NEW B, NEW sh, NEW w, Leads(sh0, w0, B, sh, w)
    PROVE  /\ B \in Seq(0 .. 255) /\ sh0 \in SUBSET Flag /\ w0 \in Seq(Out)
           /\ sh \in SUBSET Flag /\ w \in Seq(Out) /\ Starts(w0, w)
<1>1. PICK S, W : /\ Run(S, W, B) /\ S[0] = sh0 /\ W[0] = w0
                  /\ S[Len(B)] = sh /\ W[Len(B)] = w
  BY DEF Leads
<1>2. B \in Seq(0 .. 255)
  BY <1>1 DEF Run
<1>3. 0 \in 0 .. Len(B) /\ Len(B) \in 0 .. Len(B) /\ 0 <= Len(B)
  BY <1>2
<1> QED
  BY <1>1, <1>2, <1>3 DEF Run

LEMMA LeadsNone ==
    ASSUME NEW sh0 \in SUBSET Flag, NEW w0 \in Seq(Out)
    PROVE  /\ Leads(sh0, w0, <<>>, sh0, w0)
           /\ \A sh, w : Leads(sh0, w0, <<>>, sh, w) => sh = sh0 /\ w = w0
<1>1. Len(<<>>) = 0 /\ <<>> \in Seq(0 .. 255)
  OBVIOUS
<1>2. Starts(w0, w0)
  BY DEF Starts
<1> DEFINE S == [i \in {0} |-> sh0]
           W == [i \in {0} |-> w0]
<1>3. S[0] = sh0 /\ W[0] = w0
  OBVIOUS
<1> HIDE DEF S, W
<1>4. Run(S, W, <<>>)
  <2>1. \A i \in 0 .. Len(<<>>) : i = 0
    BY <1>1
  <2>2. \A i \in 1 .. Len(<<>>) : FALSE
    BY <1>1
  <2> QED
    BY <1>1, <1>2, <1>3, <2>1, <2>2 DEF Run
<1>5. Leads(sh0, w0, <<>>, sh0, w0)
  BY <1>1, <1>3, <1>4 DEF Leads
<1>6. ASSUME NEW sh, NEW w, Leads(sh0, w0, <<>>, sh, w)
      PROVE  sh = sh0 /\ w = w0
  BY <1>1, <1>6 DEF Leads
<1> QED
  BY <1>5, <1>6

LEMMA LeadsAppend ==
    ASSUME NEW sh0, NEW w0, NEW B, NEW sh, NEW w, Leads(sh0, w0, B, sh, w), NEW b \in 0 .. 255
    PROVE  Leads(sh0, w0, Append(B, b), getc(b, sh).shift, w \o Took(b, sh))
<1>1. PICK S, W : /\ Run(S, W, B) /\ S[0] = sh0 /\ W[0] = w0
                  /\ S[Len(B)] = sh /\ W[Len(B)] = w
  BY DEF Leads
<1>2. B \in Seq(0 .. 255) /\ sh \in SUBSET Flag /\ w \in Seq(Out)
  BY LeadsType
<1> DEFINE n == Len(B)
           C == Append(B, b)
           sh2 == getc(b, sh).shift
           w2 == w \o Took(b, sh)
           S2 == [i \in 0 .. n + 1 |-> IF i = n + 1 THEN sh2 ELSE S[i]]
           W2 == [i \in 0 .. n + 1 |-> IF i = n + 1 THEN w2 ELSE W[i]]
<1>3. n \in Nat /\ C \in Seq(0 .. 255) /\ Len(C) = n + 1 /\ C[n + 1] = b
  BY <1>2
<1>4. \A i \in 1 .. n : C[i] = B[i]
  BY <1>2
<1>5. sh2 \in SUBSET Flag
  BY <1>2, GetcType
<1>6. Took(b, sh) \in Seq(Out)
  BY <1>2, TookType
<1>7. w2 \in Seq(Out)
  <2> DEFINE x == Took(b, sh)
  <2>1. x \in Seq(Out)
    BY <1>6
  <2> HIDE DEF x
  <2>2. w \o x \in Seq(Out)
    BY <1>2, <2>1, SeqType
  <2> QED
    BY <2>2 DEF x
<1>8. /\ S2[n + 1] = sh2 /\ W2[n + 1] = w2
      /\ \A i \in 0 .. n : S2[i] = S[i] /\ W2[i] = W[i]
  <2> HIDE DEF n, sh2, w2
  <2> QED
    BY <1>3
<1> HIDE DEF S2, W2, n, C
<1>9. \A i \in 0 .. n + 1 : S2[i] \in SUBSET Flag /\ W2[i] \in Seq(Out)
  <2> SUFFICES ASSUME NEW i \in 0 .. n + 1
               PROVE  S2[i] \in SUBSET Flag /\ W2[i] \in Seq(Out)
    OBVIOUS
  <2>1. CASE i = n + 1
    <3> HIDE DEF sh2, w2
    <3> QED
      BY <1>5, <1>7, <1>8, <2>1
  <2>2. CASE i \in 0 .. n
    <3> HIDE DEF sh2, w2
    <3> QED
      BY <1>1, <1>8, <2>2 DEF Run, n
  <2> QED
    BY <1>3, <2>1, <2>2
<1>10. \A i \in 1 .. n + 1 : /\ S2[i] = getc(C[i], S2[i - 1]).shift
                             /\ W2[i] = W2[i - 1] \o Took(C[i], S2[i - 1])
  <2> SUFFICES ASSUME NEW i \in 1 .. n + 1
               PROVE  /\ S2[i] = getc(C[i], S2[i - 1]).shift
                      /\ W2[i] = W2[i - 1] \o Took(C[i], S2[i - 1])
    OBVIOUS
  <2>1. CASE i = n + 1
    <3>1. i - 1 = n /\ n \in 0 .. n
      BY <1>3, <2>1
    <3>2. S2[i - 1] = sh /\ W2[i - 1] = w /\ C[i] = b
      BY <1>1, <1>3, <1>8, <2>1, <3>1 DEF n
    <3> QED
      BY <1>8, <2>1, <3>2
  <2>2. CASE i \in 1 .. n
    <3>1. i \in 0 .. n /\ i - 1 \in 0 .. n
      BY <1>3, <2>2
    <3>2. S2[i] = S[i] /\ S2[i - 1] = S[i - 1] /\ W2[i] = W[i] /\ W2[i - 1] = W[i - 1]
      BY <1>8, <3>1
    <3>3. C[i] = B[i]
      BY <1>4, <2>2
    <3>4. /\ S[i] = getc(B[i], S[i - 1]).shift
          /\ W[i] = W[i - 1] \o Took(B[i], S[i - 1])
      BY <1>1, <2>2 DEF Run, n
    <3> QED
      BY <3>2, <3>3, <3>4
  <2>3. i = n + 1 \/ i \in 1 .. n
    BY <1>3
  <2> QED
    BY <2>1, <2>2, <2>3
<1>11. \A i, j \in 0 .. n + 1 : i <= j => Starts(W2[i], W2[j])
  <2> SUFFICES ASSUME NEW i \in 0 .. n + 1, NEW j \in 0 .. n + 1, i <= j
               PROVE  Starts(W2[i], W2[j])
    OBVIOUS
  <2>1. CASE j \in 0 .. n
    <3>1. i \in 0 .. n
      BY <1>3, <2>1
    <3> QED
      BY <1>1, <1>8, <2>1, <3>1 DEF Run, n
  <2>2. CASE j = n + 1 /\ i = n + 1
    BY <2>2 DEF Starts
  <2>3. CASE j = n + 1 /\ i \in 0 .. n
    <3>1. n \in 0 .. n /\ i <= n /\ n = Len(B)
      BY <1>3, <2>3 DEF n
    <3>2. Starts(W[i], w) /\ W[i] \in Seq(Out)
      BY <1>1, <2>3, <3>1 DEF Run
    <3>3. Starts(W[i], w2)
      BY <1>2, <1>6, <3>2, StartsAppend
    <3> HIDE DEF w2
    <3> QED
      BY <1>8, <2>3, <3>3
  <2> QED
    BY <1>3, <2>1, <2>2, <2>3
<1>12. Run(S2, W2, C)
  BY <1>3, <1>9, <1>10, <1>11 DEF Run
<1>13. S2[0] = sh0 /\ W2[0] = w0
  <2>1. 0 \in 0 .. n
    BY <1>3
  <2> QED
    BY <1>1, <1>8, <2>1
<1>14. Leads(sh0, w0, C, sh2, w2)
  <2> HIDE DEF sh2, w2
  <2> QED
    BY <1>3, <1>8, <1>12, <1>13 DEF Leads
<1> QED
  BY <1>14 DEF C

LEMMA LeadsTail ==
    ASSUME NEW sh0, NEW w0, NEW B, NEW sh, NEW w, Leads(sh0, w0, B, sh, w), B # <<>>
    PROVE  Leads(getc(Head(B), sh0).shift, w0 \o Took(Head(B), sh0), Tail(B), sh, w)
<1>1. PICK S, W : /\ Run(S, W, B) /\ S[0] = sh0 /\ W[0] = w0
                  /\ S[Len(B)] = sh /\ W[Len(B)] = w
  BY DEF Leads
<1>2. B \in Seq(0 .. 255)
  BY LeadsType
<1> DEFINE n == Len(B) - 1
           C == Tail(B)
           S2 == [i \in 0 .. n |-> S[i + 1]]
           W2 == [i \in 0 .. n |-> W[i + 1]]
<1>3. /\ n \in Nat /\ Len(B) = n + 1 /\ C \in Seq(0 .. 255) /\ Len(C) = n /\ Head(B) = B[1]
      /\ \A i \in 1 .. n : C[i] = B[i + 1]
  BY <1>2
<1>4. \A i \in 0 .. n : S2[i] = S[i + 1] /\ W2[i] = W[i + 1]
  OBVIOUS
<1> HIDE DEF S2, W2, n, C
<1>5. \A i \in 0 .. n : i + 1 \in 0 .. n + 1 /\ i + 1 \in 1 .. n + 1
  BY <1>3
<1>6. \A i \in 0 .. n : S2[i] \in SUBSET Flag /\ W2[i] \in Seq(Out)
  BY <1>1, <1>3, <1>4, <1>5 DEF Run
<1>7. \A i \in 1 .. n : /\ S2[i] = getc(C[i], S2[i - 1]).shift
                        /\ W2[i] = W2[i - 1] \o Took(C[i], S2[i - 1])
  <2> SUFFICES ASSUME NEW i \in 1 .. n
               PROVE  /\ S2[i] = getc(C[i], S2[i - 1]).shift
                      /\ W2[i] = W2[i - 1] \o Took(C[i], S2[i - 1])
    OBVIOUS
  <2>1. i \in 0 .. n /\ i - 1 \in 0 .. n /\ (i - 1) + 1 = i /\ (i + 1) - 1 = i /\ i + 1 \in 1 .. n + 1
    BY <1>3
  <2>2. S2[i] = S[i + 1] /\ W2[i] = W[i + 1] /\ S2[i - 1] = S[i] /\ W2[i - 1] = W[i]
    BY <1>4, <2>1
  <2>3. /\ S[i + 1] = getc(B[i + 1], S[i]).shift
        /\ W[i + 1] = W[i] \o Took(B[i + 1], S[i])
    BY <1>1, <1>3, <2>1 DEF Run
  <2>4. C[i] = B[i + 1]
    BY <1>3
  <2> QED
    BY <2>2, <2>3, <2>4
<1>8. \A i, j \in 0 .. n : i <= j => Starts(W2[i], W2[j])
  <2> SUFFICES ASSUME NEW i \in 0 .. n, NEW j \in 0 .. n, i <= j PROVE Starts(W2[i], W2[j])
    OBVIOUS
  <2>1. i + 1 \in 0 .. n + 1 /\ j + 1 \in 0 .. n + 1 /\ i + 1 <= j + 1
    BY <1>3
  <2>2. Starts(W[i + 1], W[j + 1])
    BY <1>1, <1>3, <2>1 DEF Run
  <2> QED
    BY <1>4, <2>2
<1>9. Run(S2, W2, C)
  BY <1>3, <1>6, <1>7, <1>8 DEF Run
<1>10. /\ S2[0] = getc(Head(B), sh0).shift /\ W2[0] = w0 \o Took(Head(B), sh0)
       /\ S2[Len(C)] = sh /\ W2[Len(C)] = w
  <2>1. 0 \in 0 .. n /\ n \in 0 .. n /\ 1 \in 1 .. n + 1 /\ 1 - 1 = 0 /\ 0 + 1 = 1
    BY <1>3
  <2>2. S2[0] = S[1] /\ W2[0] = W[1] /\ S2[n] = S[n + 1] /\ W2[n] = W[n + 1]
    BY <1>4, <2>1
  <2>3. S[1] = getc(B[1], S[0]).shift /\ W[1] = W[0] \o Took(B[1], S[0])
    BY <1>1, <1>3, <2>1 DEF Run
  <2> QED
    BY <1>1, <1>3, <2>2, <2>3
<1> QED
  BY <1>9, <1>10 DEF Leads, C

\* The index of a key into the maps of keyboard.c, its own flag, the flags after it
\* is hit, and what it writes with them
Full(k) == IF Ext(k) THEN Code[k] + 128 ELSE Code[k]
Escaped(k, sh) == IF Ext(k) THEN sh \cup {"E0ESC"} ELSE sh
Own(k) == {Modifier(k)} \ {"none"}
Toggle(k) == IF k = "caps" THEN {"CAPSLOCK"} ELSE {}
Pressed(k, sh) == SymDiff(sh \cup Own(k), Toggle(k))
Written(k, s) == IF "CAPSLOCK" \in s THEN swapcase(charcode(s, Full(k))) ELSE charcode(s, Full(k))
Typed(k, s) ==
    IF Written(k, s) = "NO" THEN <<>>
    ELSE IF Written(k, s) = "DEL" /\ {"CTL", "ALT"} \subseteq s THEN <<"reboot">>
    ELSE <<Written(k, s)>>

LEMMA KeyTable ==
    ASSUME NEW k \in Key
    PROVE  \/ k = "lshift" /\ Full(k) = 42 /\ Modifier(k) = "SHIFT"
           \/ k = "rshift" /\ Full(k) = 54 /\ Modifier(k) = "SHIFT"
           \/ k = "rctl" /\ Full(k) = 157 /\ Modifier(k) = "CTL"
           \/ k = "lctl" /\ Full(k) = 29 /\ Modifier(k) = "CTL"
           \/ k = "lalt" /\ Full(k) = 56 /\ Modifier(k) = "ALT"
           \/ k = "ralt" /\ Full(k) = 184 /\ Modifier(k) = "ALT"
           \/ k = "caps" /\ Full(k) = 58 /\ Modifier(k) = "none"
           \/ k = "a" /\ Full(k) = 30 /\ Modifier(k) = "none"
           \/ k = "enter" /\ Full(k) = 28 /\ Modifier(k) = "none"
           \/ k = "dot" /\ Full(k) = 83 /\ Modifier(k) = "none"
           \/ k = "del" /\ Full(k) = 211 /\ Modifier(k) = "none"
<1>1. Key = {"lshift", "rshift", "rctl", "lctl", "lalt", "ralt", "caps", "a", "enter",
             "dot", "del"}
  BY DEF Key, Code
<1>2. /\ Code["lshift"] = 42 /\ Code["rshift"] = 54 /\ Code["rctl"] = 29 /\ Code["lctl"] = 29
      /\ Code["lalt"] = 56 /\ Code["ralt"] = 56 /\ Code["caps"] = 58 /\ Code["a"] = 30
      /\ Code["enter"] = 28 /\ Code["dot"] = 83 /\ Code["del"] = 83
  BY DEF Code
<1>3. /\ Ext("rctl") /\ Ext("ralt") /\ Ext("del")
      /\ \A j \in Key : Ext(j) => j \in {"rctl", "ralt", "del"}
  BY DEF Ext
<1>4. /\ \A j \in {"lshift", "rshift"} : Modifier(j) = "SHIFT"
      /\ \A j \in {"lctl", "rctl"} : Modifier(j) = "CTL"
      /\ \A j \in {"lalt", "ralt"} : Modifier(j) = "ALT"
      /\ \A j \in {"caps", "a", "enter", "dot", "del"} : Modifier(j) = "none"
  BY DEF Modifier
<1>5. CASE k \in {"rctl", "ralt", "del"}
  BY <1>2, <1>3, <1>4, <1>5 DEF Full
<1>6. CASE k \notin {"rctl", "ralt", "del"}
  <2>1. Full(k) = Code[k]
    BY <1>3, <1>6 DEF Full
  <2> QED
    BY <1>1, <1>2, <1>4, <1>6, <2>1
<1> QED
  BY <1>5, <1>6

LEMMA KeyFlags ==
    ASSUME NEW k \in Key
    PROVE  /\ shiftcode(Full(k)) = Own(k) /\ togglecode(Full(k)) = Toggle(k)
           /\ Own(k) \in SUBSET {"SHIFT", "CTL", "ALT"}
           /\ Code[k] \in 28 .. 83 /\ Full(k) \in 28 .. 211
<1>1. Code[k] \in 28 .. 83
  BY CodeType
<1>2. Full(k) \in 28 .. 211
  BY <1>1 DEF Full
<1>3. shiftcode(Full(k)) = Own(k) /\ Own(k) \in SUBSET {"SHIFT", "CTL", "ALT"}
  BY KeyTable DEF Own, shiftcode
<1>4. togglecode(Full(k)) = Toggle(k)
  BY KeyTable DEF Toggle, togglecode
<1> QED
  BY <1>1, <1>2, <1>3, <1>4

LEMMA GetcKey ==
    ASSUME NEW k \in Key, NEW sh \in SUBSET Flag, "E0ESC" \notin sh
    PROVE  /\ getc(Code[k], Escaped(k, sh)).shift = Pressed(k, sh)
           /\ Took(Code[k], Escaped(k, sh)) = Typed(k, Pressed(k, sh))
           /\ getc(Code[k] + 128, Escaped(k, sh)).shift = sh \ Own(k)
           /\ Took(Code[k] + 128, Escaped(k, sh)) = <<>>
           /\ getc(E0, sh).shift = sh \cup {"E0ESC"} /\ Took(E0, sh) = <<>>
<1>1. /\ shiftcode(Full(k)) = Own(k) /\ togglecode(Full(k)) = Toggle(k)
      /\ Own(k) \in SUBSET {"SHIFT", "CTL", "ALT"} /\ Code[k] \in 28 .. 83
  BY KeyFlags
<1> DEFINE esc == Escaped(k, sh)
           c == Code[k]
           f == Full(k)
<1>2. c \in 28 .. 83 /\ f = IF "E0ESC" \in esc THEN c + 128 ELSE c
  BY <1>1 DEF Full, Escaped
<1>3. esc \ {"E0ESC"} = sh
  BY DEF Escaped
<1>4. shiftcode(f) = Own(k) /\ togglecode(f) = Toggle(k)
  BY <1>1
<1> HIDE DEF esc, c, f
<1>5. getc(c, esc) = [shift |-> Pressed(k, sh), c |-> Written(k, Pressed(k, sh))]
  <2>1. c # E0 /\ ~(c >= 128)
    BY <1>2 DEF E0
  <2>2. SymDiff((esc \ {"E0ESC"}) \cup shiftcode(f), togglecode(f)) = Pressed(k, sh)
    BY <1>3, <1>4 DEF Pressed
  <2> DEFINE s == Pressed(k, sh)
             w == charcode(s, f)
  <2>3. getc(c, esc) = [shift |-> s, c |-> IF "CAPSLOCK" \in s THEN swapcase(w) ELSE w]
    <3> HIDE DEF s
    <3> QED
      BY <1>2, <2>1, <2>2 DEF getc, s
  <2> QED
    BY <2>3 DEF Written, f
<1>6. getc(c + 128, esc) = [shift |-> sh \ Own(k), c |-> "NO"]
  <2>1. c + 128 # E0 /\ c + 128 >= 128 /\ (c + 128) - 128 = c
    BY <1>2 DEF E0
  <2>2. getc(c + 128, esc) = [shift |-> esc \ (shiftcode(f) \cup {"E0ESC"}), c |-> "NO"]
    BY <1>2, <2>1 DEF getc
  <2>3. esc \ (shiftcode(f) \cup {"E0ESC"}) = sh \ Own(k)
    BY <1>3, <1>4
  <2> QED
    BY <2>2, <2>3
<1>7. getc(E0, sh) = [shift |-> sh \cup {"E0ESC"}, c |-> "NO"]
  BY DEF getc
<1>8. Took(c, esc) = Typed(k, Pressed(k, sh))
  BY <1>5 DEF Took, Typed
<1>9. Took(c + 128, esc) = <<>> /\ Took(E0, sh) = <<>>
  BY <1>6, <1>7 DEF Took
<1>10. /\ getc(c, esc).shift = Pressed(k, sh) /\ getc(c + 128, esc).shift = sh \ Own(k)
       /\ getc(E0, sh).shift = sh \cup {"E0ESC"}
  BY <1>5, <1>6, <1>7
<1> QED
  BY <1>8, <1>9, <1>10 DEF c, esc

\* The bytes of a key that is hit or released, at the end of those not read yet
LEMMA LeadsKey ==
    ASSUME NEW sh0, NEW w0, NEW B, NEW sh, NEW w, Leads(sh0, w0, B, sh, w),
           "E0ESC" \notin sh, NEW k \in Key
    PROVE  /\ Leads(sh0, w0, B \o Make(k), Pressed(k, sh), w \o Typed(k, Pressed(k, sh)))
           /\ Leads(sh0, w0, B \o Break(k), sh \ Own(k), w)
<1>1. B \in Seq(0 .. 255) /\ sh \in SUBSET Flag /\ w \in Seq(Out)
  BY LeadsType
<1> DEFINE esc == Escaped(k, sh)
           B1 == IF Ext(k) THEN Append(B, E0) ELSE B
           c == Code[k]
           b == Code[k] + 128
<1>2. c \in 0 .. 255 /\ b \in 0 .. 255 /\ E0 \in 0 .. 255
  <2>1. Code[k] \in 28 .. 83
    BY KeyFlags
  <2> QED
    BY <2>1 DEF E0
<1>3. /\ getc(c, esc).shift = Pressed(k, sh) /\ Took(c, esc) = Typed(k, Pressed(k, sh))
      /\ getc(b, esc).shift = sh \ Own(k) /\ Took(b, esc) = <<>>
      /\ getc(E0, sh).shift = sh \cup {"E0ESC"} /\ Took(E0, sh) = <<>>
  BY <1>1, GetcKey
<1>4. w \o <<>> = w
  BY <1>1
<1>5. Leads(sh0, w0, B1, esc, w)
  <2>1. CASE Ext(k)
    <3>1. Leads(sh0, w0, Append(B, E0), getc(E0, sh).shift, w \o Took(E0, sh))
      BY <1>2, LeadsAppend
    <3>2. Leads(sh0, w0, Append(B, E0), sh \cup {"E0ESC"}, w)
      BY <1>3, <1>4, <3>1
    <3> QED
      BY <2>1, <3>2 DEF Escaped
  <2>2. CASE ~Ext(k)
    BY <2>2 DEF Escaped
  <2> QED
    BY <2>1, <2>2
<1>6. B \o Make(k) = Append(B1, c) /\ B \o Break(k) = Append(B1, b)
  <2>1. /\ Make(k) = IF Ext(k) THEN <<E0, c>> ELSE <<c>>
        /\ Break(k) = IF Ext(k) THEN <<E0, b>> ELSE <<b>>
    BY DEF Make, Break
  <2>2. ASSUME NEW e \in 0 .. 255, NEW d \in 0 .. 255
        PROVE  B \o <<d>> = Append(B, d) /\ B \o <<e, d>> = Append(Append(B, e), d)
    BY <1>1
  <2> HIDE DEF c, b
  <2>3. /\ B \o <<c>> = Append(B, c) /\ B \o <<b>> = Append(B, b)
        /\ B \o <<E0, c>> = Append(Append(B, E0), c) /\ B \o <<E0, b>> = Append(Append(B, E0), b)
    BY <1>2, <2>2
  <2> QED
    BY <2>1, <2>3
<1> HIDE DEF esc, B1, c, b
<1>7. Leads(sh0, w0, Append(B1, c), getc(c, esc).shift, w \o Took(c, esc))
  BY <1>2, <1>5, LeadsAppend
<1>8. Leads(sh0, w0, Append(B1, b), getc(b, esc).shift, w \o Took(b, esc))
  BY <1>2, <1>5, LeadsAppend
<1> QED
  BY <1>3, <1>4, <1>6, <1>7, <1>8

\* With the flags of the keys that are down, a key writes what its user means.
LEMMA TypedIsMeant ==
    ASSUME NEW k \in Key, NEW h, NEW cl \in BOOLEAN, NEW s,
           s \ {"CAPSLOCK"} = Modifiers(h), ("CAPSLOCK" \in s) = cl
    PROVE  Typed(k, s) = Meant(k, h, cl)
<1> DEFINE M == Modifiers(h)
<1>1. /\ "CTL" \in s <=> "CTL" \in M
      /\ "SHIFT" \in s <=> "SHIFT" \in M
      /\ "ALT" \in s <=> "ALT" \in M
      /\ "CAPSLOCK" \in s <=> cl
  OBVIOUS
<1> HIDE DEF M
<1>2. ASSUME k \notin {"a", "enter", "dot", "del"}
      PROVE  Typed(k, s) = <<>> /\ Meant(k, h, cl) = <<>>
  <2>1. Full(k) \in {42, 54, 157, 29, 56, 184, 58}
    BY <1>2, KeyTable
  <2>2. charcode(s, Full(k)) = "NO"
    BY <2>1 DEF charcode, ctlmap, shiftmap, normalmap
  <2>3. Written(k, s) = "NO"
    BY <2>2 DEF Written, swapcase
  <2> QED
    BY <1>2, <2>3 DEF Typed, Meant
<1>3. ASSUME k = "a"
      PROVE  Typed(k, s) = Meant(k, h, cl)
  <2>1. Full(k) = 30
    BY <1>3, KeyTable
  <2>2. charcode(s, 30) = IF "CTL" \in s THEN "^A" ELSE IF "SHIFT" \in s THEN "A" ELSE "a"
    BY DEF charcode, ctlmap, shiftmap, normalmap
  <2> DEFINE x == IF "CTL" \in M THEN "^A" ELSE IF ("SHIFT" \in M) # cl THEN "A" ELSE "a"
  <2>3. Written(k, s) = x
    BY <1>1, <2>1, <2>2 DEF Written, swapcase
  <2>4. Typed(k, s) = <<x>>
    BY <2>3 DEF Typed
  <2> QED
    BY <1>3, <2>4 DEF Meant, M
<1>4. ASSUME k = "enter"
      PROVE  Typed(k, s) = Meant(k, h, cl)
  <2>1. Full(k) = 28
    BY <1>4, KeyTable
  <2>2. charcode(s, 28) = IF "CTL" \in s THEN "\r" ELSE "\n"
    BY DEF charcode, ctlmap, shiftmap, normalmap
  <2> DEFINE x == IF "CTL" \in M THEN "\r" ELSE "\n"
  <2>3. Written(k, s) = x
    BY <1>1, <2>1, <2>2 DEF Written, swapcase
  <2>4. Typed(k, s) = <<x>>
    BY <2>3 DEF Typed
  <2> QED
    BY <1>4, <2>4 DEF Meant, M
<1>5. ASSUME k = "dot"
      PROVE  Typed(k, s) = Meant(k, h, cl)
  <2>1. Full(k) = 83
    BY <1>5, KeyTable
  <2>2. charcode(s, 83) = IF "CTL" \in s THEN "NO" ELSE "."
    BY DEF charcode, ctlmap, shiftmap, normalmap
  <2>3. Written(k, s) = IF "CTL" \in M THEN "NO" ELSE "."
    BY <1>1, <2>1, <2>2 DEF Written, swapcase
  <2>4. Typed(k, s) = IF "CTL" \in M THEN <<>> ELSE <<".">>
    BY <2>3 DEF Typed
  <2> QED
    BY <1>5, <2>4 DEF Meant, M
<1>6. ASSUME k = "del"
      PROVE  Typed(k, s) = Meant(k, h, cl)
  <2>1. Full(k) = 211
    BY <1>6, KeyTable
  <2>2. charcode(s, 211) = "DEL"
    BY DEF charcode, ctlmap, shiftmap, normalmap
  <2>3. Written(k, s) = "DEL"
    BY <2>1, <2>2 DEF Written, swapcase
  <2>4. Typed(k, s) = IF {"CTL", "ALT"} \subseteq M THEN <<"reboot">> ELSE <<"DEL">>
    BY <1>1, <2>3 DEF Typed
  <2> QED
    BY <1>6, <2>4 DEF Meant, M
<1> QED
  BY <1>2, <1>3, <1>4, <1>5, <1>6

----------------------------------------------------------------------------
(* The inductive invariant of the input: wherever the reading of the bytes    *)
(* stands, it will end with the flags of the keys that are down and the text   *)
(* the user meant.                                                             *)

UserType ==
    /\ held \in SUBSET Key /\ caps \in BOOLEAN
    /\ twice \in BOOLEAN /\ repeated \in BOOLEAN /\ dropped \in BOOLEAN
    /\ wanted \in Seq(Out) /\ got \in Seq(Char)

OnceHeld ==
    ~twice => \A i, j \in held : i # j /\ Modifier(i) # "none" => Modifier(i) # Modifier(j)

Final(sh) ==
    /\ "E0ESC" \notin sh
    /\ (sh \ {"CAPSLOCK"}) \subseteq Modifiers(held)
    /\ ~twice => sh \ {"CAPSLOCK"} = Modifiers(held)
    /\ ~repeated => ("CAPSLOCK" \in sh) = caps

Meets(sh, u, v) ==
    /\ Leads(shift, u, kbd, sh, v)
    /\ Final(sh)
    /\ ~twice /\ ~repeated /\ ~dropped => u = got \o que /\ v = wanted

Rebooted ==
    pc = "reboot" /\ ~twice /\ ~repeated /\ ~dropped => \E i \in DOMAIN wanted : wanted[i] = "reboot"

InputInv ==
    /\ UserType /\ OnceHeld /\ Rebooted
    /\ pc # "reboot" => \E sh, u, v : Meets(sh, u, v)

LEMMA ModifiersAre ==
    ASSUME NEW h \in SUBSET Key, NEW k \in Key
    PROVE  /\ Modifiers(h \cup {k}) = Modifiers(h) \cup Own(k)
           /\ Modifiers(h) \ Own(k) \subseteq Modifiers(h \ {k})
           /\ (\A i, j \in h : i # j /\ Modifier(i) # "none" => Modifier(i) # Modifier(j)) /\ k \in h
                => Modifiers(h \ {k}) = Modifiers(h) \ Own(k)
  BY DEF Modifiers, Own

LEMMA InputPress ==
    ASSUME InputInv, NEW k \in Key, Press(k)
    PROVE  InputInv'
<1>1. /\ pc = "keyboard_init" /\ pc' = pc /\ held' = held \cup {k}
      /\ caps' = (caps # (k = "caps" /\ k \notin held))
      /\ repeated' = (repeated \/ (k = "caps" /\ k \in held))
      /\ wanted' = wanted \o Meant(k, held', caps')
      /\ twice' = (twice \/ \E j \in held \ {k} : Modifier(j) # "none" /\ Modifier(j) = Modifier(k))
      /\ kbd' = kbd \o Make(k) /\ shift' = shift /\ que' = que /\ got' = got /\ dropped' = dropped
  BY DEF Press, queue
<1>2. PICK sh, u, v : Meets(sh, u, v)
  BY <1>1 DEF InputInv
<1> DEFINE s == Pressed(k, sh)
<1>3. /\ sh \in SUBSET Flag /\ v \in Seq(Out) /\ "E0ESC" \notin sh
      /\ Own(k) \in SUBSET {"SHIFT", "CTL", "ALT"}
  BY <1>2, LeadsType, KeyFlags DEF Meets, Final
<1>4. Leads(shift, u, kbd \o Make(k), s, v \o Typed(k, s))
  BY <1>2, LeadsKey DEF Meets, Final
<1>5. Modifiers(held') = Modifiers(held) \cup Own(k)
  BY <1>1, ModifiersAre DEF InputInv, UserType
<1>6. /\ s \ {"CAPSLOCK"} = (sh \ {"CAPSLOCK"}) \cup Own(k)
      /\ "E0ESC" \notin s
      /\ ("CAPSLOCK" \in s) <=> (("CAPSLOCK" \in sh) # (k = "caps"))
  BY <1>3 DEF Pressed, SymDiff, Toggle, Flag
<1>7. caps' \in BOOLEAN /\ twice' \in BOOLEAN /\ repeated' \in BOOLEAN
  BY <1>1 DEF InputInv, UserType
<1>9. (~twice' => ~twice) /\ (~repeated' => ~repeated)
  BY <1>1 DEF InputInv, UserType
<1>8. ~repeated' => ("CAPSLOCK" \in s) = caps'
  <2> SUFFICES ASSUME ~repeated' PROVE ("CAPSLOCK" \in s) = caps'
    OBVIOUS
  <2>1. caps' = (caps # (k = "caps"))
    BY <1>1
  <2> QED
    BY <1>2, <1>6, <1>7, <1>9, <2>1 DEF Meets, Final, InputInv, UserType
<1> HIDE DEF s
<1>10. Final(s)'
  BY <1>2, <1>5, <1>6, <1>8, <1>9 DEF Meets, Final
<1>11. ~twice' /\ ~repeated' => Typed(k, s) = Meant(k, held', caps')
  <2> DEFINE h == held'
             cl == caps'
  <2>1. ~twice' => s \ {"CAPSLOCK"} = Modifiers(h)
    BY <1>10 DEF Final
  <2>2. cl \in BOOLEAN /\ (~repeated' => ("CAPSLOCK" \in s) = cl)
    BY <1>7, <1>8
  <2> HIDE DEF h, cl
  <2>3. ~twice' /\ ~repeated' => Typed(k, s) = Meant(k, h, cl)
    BY <2>1, <2>2, TypedIsMeant
  <2> QED
    BY <2>3 DEF h, cl
<1>12. Meets(s, u, v \o Typed(k, s))'
  BY <1>1, <1>2, <1>4, <1>9, <1>10, <1>11 DEF Meets
<1>13. UserType'
  <2>1. Meant(k, held', caps') \in Seq(Out)
    <3> DEFINE h == held'
               cl == caps'
    <3>1. ASSUME NEW x \in Out PROVE <<x>> \in Seq(Out)
      OBVIOUS
    <3>2. <<>> \in Seq(Out)
      OBVIOUS
    <3>3. Meant(k, h, cl) = <<>> \/ \E x \in Out : Meant(k, h, cl) = <<x>>
      <4> HIDE DEF h, cl
      <4> QED
        BY DEF Meant, Out, Char
    <3> QED
      BY <3>1, <3>2, <3>3
  <2>2. wanted' \in Seq(Out)
    BY <1>1, <2>1, SeqType DEF InputInv, UserType
  <2> QED
    BY <1>1, <1>7, <2>2 DEF InputInv, UserType
<1>14. OnceHeld'
  BY <1>1, <1>9 DEF InputInv, OnceHeld
<1>15. pc' # "reboot"
  BY <1>1
<1> QED
  BY <1>12, <1>13, <1>14, <1>15 DEF InputInv, Rebooted

LEMMA InputRelease ==
    ASSUME InputInv, NEW k \in Key, Release(k)
    PROVE  InputInv'
<1>1. /\ pc = "keyboard_init" /\ pc' = pc /\ held' = held \ {k} /\ k \in held
      /\ kbd' = kbd \o Break(k) /\ shift' = shift /\ que' = que /\ got' = got
      /\ dropped' = dropped /\ caps' = caps /\ wanted' = wanted /\ twice' = twice
      /\ repeated' = repeated
  BY DEF Release, queue
<1>2. PICK sh, u, v : Meets(sh, u, v)
  BY <1>1 DEF InputInv
<1> DEFINE s == sh \ Own(k)
<1>3. Own(k) \in SUBSET {"SHIFT", "CTL", "ALT"}
  BY KeyFlags
<1>4. Leads(shift, u, kbd \o Break(k), s, v)
  BY <1>2, LeadsKey DEF Meets, Final
<1>5. /\ Modifiers(held) \ Own(k) \subseteq Modifiers(held')
      /\ ~twice => Modifiers(held') = Modifiers(held) \ Own(k)
  BY <1>1, ModifiersAre DEF InputInv, UserType, OnceHeld
<1>6. /\ s \ {"CAPSLOCK"} = (sh \ {"CAPSLOCK"}) \ Own(k)
      /\ ("CAPSLOCK" \in s) = ("CAPSLOCK" \in sh) /\ ("E0ESC" \in s => "E0ESC" \in sh)
  BY <1>3
<1> HIDE DEF s
<1>7. Final(s)'
  BY <1>1, <1>2, <1>5, <1>6 DEF Meets, Final
<1>8. Meets(s, u, v)'
  BY <1>1, <1>2, <1>4, <1>7 DEF Meets
<1>9. UserType' /\ OnceHeld'
  BY <1>1 DEF InputInv, UserType, OnceHeld
<1> QED
  BY <1>1, <1>8, <1>9 DEF InputInv, Rebooted

LEMMA InputRead ==
    ASSUME TypeOK, InputInv, KeyboardRead
    PROVE  InputInv'
<1> DEFINE b == Head(kbd)
           g == getc(b, shift)
<1>1. /\ pc = "keyboard_init" /\ kbd # <<>> /\ kbd' = Tail(kbd) /\ shift' = g.shift
      /\ held' = held /\ caps' = caps /\ wanted' = wanted /\ twice' = twice /\ got' = got
      /\ repeated' = repeated
  BY DEF KeyboardRead, user
<1>2. PICK sh, u, v : Meets(sh, u, v)
  BY <1>1 DEF InputInv
<1>3. u \in Seq(Out) /\ v \in Seq(Out) /\ shift \in SUBSET Flag /\ kbd \in Seq(0 .. 255)
  BY <1>2, LeadsType DEF Meets
<1>4. b \in 0 .. 255
  BY <1>1, <1>3, SeqType
<1>5. g.c \in Char \cup {"NO"}
  BY <1>3, <1>4, GetcType
<1>6. Leads(shift', u \o Took(b, shift), kbd', sh, v)
  BY <1>1, <1>2, LeadsTail DEF Meets
<1>7. Final(sh)'
  BY <1>1, <1>2 DEF Meets, Final
<1>8. /\ OnceHeld'
      /\ dropped' \in BOOLEAN => UserType'
  BY <1>1 DEF InputInv, UserType, OnceHeld
<1> HIDE DEF g, b
<1>9. CASE g.c = "NO"
  <2>1. pc' = pc /\ que' = que /\ dropped' = dropped
    BY <1>9 DEF KeyboardRead, queue, g, b
  <2>2. Took(b, shift) = <<>>
    BY <1>9 DEF Took, g
  <2>3. u \o Took(b, shift) = u
    BY <1>3, <2>2
  <2>4. Meets(sh, u, v)'
    BY <1>1, <1>2, <1>6, <1>7, <2>1, <2>3 DEF Meets
  <2> QED
    BY <1>1, <1>8, <2>1, <2>4 DEF InputInv, UserType, Rebooted
<1>10. CASE g.c = "DEL" /\ {"CTL", "ALT"} \subseteq g.shift
  <2>1. pc' = "reboot" /\ dropped' = dropped
    BY <1>10 DEF KeyboardRead, g, b
  <2>2. Took(b, shift) = <<"reboot">>
    BY <1>10 DEF Took, g
  <2> DEFINE w == u \o <<"reboot">>
  <2>3. Starts(w, v)
    BY <1>6, <2>2, LeadsType
  <2>4. Len(u) \in Nat /\ Len(w) = Len(u) + 1 /\ w[Len(u) + 1] = "reboot"
    <3>1. <<"reboot">> \in Seq(Out) /\ Len(<<"reboot">>) = 1 /\ <<"reboot">>[1] = "reboot"
      BY DEF Out
    <3> QED
      BY <1>3, <3>1, ConcatProperties
  <2> HIDE DEF w
  <2>5. Len(u) + 1 \in 1 .. Len(v) /\ v[Len(u) + 1] = "reboot"
    <3>1. Len(u) + 1 \in 1 .. Len(w)
      BY <2>4
    <3> QED
      BY <2>3, <2>4, <3>1 DEF Starts
  <2>6. ~twice /\ ~repeated /\ ~dropped => \E i \in DOMAIN wanted : wanted[i] = "reboot"
    <3>1. DOMAIN v = 1 .. Len(v)
      BY <1>3
    <3> QED
      BY <1>2, <2>5, <3>1 DEF Meets
  <2> QED
    BY <1>1, <1>8, <2>1, <2>6 DEF InputInv, UserType, Rebooted
<1>11. CASE g.c # "NO" /\ ~(g.c = "DEL" /\ {"CTL", "ALT"} \subseteq g.shift)
  <2>1. /\ pc' = pc
        /\ \/ que' = Append(que, g.c) /\ dropped' = dropped
           \/ dropped' = TRUE
    BY <1>11 DEF KeyboardRead, Q!Enqueue, Q!EnqueueFails, g, b
  <2>2. Took(b, shift) = <<g.c>>
    BY <1>11 DEF Took, g
  <2>3. got \o Append(que, g.c) = (got \o que) \o <<g.c>>
    <3> DEFINE x == g.c
    <3>1. x \in Char /\ que \in Seq(Char) /\ got \in Seq(Char)
      BY <1>5, <1>11 DEF TypeOK, InputInv, UserType
    <3> HIDE DEF x
    <3>2. got \o Append(que, x) = (got \o que) \o <<x>>
      BY <3>1
    <3> QED
      BY <3>2 DEF x
  <2>4. PICK w : w = u \o Took(b, shift)
    OBVIOUS
  <2>6. ~twice' /\ ~repeated' /\ ~dropped' => w = got' \o que' /\ v = wanted'
    BY <1>1, <1>2, <2>1, <2>2, <2>3, <2>4 DEF Meets
  <2>7. Leads(shift', w, kbd', sh, v)
    BY <1>6, <2>4
  <2>8. Meets(sh, w, v)'
    BY <1>7, <2>6, <2>7 DEF Meets
  <2>5. UserType'
    BY <1>8, <2>1 DEF InputInv, UserType
  <2> QED
    BY <1>1, <1>8, <2>1, <2>5, <2>8 DEF InputInv, Rebooted
<1> QED
  BY <1>9, <1>10, <1>11

LEMMA InputOther ==
    ASSUME InputInv, shift' = shift, kbd' = kbd, UNCHANGED user, dropped' = dropped,
           got' \in Seq(Char), got' \o que' = got \o que,
           pc' = "reboot" <=> pc = "reboot"
    PROVE  InputInv'
<1>1. UserType' /\ OnceHeld' /\ Rebooted'
  BY DEF InputInv, UserType, OnceHeld, Rebooted, user
<1>2. ASSUME pc # "reboot"
      PROVE  \E sh, u, v : Meets(sh, u, v)'
  <2>1. PICK sh, u, v : Meets(sh, u, v)
    BY <1>2 DEF InputInv
  <2>2. Final(sh)'
    BY <2>1 DEF Meets, Final, user
  <2>3. Meets(sh, u, v)'
    BY <2>1, <2>2 DEF Meets, user
  <2> QED
    BY <2>3
<1> QED
  BY <1>1, <1>2 DEF InputInv

LEMMA InputStep ==
    ASSUME TypeOK, InputInv, Next
    PROVE  InputInv'
<1>1. got \in Seq(Char) /\ que \in Seq(Char)
  BY DEF TypeOK, InputInv, UserType
<1>2. CASE KeyboardRead
  BY <1>2, InputRead
<1>3. CASE ReadQueue
  <2>1. /\ shift' = shift /\ kbd' = kbd /\ UNCHANGED user /\ dropped' = dropped
        /\ pc = "queue" /\ pc' = "serial"
        /\ que # <<>> /\ got' = Append(got, Head(que)) /\ que' = Tail(que)
    BY <1>3 DEF ReadQueue, Append1, Q!Dequeue, keyboard
  <2>2. ASSUME NEW a \in Seq(Char), NEW q \in Seq(Char), q # <<>>
        PROVE  Append(a, Head(q)) \in Seq(Char) /\ Append(a, Head(q)) \o Tail(q) = a \o q
    <3>1. Head(q) \in Char /\ Tail(q) \in Seq(Char)
      BY <2>2, SeqType
    <3>2. Append(a, Head(q)) \in Seq(Char)
      BY <3>1, SeqType
    <3>3. Append(a, Head(q)) \o Tail(q) = a \o q
      BY <2>2, <3>1, <3>2
    <3> QED
      BY <3>2, <3>3
  <2>3. got' \in Seq(Char) /\ got' \o que' = got \o que
    BY <1>1, <2>1, <2>2
  <2> QED
    BY <2>1, <2>3, InputOther
<1>4. CASE KeyboardInitEnd \/ ReadSerial \/ NoSerial \/ Halt \/ Timer
           \/ \E c \in SerialByte : SerialArrive(c)
  <2>1. /\ shift' = shift /\ kbd' = kbd /\ UNCHANGED user /\ dropped' = dropped
        /\ got' = got /\ que' = que
        /\ pc # "reboot" /\ pc' # "reboot"
    BY <1>4 DEF KeyboardInitEnd, ReadSerial, NoSerial, Halt, Timer, TimerIrq, TimerIrqWrap,
                SerialArrive, Append1, keyboard, queue, user
  <2> QED
    BY <1>1, <2>1, InputOther
<1>5. CASE \E k \in Key : Press(k) \/ Release(k)
  BY <1>5, InputPress, InputRelease
<1> QED
  BY <1>2, <1>3, <1>4, <1>5 DEF Next, Reader, User

LEMMA InputInit == Init => InputInv
<1> SUFFICES ASSUME Init PROVE InputInv
  OBVIOUS
<1>1. /\ pc = "keyboard_init" /\ kbd = <<>> /\ shift = {} /\ que = <<>>
      /\ held = {} /\ caps = FALSE /\ wanted = <<>> /\ twice = FALSE
      /\ repeated = FALSE /\ got = <<>> /\ dropped = FALSE
  BY DEF Init, Q!Init
<1>2. <<>> \in Seq(Out) /\ <<>> \in Seq(Char) /\ <<>> \o <<>> = <<>>
  OBVIOUS
<1>3. Leads({}, <<>>, <<>>, {}, <<>>)
  BY <1>2, LeadsNone
<1>4. Final({})
  <2>1. Modifiers({}) = {}
    BY DEF Modifiers
  <2>2. "E0ESC" \notin {} /\ {} \ {"CAPSLOCK"} = {} /\ ("CAPSLOCK" \in {}) = FALSE
    OBVIOUS
  <2>3. Modifiers(held) = {} /\ ("CAPSLOCK" \in {}) = caps
    BY <1>1, <2>1, <2>2
  <2> QED
    BY <2>2, <2>3, Zenon DEF Final
<1>5. Meets({}, <<>>, <<>>)
  BY <1>1, <1>2, <1>3, <1>4 DEF Meets
<1> QED
  BY <1>1, <1>2, <1>5 DEF InputInv, UserType, OnceHeld, Rebooted

LEMMA InputAlways == Spec => [](TypeOK /\ InputInv)
<1>1. TypeOK /\ InputInv /\ [Next]_vars => InputInv'
  <2> SUFFICES ASSUME TypeOK, InputInv, [Next]_vars PROVE InputInv'
    OBVIOUS
  <2>1. CASE Next
    BY <2>1, InputStep
  <2>2. CASE UNCHANGED vars
    <3>1. /\ shift' = shift /\ kbd' = kbd /\ UNCHANGED user /\ dropped' = dropped
          /\ got' = got /\ que' = que /\ pc' = pc
      BY <2>2 DEF vars, keyboard, queue, user
    <3>2. got' \in Seq(Char)
      BY <3>1 DEF InputInv, UserType
    <3> QED
      BY <3>1, <3>2, InputOther
  <2> QED
    BY <2>1, <2>2
<1>2. ClockExact => TypeOK
  BY DEF ClockExact
<1> QED
  BY <1>1, <1>2, ClockCorrect, InputInit, PTL DEF Spec

(* Once the bytes are read, keyboard_device_getc holds no modifier whose keys  *)
(* are all up and no half-read E0 sequence, however many keys were hit and     *)
(* released, and however the reading was interleaved with it.                  *)
THEOREM ModifiersCorrect == Spec => []NoStuckModifier
<1>1. TypeOK /\ InputInv => NoStuckModifier
  <2> SUFFICES ASSUME InputInv, kbd = <<>>, pc # "reboot" PROVE Final(shift)
    BY DEF NoStuckModifier, Final
  <2>1. PICK sh, u, v : Meets(sh, u, v)
    BY DEF InputInv
  <2>2. Leads(shift, u, <<>>, sh, v)
    BY <2>1 DEF Meets
  <2>3. shift \in SUBSET Flag /\ u \in Seq(Out)
    BY <2>2, LeadsType
  <2>4. sh = shift
    BY <2>2, <2>3, LeadsNone
  <2> QED
    BY <2>1, <2>4 DEF Meets
<1> QED
  BY <1>1, InputAlways, PTL

(* What readchar took from the queue and what is still in it is, once the      *)
(* bytes are read, what the user meant, in that order, for text of any length; *)
(* and keyboard_read_all_buffer reboots the machine only for Ctrl+Alt+Del.     *)
THEOREM TypedCorrect == Spec => []TypedIsRead
<1>1. TypeOK /\ InputInv => TypedIsRead
  <2> SUFFICES ASSUME InputInv, ~twice, ~repeated, ~dropped
               PROVE  /\ kbd = <<>> /\ pc # "reboot" => got \o que = wanted
                      /\ pc = "reboot" => \E i \in DOMAIN wanted : wanted[i] = "reboot"
    BY DEF TypedIsRead
  <2>1. pc = "reboot" => \E i \in DOMAIN wanted : wanted[i] = "reboot"
    BY DEF InputInv, Rebooted
  <2>2. ASSUME kbd = <<>>, pc # "reboot" PROVE got \o que = wanted
    <3>1. PICK sh, u, v : Meets(sh, u, v)
      BY <2>2 DEF InputInv
    <3>2. Leads(shift, u, <<>>, sh, v) /\ u = got \o que /\ v = wanted
      BY <2>2, <3>1 DEF Meets
    <3>3. shift \in SUBSET Flag /\ u \in Seq(Out)
      <4>1. Leads(shift, u, kbd, sh, v)
        BY <3>1 DEF Meets
      <4> QED
        BY <4>1, LeadsType
    <3>4. v = u
      BY <3>2, <3>3, LeadsNone
    <3> QED
      BY <3>2, <3>4
  <2> QED
    BY <2>1, <2>2
<1> QED
  BY <1>1, InputAlways, PTL

=============================================================================
