------------------------------ MODULE Strings ------------------------------
(***************************************************************************)
(* libs/string.c and libs/vector.c: strings and vectors that grow, kssplit *)
(* as the shell of usr/init.c uses it, conversions of numbers, memmove.    *)
(*                                                                         *)
(* A string is [mem, length, cap, spill]: the bytes kmalloc gave, and what *)
(* was written past them, as pairs of the distance past the end and the    *)
(* byte.  kmalloc may fail at every call.                                  *)
(***************************************************************************)
EXTENDS Integers, Sequences, FiniteSets

CONSTANTS
    STRING_MIN_SIZE,    \* 32
    VECTOR_MIN,         \* MIN_CAPACITY of vector.c, 8
    MaxText,            \* bound: the length of a string in this model
    Bits                \* bits of an int, a multiple of 4

ASSUME StringAssumption ==
    /\ STRING_MIN_SIZE \in Nat \ {0} /\ VECTOR_MIN \in Nat \ {0} /\ MaxText \in Nat
    /\ Bits \in Nat \ {0} /\ Bits % 4 = 0

\* arithmetic: the power of two that roundup_pow_of_two looks for is there
ASSUME PowerAssumption ==
    \A n \in 1 .. MaxText + 1 :
        /\ \A k \in 0 .. n : 2 ^ k \in Nat
        /\ \E k \in 0 .. n : n <= 2 ^ k /\ (2 ^ k = 1 \/ 2 ^ k \div 2 < n)

Letter == {"a", "b"}
Byte == Letter \cup {" ", "NUL", "any"}     \* "any": whatever kmalloc left there

VARIABLES
    kstr,       \* a string and, as history, the text it should hold
    text,
    line,       \* run_shell: the line read
    pos, sub,   \* kssplit: its index and the piece it collects
    vec,        \* the vector of pieces: [base, size, cap]
    nulls,      \* the indices at which it holds NULL in the place of a piece, in order
    at,         \* where run_shell is
    live,       \* number of blocks kmalloc gave and kfree did not get back
    failed,     \* history: a kmalloc failed
    arg         \* the arguments of a conversion and of memmove

string == <<kstr, text>>
shell == <<line, pos, sub, vec, nulls, at, live, failed>>

----------------------------------------------------------------------------
(* The string operations *)

put(s, k, c) ==
    IF k < s.cap THEN [s EXCEPT !.mem[k] = c]
    ELSE [s EXCEPT !.spill = @ \cup {<<k - s.cap, c>>}]

Fresh(size) == [k \in 0 .. size - 1 |-> "any"]
Content(s) == [k \in 1 .. s.length |-> s.mem[k - 1]]

ksalloc == [mem |-> [Fresh(STRING_MIN_SIZE) EXCEPT ![0] = "NUL"], length |-> 0,
            cap |-> STRING_MIN_SIZE, spill |-> {}]

roundup_pow_of_two(n) == CHOOSE p \in {2 ^ k : k \in 0 .. n} : n <= p /\ (p = 1 \/ p \div 2 < n)

\* mutant of Short: the terminating zero is taken for room
ShortByOne(s, size) == s.cap + 1 < size

\* string_try_expand calls kmalloc
Short(s, size) == s.cap < size

\* string_try_expand, when kmalloc succeeds; the zero goes into the old memory
expand(s, size) ==
    IF ~Short(s, size) THEN s
    ELSE LET new == roundup_pow_of_two(size + 1)
             old == put(s, s.length, "NUL")
         IN  [old EXCEPT !.cap = new,
                         !.mem = [k \in 0 .. new - 1 |-> IF k < s.length THEN s.mem[k] ELSE "any"]]

\* ksappend_char and ksappend_strn with room for the bytes
append(s, str) ==
    LET e == expand(s, s.length + Len(str))
        n == s.length + Len(str)
        filled == [e EXCEPT !.mem = [k \in 0 .. e.cap - 1 |->
                      IF k >= s.length /\ k < n THEN str[k - s.length + 1] ELSE e.mem[k]],
                            !.spill = @ \cup {<<k - e.cap, str[k - s.length + 1]>> :
                                                  k \in {j \in s.length .. n - 1 : j >= e.cap}}]
    IN  put([filled EXCEPT !.length = n], n, "NUL")

\* ksfit
fit(s, c, n) ==
    LET e == expand(s, n)
        m == [k \in 0 .. e.cap - 1 |-> IF k >= s.length /\ k < n THEN c ELSE e.mem[k]]
    IN  put([e EXCEPT !.mem = m, !.length = n], n, "NUL")

\* ksappend_str of one or two bytes (ksappend_char: of one)
AppendStr(str) ==
    /\ kstr.length + Len(str) <= MaxText
    /\ kstr' = append(kstr, str) /\ text' = text \o str

\* -ENOMEM: nothing changes, and no caller looks
AppendFails(str) ==
    /\ Short(kstr, kstr.length + Len(str))
    /\ UNCHANGED string

PopChar ==
    /\ kstr.length > 0
    /\ kstr' = put([kstr EXCEPT !.length = @ - 1], kstr.length - 1, "NUL")
    /\ text' = SubSeq(text, 1, Len(text) - 1)

Fit(c, n) ==
    /\ kstr' = fit(kstr, c, n)
    /\ text' = [k \in 1 .. n |-> IF k <= Len(text) THEN text[k] ELSE c]

Texts(n) == UNION {[1 .. m -> Letter \cup {" "}] : m \in 1 .. n}

StringNext ==
    \/ \E str \in Texts(2) : AppendStr(str) \/ AppendFails(str)
    \/ PopChar
    \/ \E n \in 0 .. MaxText : Fit("b", n)

----------------------------------------------------------------------------
(* Vectors *)

Push(v, e) ==
    [v EXCEPT !.base = [k \in 0 .. (IF v.size = v.cap THEN 2 * v.cap ELSE v.cap) - 1 |->
                            IF k = v.size THEN e ELSE IF k < v.size THEN v.base[k] ELSE <<>>],
              !.cap = IF v.size = v.cap THEN 2 * @ ELSE @,
              !.size = @ + 1]

Vector == [base |-> [k \in 0 .. VECTOR_MIN - 1 |-> <<>>], size |-> 0, cap |-> VECTOR_MIN]
Pieces(v) == [k \in 1 .. v.size |-> v.base[k - 1]]

----------------------------------------------------------------------------
(* run_shell: a line, kssplit, the program, and the vector emptied *)

\* blocks that run_shell holds all the time: its string and its vector
Held == 4

\* ksalloc in kssplit; lost: the call of vector_push before it failed.  When it
\* returns NULL, sub is not looked at until the next separator.
NewSub(lost) ==
    \/ at' = "split" /\ sub' = ksalloc /\ live' = live + 2 /\ failed' = (failed \/ lost)
    \/ at' = "nosub" /\ failed' = TRUE /\ UNCHANGED <<sub, live>>

\* readline returns a line; an empty one is skipped.  Bound: no line is read after
\* one in which kmalloc failed and memory may have been lost.
ReadLine(l) ==
    /\ at = "prompt" /\ ~failed
    /\ line' = l /\ pos' = 1
    /\ NewSub(FALSE)
    /\ UNCHANGED <<vec, nulls>>

\* kssplit goes on with sub = NULL, which it pushes when a separator is next
NullSpace ==
    /\ at = "nosub" /\ pos <= Len(line) /\ line[pos] = " "
    /\ \/ vec' = Push(vec, <<>>) /\ nulls' = Append(nulls, vec.size)
       \/ vec.size = vec.cap /\ UNCHANGED <<vec, nulls>>
    /\ pos' = pos + 1
    /\ NewSub(FALSE)
    /\ UNCHANGED line

\* with another byte or the end of the line next it is a page fault, and a new
\* shell takes over (module Sched); so it is when run_shell looks at the name of
\* the program and that is NULL, or the program at one of its arguments
NullFault ==
    /\ \/ at = "nosub" /\ (pos <= Len(line) => line[pos] # " ")
       \/ at = "exec" /\ nulls # <<>>
    /\ at' = "dead"
    /\ UNCHANGED <<line, pos, sub, vec, nulls, live, failed>>

\* a byte of the line goes to the piece, one block in the place of another
SplitByte ==
    /\ at = "split" /\ pos <= Len(line) /\ line[pos] # " "
    /\ sub' = append(sub, <<line[pos]>>)
    /\ pos' = pos + 1
    /\ UNCHANGED <<line, vec, nulls, at, live, failed>>

SplitByteFails ==
    /\ at = "split" /\ pos <= Len(line) /\ line[pos] # " " /\ Short(sub, sub.length + 1)
    /\ pos' = pos + 1 /\ failed' = TRUE
    /\ UNCHANGED <<line, sub, vec, nulls, at, live>>

\* mutant of SplitSpace: an empty piece is not pushed
SplitSpaceSkip ==
    /\ at = "split" /\ pos <= Len(line) /\ line[pos] = " "
    /\ vec' = IF sub.length = 0 THEN vec ELSE Push(vec, Content(sub))
    /\ pos' = pos + 1
    /\ NewSub(FALSE)
    /\ UNCHANGED <<line, nulls>>

\* the separator: the piece is pushed, empty or not
SplitSpace ==
    /\ at = "split" /\ pos <= Len(line) /\ line[pos] = " "
    /\ vec' = Push(vec, Content(sub))
    /\ pos' = pos + 1
    /\ NewSub(FALSE)
    /\ UNCHANGED <<line, nulls>>

\* vector_push cannot grow: the piece is lost, with its memory
SplitSpaceFails ==
    /\ at = "split" /\ pos <= Len(line) /\ line[pos] = " " /\ vec.size = vec.cap
    /\ pos' = pos + 1
    /\ NewSub(TRUE)
    /\ UNCHANGED <<line, vec, nulls>>

\* mutant of SplitEnd: an empty last piece is not freed
SplitEndLeak ==
    /\ at = "split" /\ pos > Len(line)
    /\ vec' = IF sub.length > 0 THEN Push(vec, Content(sub)) ELSE vec
    /\ UNCHANGED live
    /\ at' = "exec"
    /\ UNCHANGED <<line, pos, sub, nulls, failed>>

\* the rest is pushed or, when empty, freed
SplitEnd ==
    /\ at = "split" /\ pos > Len(line)
    /\ \/ /\ sub.length > 0
          /\ vec' = Push(vec, Content(sub))
          /\ UNCHANGED <<live, failed>>
       \/ /\ sub.length > 0 /\ vec.size = vec.cap
          /\ failed' = TRUE
          /\ UNCHANGED <<vec, live>>
       \/ /\ sub.length = 0
          /\ live' = live - 2
          /\ UNCHANGED <<vec, failed>>
    /\ at' = "exec"
    /\ UNCHANGED <<line, pos, sub, nulls>>

\* The program has run (module Sched); every piece is popped and freed, by ksfree
\* that does nothing with NULL.  What is left in memory that no one looks at again
\* is forgotten.
PopAll ==
    /\ at = "exec" /\ (nulls # <<>> => nulls[1] # 0)
    /\ live' = live - 2 * (vec.size - Len(nulls)) /\ nulls' = <<>>
    /\ vec' = [vec EXCEPT !.size = 0, !.base = [k \in DOMAIN @ |-> <<>>]]
    /\ at' = "prompt" /\ line' = <<>> /\ pos' = 1 /\ sub' = ksalloc
    /\ UNCHANGED failed

ShellNext ==
    \/ \E l \in Texts(MaxText) : ReadLine(l)
    \/ NullSpace \/ NullFault \/ SplitByte \/ SplitByteFails \/ SplitSpace \/ SplitSpaceFails \/ SplitEnd \/ PopAll

StringsInit ==
    /\ kstr = ksalloc /\ text = <<>>
    /\ line = <<>> /\ pos = 1 /\ sub = ksalloc /\ vec = Vector /\ nulls = <<>>
    /\ at = "prompt" /\ live = Held /\ failed = FALSE

StringsNext ==
    \/ StringNext /\ UNCHANGED shell
    \/ ShellNext /\ UNCHANGED string

----------------------------------------------------------------------------
(* Conversions, on sequences of character codes *)

INT_MAX == 2 ^ (Bits - 1) - 1
UInt == 0 .. 2 ^ Bits - 1
Signed(u) == LET w == u % 2 ^ Bits IN IF w > INT_MAX THEN w - 2 ^ Bits ELSE w

Zero == 48      \* '0'
Minus == 45     \* '-'
Plus == 43      \* '+'
X == 120        \* 'x'
LowerA == 97    \* 'a'
UpperA == 65    \* 'A'
Blank == {9, 32}
digit(d) == IF d < 10 THEN Zero + d ELSE LowerA + d - 10

\* the digits of n as the loops of to_str and to_hex write them, lowest first
LowFirst(base) == LET f[n \in Nat] == IF n = 0 THEN <<>> ELSE <<digit(n % base)>> \o f[n \div base]
                  IN  f

reverse_str(str) == [k \in DOMAIN str |-> str[Len(str) + 1 - k]]

\* val *= -1 leaves INT_MIN negative, so that only the sign is written
to_str(val) ==
    IF val = 0 THEN <<Zero>>
    ELSE LET v == IF val < 0 THEN Signed(-val) ELSE val
             digits == IF v > 0 THEN LowFirst(10)[v] ELSE <<>>
         IN  (IF val < 0 THEN <<Minus>> ELSE <<>>) \o reverse_str(digits)

to_hex(val) ==
    LET digits == LowFirst(16)[val]
        padded == digits \o [k \in 1 .. (Bits \div 4) - Len(digits) |-> Zero]
    IN  <<Zero, X>> \o reverse_str(padded)

value(c) == IF c \in Zero .. Zero + 9 THEN c - Zero ELSE 10 + c - LowerA
is_digit(c) == c \in Zero .. Zero + 9 \/ c \in LowerA .. LowerA + 5

\* the number that the digits of str are, in an int
Read(str, base) ==
    LET f[k \in 0 .. Len(str)] == IF k = 0 THEN 0 ELSE Signed(f[k - 1] * base + value(str[k]))
    IN  f[Len(str)]

\* the value in a sequence, or <<>> for -1
hex_to_value(str) ==
    LET last == 2 + (Bits \div 4)
        digits == SubSeq(str, 3, IF Len(str) < last THEN Len(str) ELSE last)
    IN  IF Len(str) >= 2 /\ str[1] = Zero /\ str[2] = X /\ \A k \in DOMAIN digits : is_digit(digits[k])
        THEN <<Read(digits, 16)>> ELSE <<>>

\* the value of a digit of strtol, or -1: up to z or Z for base 36
long_digit(c) ==
    IF c \in Zero .. Zero + 9 THEN c - Zero
    ELSE IF c \in LowerA .. LowerA + 25 THEN c - LowerA + 10
    ELSE IF c \in UpperA .. UpperA + 25 THEN c - UpperA + 10 ELSE -1

\* where the first byte of str is that is not in chars, or its end
First(str, chars) ==
    LET ends == {k \in DOMAIN str : str[k] \notin chars} \cup {Len(str) + 1}
    IN  CHOOSE k \in ends : \A j \in ends : k <= j

\* strtol: blanks, sign, prefix (0x or 0), and the digits up to the first that is
\* none in the base.  Overflow is not looked for.
strtol(str, base) ==
    LET t == SubSeq(str, First(str, Blank), Len(str))
        neg == t # <<>> /\ t[1] = Minus
        u == IF neg \/ (t # <<>> /\ t[1] = Plus) THEN Tail(t) ELSE t
        hex == base \in {0, 16} /\ Len(u) > 1 /\ u[1] = Zero /\ u[2] = X
        octal == ~hex /\ base = 0 /\ Len(u) > 0 /\ u[1] = Zero
        b == IF hex THEN 16 ELSE IF octal THEN 8 ELSE IF base = 0 THEN 10 ELSE base
        digits == SubSeq(u, IF hex THEN 3 ELSE IF octal THEN 2 ELSE 1, Len(u))
        n == First(digits, {c \in 0 .. 255 : long_digit(c) \in 0 .. b - 1}) - 1
        val[k \in 0 .. n] ==
            IF k = 0 THEN 0 ELSE Signed(val[k - 1] * b + long_digit(digits[k]))
    IN  Signed(IF neg THEN -val[n] ELSE val[n])

\* mutant of memmove: always from the front
memmove_up(m, d, s, n) ==
    LET f[k \in 0 .. n] == IF k = 0 THEN m ELSE [f[k - 1] EXCEPT ![d + k - 1] = f[k - 1][s + k - 1]]
    IN  f[n]

\* the memory m after memmove, which goes down when the target is inside the source
memmove(m, d, s, n) ==
    LET up[k \in 0 .. n] ==
            IF k = 0 THEN m ELSE [up[k - 1] EXCEPT ![d + k - 1] = up[k - 1][s + k - 1]]
        down[k \in 0 .. n] ==
            IF k = 0 THEN m ELSE [down[k - 1] EXCEPT ![d + n - k] = down[k - 1][s + n - k]]
    IN  IF s < d /\ s + n > d THEN down[n] ELSE up[n]

----------------------------------------------------------------------------
(* Arguments: a number, and target, source and length of a move *)

NoArg == [u |-> 0, d |-> 0, s |-> 0, n |-> 0]
Move(d, s) == {[u |-> 0, d |-> d, s |-> s, n |-> n] :
                  n \in 0 .. MaxText + 1 - (IF d > s THEN d ELSE s)}
Args == {[NoArg EXCEPT !.u = u] : u \in UInt} \cup UNION {Move(d, s) : d, s \in 0 .. MaxText}

\* the string of one caller, the shell, and a conversion
StringsSpec ==
    /\ StringsInit /\ arg \in Args
    /\ [][StringsNext /\ UNCHANGED arg]_<<string, shell, arg>>

----------------------------------------------------------------------------
(* Properties *)

\* A string holds what was appended, whatever mixture of appending, popping and
\* fitting made it grow and however often the memory was moved, all of it inside
\* the memory and ended by a zero where that has a place (see NoSpill).
TextKept ==
    /\ kstr.length <= kstr.cap /\ Content(kstr) = text
    /\ kstr.length < kstr.cap => kstr.mem[kstr.length] = "NUL"

\* string_try_expand makes room for the terminating zero, as its comment says: no
\* string operation writes past the memory of its string.  (It does not: a string
\* whose length is its capacity has its zero one byte past the end.)
NoSpill == kstr.spill \cup sub.spill = {}

Join(pieces) ==
    LET f[k \in 0 .. Len(pieces)] ==
            IF k = 0 THEN <<>> ELSE f[k - 1] \o (IF k = 1 THEN <<>> ELSE <<" ">>) \o pieces[k]
    IN  f[Len(pieces)]

\* kssplit loses nothing: the pieces, joined again, are the line, up to one space
\* at its end; there is at least one, so that vector_at(vec, 0) in run_shell was
\* pushed even for a line of spaces, and even when vectors could not grow.
SplitRejoins ==
    at = "exec" =>
        /\ vec.size > 0
        /\ ~failed => Join(Pieces(vec)) = line \/ Join(Pieces(vec)) \o <<" ">> = line

\* When the shell is back at its prompt, all memory of the line before is freed,
\* as long as every kmalloc succeeded.
NoLeak == at = "prompt" /\ ~failed => live = Held /\ vec.size = 0

\* What to_str and to_hex write, strtol and hex_to_value read back, for every
\* number but INT_MIN (which to_str writes as a sign only), and strtol also after
\* blanks and a plus sign and with digits in capitals; memmove copies as if through
\* a buffer however source and target overlap.
ConversionsExact ==
    LET v == Signed(arg.u)
        m == [k \in 0 .. MaxText |-> k]
        lead == <<32, 9>> \o (IF v < 0 THEN <<>> ELSE <<Plus>>)
        upper(c) == IF c \in LowerA .. LowerA + 5 THEN c - LowerA + UpperA ELSE c
        shout(str) == [k \in DOMAIN str |-> upper(str[k])]
    IN  /\ v # -INT_MAX - 1 => strtol(to_str(v), 10) = v /\ strtol(lead \o to_str(v), 10) = v
        /\ strtol(shout(to_hex(arg.u)), 0) = v
        /\ hex_to_value(to_hex(arg.u)) = <<v>> /\ strtol(to_hex(arg.u), 0) = v
        /\ memmove(m, arg.d, arg.s, arg.n) =
            [k \in 0 .. MaxText |->
                IF k \in arg.d .. arg.d + arg.n - 1 THEN m[arg.s + k - arg.d] ELSE m[k]]
=============================================================================
