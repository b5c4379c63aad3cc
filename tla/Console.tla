------------------------------ MODULE Console ------------------------------
(***************************************************************************)
(* The input of the shell: kernel/keyboard.c, the receiver of              *)
(* kernel/serial.c, readchar and readline of kernel/stdio.c, and the clock *)
(* of kernel/timer.c, whose interrupt is what wakes the reader.  The queue *)
(* between the keyboard and the reader is used by its specification,       *)
(* QueueSpec, which Queue implements.                                      *)
(*                                                                         *)
(* Interrupts.  pic_init(false) masks the PIC and ioapic_init every entry  *)
(* of the I/O APIC; ioapic_enable(IRQ_KEYBD) then writes entry 33, while   *)
(* the keyboard is at pin 1 and a PC has 24 pins.  No one enables COM1.    *)
(* So the only interrupt that arrives is that of the local timer:          *)
(* keyboard_irq_handler never runs, and what is typed is read by           *)
(* keyboard_init or never.                                                 *)
(***************************************************************************)
EXTENDS Integers, Sequences, FiniteSets

CONSTANTS
    TICK_NUM,   \* timer interrupts per second
    MSECS,      \* 1000, the milliseconds of a second
    SIXTY,      \* 60, the seconds of a minute and the minutes of an hour
    U32,        \* 2^32, where a uint32_t (all of struct time) wraps around
    Budgets     \* bounds of a behaviour: [ev, rx, clock], how many keys are hit
                \* or released, how many bytes received, and whether the clock
                \* is followed until ticks wraps around (or not at all)

ASSUME TimeAssumption ==
    /\ TICK_NUM \in Nat \ {0} /\ SIXTY \in Nat \ {0} /\ U32 \in Nat \ {0}
    /\ MSECS = 10 * TICK_NUM
ASSUME BudgetAssumption == Budgets \subseteq [ev : Nat, rx : Nat, clock : BOOLEAN]

VARIABLES
    pc,             \* where the boot CPU is, later its thread in readchar
    kbd,            \* bytes in the keyboard controller
    shift,          \* the flags of keyboard_device_getc
    que, ret,       \* stdio_que, and the answer of its last call
    rx,             \* the receiver register of COM1, "none" when empty
    line,           \* readline: the line so far
    time,           \* times[0]
    left,           \* what is left of the budget
    held,           \* the keys that are down
    caps,           \* history: the state of Caps Lock as its user sees it
    wanted,         \* history: the characters the user means to type
    got,            \* history: the characters readchar took from the queue
    twice,          \* history: both keys of one modifier were down at once
    repeated,       \* history: Caps Lock was held until its code repeated
    dropped         \* history: enqueue failed

keyboard == <<kbd, shift>>
user == <<held, caps, wanted, twice, repeated>>
queue == <<que, ret>>
vars == <<pc, keyboard, queue, rx, line, time, left, user, got, dropped>>

----------------------------------------------------------------------------
(* The keyboard: scan codes as the controller delivers them *)

E0 == 224
Ext(k) == k \in {"rctl", "ralt", "del"}
Code == [lshift |-> 42, rshift |-> 54, rctl |-> 29, lctl |-> 29, lalt |-> 56, ralt |-> 56,
         caps |-> 58, a |-> 30, enter |-> 28, dot |-> 83, del |-> 83]
Key == DOMAIN Code

Make(k) == IF Ext(k) THEN <<E0, Code[k]>> ELSE <<Code[k]>>
Break(k) == IF Ext(k) THEN <<E0, Code[k] + 128>> ELSE <<Code[k] + 128>>

Modifier(k) ==
    CASE k \in {"lshift", "rshift"} -> "SHIFT"
      [] k \in {"lctl", "rctl"} -> "CTL"
      [] k \in {"lalt", "ralt"} -> "ALT"
      [] OTHER -> "none"
Modifiers(keys) == {Modifier(k) : k \in keys} \ {"none"}

\* What a user means by hitting k with the keys of h down and Caps Lock at cl.
Meant(k, h, cl) ==
    LET ctl == "CTL" \in Modifiers(h)
        up == ("SHIFT" \in Modifiers(h)) # cl
    IN  CASE k = "a" -> <<IF ctl THEN "^A" ELSE IF up THEN "A" ELSE "a">>
          [] k = "enter" -> <<IF ctl THEN "\r" ELSE "\n">>
          [] k = "dot" -> IF ctl THEN <<>> ELSE <<".">>
          [] k = "del" -> IF {"CTL", "ALT"} \subseteq Modifiers(h) THEN <<"reboot">> ELSE <<"DEL">>
          [] OTHER -> <<>>

\* A key is hit, or is held down and repeats its code, as every key does.
Press(k) ==
    /\ pc = "keyboard_init" /\ left.ev > 0
    /\ held' = held \cup {k}
    /\ caps' = (caps # (k = "caps" /\ k \notin held))
    /\ repeated' = (repeated \/ (k = "caps" /\ k \in held))
    /\ wanted' = wanted \o Meant(k, held', caps')
    /\ twice' = (twice \/ \E j \in held \ {k} : Modifier(j) # "none" /\ Modifier(j) = Modifier(k))
    /\ kbd' = kbd \o Make(k)
    /\ left' = [left EXCEPT !.ev = @ - 1]
    /\ UNCHANGED <<pc, shift, queue, rx, line, time, got, dropped>>

Release(k) ==
    /\ pc = "keyboard_init" /\ left.ev > 0 /\ k \in held
    /\ held' = held \ {k}
    /\ kbd' = kbd \o Break(k)
    /\ left' = [left EXCEPT !.ev = @ - 1]
    /\ UNCHANGED <<pc, shift, queue, rx, line, time, caps, wanted, twice, repeated, got, dropped>>

----------------------------------------------------------------------------
(* keyboard_device_getc *)

shiftcode(data) ==
    CASE data \in {29, 157} -> {"CTL"}
      [] data \in {42, 54} -> {"SHIFT"}
      [] data \in {56, 184} -> {"ALT"}
      [] OTHER -> {}

togglecode(data) == IF data = 58 THEN {"CAPSLOCK"} ELSE {}

\* normalmap, shiftmap and ctlmap at the codes of Key; "NO" at all others
normalmap(data) ==
    CASE data = 30 -> "a" [] data = 28 -> "\n" [] data = 83 -> "." [] data = 211 -> "DEL"
      [] OTHER -> "NO"
shiftmap(data) ==
    CASE data = 30 -> "A" [] data = 28 -> "\n" [] data = 83 -> "." [] data = 211 -> "DEL"
      [] OTHER -> "NO"
ctlmap(data) ==
    CASE data = 30 -> "^A" [] data = 28 -> "\r" [] data = 211 -> "DEL"
      [] OTHER -> "NO"

charcode(sh, data) ==
    IF "CTL" \in sh THEN ctlmap(data)
    ELSE IF "SHIFT" \in sh THEN shiftmap(data) ELSE normalmap(data)

swapcase(c) == IF c = "a" THEN "A" ELSE IF c = "A" THEN "a" ELSE c

SymDiff(S, T) == (S \ T) \cup (T \ S)

\* mutant of getc: the release of a key leaves E0ESC set
getc_keeps_esc(data, sh) ==
    IF data = E0 THEN [shift |-> sh \cup {"E0ESC"}, c |-> "NO"]
    ELSE IF data >= 128 THEN
        LET d == IF "E0ESC" \in sh THEN data ELSE data - 128
        IN  [shift |-> sh \ shiftcode(d), c |-> "NO"]
    ELSE
        LET d == IF "E0ESC" \in sh THEN data + 128 ELSE data
            s == SymDiff((sh \ {"E0ESC"}) \cup shiftcode(d), togglecode(d))
            c == charcode(s, d)
        IN  [shift |-> s, c |-> IF "CAPSLOCK" \in s THEN swapcase(c) ELSE c]

\* the flags and the character after the byte data, with the flags sh before
getc(data, sh) ==
    IF data = E0 THEN [shift |-> sh \cup {"E0ESC"}, c |-> "NO"]
    ELSE IF data >= 128 THEN
        LET d == IF "E0ESC" \in sh THEN data ELSE data - 128
        IN  [shift |-> sh \ (shiftcode(d) \cup {"E0ESC"}), c |-> "NO"]
    ELSE
        LET d == IF "E0ESC" \in sh THEN data + 128 ELSE data
            s == SymDiff((sh \ {"E0ESC"}) \cup shiftcode(d), togglecode(d))
            c == charcode(s, d)
        IN  [shift |-> s, c |-> IF "CAPSLOCK" \in s THEN swapcase(c) ELSE c]

Char == {"a", "A", "^A", "\n", "\r", ".", "DEL"}
Q == INSTANCE QueueSpec WITH Value <- Char

----------------------------------------------------------------------------
(* keyboard_init: keyboard_read_all_buffer, with interrupts off *)

\* one turn of its loop; the answer of enqueue is ignored
KeyboardRead ==
    /\ pc = "keyboard_init" /\ kbd # <<>>
    /\ kbd' = Tail(kbd)
    /\ LET g == getc(Head(kbd), shift) IN
        /\ shift' = g.shift
        /\ \/ /\ g.c = "NO"
              /\ UNCHANGED <<pc, queue, dropped>>
           \/ /\ g.c = "DEL" /\ {"CTL", "ALT"} \subseteq g.shift
              /\ pc' = "reboot"
              /\ UNCHANGED <<queue, dropped>>
           \/ /\ g.c # "NO" /\ ~(g.c = "DEL" /\ {"CTL", "ALT"} \subseteq g.shift)
              /\ Q!Enqueue(g.c)
              /\ UNCHANGED <<pc, dropped>>
           \/ /\ g.c # "NO" /\ ~(g.c = "DEL" /\ {"CTL", "ALT"} \subseteq g.shift)
              /\ Q!EnqueueFails
              /\ dropped' = TRUE
              /\ UNCHANGED pc
    /\ UNCHANGED <<rx, line, time, left, user, got>>

\* no data: the handler is registered, interrupts go on, the shell reads a line
KeyboardInitEnd ==
    /\ pc = "keyboard_init" /\ kbd = <<>>
    /\ pc' = "serial"
    /\ UNCHANGED <<keyboard, queue, rx, line, time, left, user, got, dropped>>

----------------------------------------------------------------------------
(* readchar and readline *)

\* hardware: a byte overwrites one that was not read
SerialArrive(b) ==
    /\ pc # "reboot" /\ left.rx > 0
    /\ rx' = b
    /\ left' = [left EXCEPT !.rx = @ - 1]
    /\ UNCHANGED <<pc, keyboard, queue, line, time, user, got, dropped>>

\* serial_getc
serial_getc(b) == IF b = "\r" THEN "\n" ELSE b

\* readline: the character is echoed and, unless it ends the line, appended
Append1(c) ==
    /\ line' = IF c = "\n" THEN <<>> ELSE Append(line, c)
    /\ pc' = "serial"

ReadSerial ==
    /\ pc = "serial" /\ rx # "none"
    /\ rx' = "none"
    /\ Append1(serial_getc(rx))
    /\ UNCHANGED <<keyboard, queue, time, left, user, got, dropped>>

NoSerial ==
    /\ pc = "serial" /\ rx = "none"
    /\ pc' = "queue"
    /\ UNCHANGED <<keyboard, queue, rx, line, time, left, user, got, dropped>>

\* mutant of ReadQueue: the newest character is read
ReadQueueRear ==
    /\ pc = "queue" /\ que # <<>>
    /\ ret' = que[Len(que)] /\ que' = SubSeq(que, 1, Len(que) - 1)
    /\ got' = Append(got, ret')
    /\ Append1(ret')
    /\ UNCHANGED <<keyboard, rx, time, left, user, dropped>>

ReadQueue ==
    /\ pc = "queue" /\ Q!Dequeue
    /\ got' = Append(got, ret')
    /\ Append1(ret')
    /\ UNCHANGED <<keyboard, rx, time, left, user, dropped>>

\* sti and hlt, however much arrived since the two tests
Halt ==
    /\ pc = "queue" /\ que = <<>>
    /\ pc' = "halt"
    /\ UNCHANGED <<keyboard, queue, rx, line, time, left, user, got, dropped>>

----------------------------------------------------------------------------
(* kernel/timer.c *)

\* mutant of time_add_ms: minutes are carried from the seconds left over
time_add_ms_carry(t, ms) ==
    LET m == t.msecs + ms
        s == t.seconds + (m \div MSECS)
        n == t.minutes + ((s % SIXTY) \div SIXTY)
    IN  [t EXCEPT !.msecs = m % MSECS, !.seconds = s % SIXTY,
                  !.minutes = n % SIXTY, !.hours = @ + (n \div SIXTY)]

time_add_ms(t, ms) ==
    LET m == t.msecs + ms
        s == t.seconds + (m \div MSECS)
        n == t.minutes + (s \div SIXTY)
    IN  [t EXCEPT !.msecs = m % MSECS, !.seconds = s % SIXTY,
                  !.minutes = n % SIXTY, !.hours = @ + (n \div SIXTY)]

time_add(t, seconds) == time_add_ms(t, seconds * MSECS)

\* The first part of timer_irq_handler.
Ticked ==
    LET n == (time.ticks + 1) % U32
        t == [time EXCEPT !.ticks = n, !.msecs = (n % TICK_NUM) * 10]
    IN  IF n % TICK_NUM = 0 THEN time_add(t, 1) ELSE t

\* mutant of TimerIrq: the interrupt does not return to readchar's loop
TimerIrqNoWake ==
    /\ pc \in {"serial", "queue", "halt"}
    /\ time' = IF left.clock THEN Ticked ELSE time
    /\ left.clock => time'.ticks # 0
    /\ UNCHANGED <<pc, keyboard, queue, rx, line, left, user, got, dropped>>

\* irq_handler and timer_irq_handler; after hlt, readchar tests again
TimerIrq ==
    /\ pc \in {"serial", "queue", "halt"}
    /\ time' = IF left.clock THEN Ticked ELSE time
    /\ left.clock => time'.ticks # 0
    /\ pc' = IF pc = "halt" THEN "serial" ELSE pc
    /\ UNCHANGED <<keyboard, queue, rx, line, left, user, got, dropped>>

\* When ticks wraps around, the handler follows timer_lists[0], a circular list
\* whose only node is its head, until NULL: it does not return.
TimerIrqWrap ==
    /\ pc \in {"serial", "queue", "halt"}
    /\ left.clock
    /\ time' = Ticked /\ time'.ticks = 0
    /\ pc' = "timer_scan"
    /\ UNCHANGED <<keyboard, queue, rx, line, left, user, got, dropped>>

\* The sum is one of uint32_t, whatever time_ms returns.  (The other sums of this
\* file stay below 2^32: an hour takes many ticks, and ticks is a uint32_t.)
time_ms(t) == (((t.hours * SIXTY + t.minutes) * SIXTY + t.seconds) * MSECS + t.msecs) % U32

----------------------------------------------------------------------------

\* stdio_init and serial_init are through, the registers of COM1 are empty
Init ==
    /\ pc = "keyboard_init" /\ kbd = <<>> /\ shift = {}
    /\ Q!Init
    /\ rx = "none" /\ line = <<>>
    /\ time = [hours |-> 0, minutes |-> 0, seconds |-> 0, msecs |-> 0, ticks |-> 0]
    /\ left \in Budgets
    /\ held = {} /\ caps = FALSE /\ wanted = <<>> /\ twice = FALSE /\ repeated = FALSE
    /\ got = <<>> /\ dropped = FALSE

SerialByte == {"x", "\r"}

Reader == KeyboardRead \/ KeyboardInitEnd \/ ReadSerial \/ NoSerial \/ ReadQueue \/ Halt
Timer == TimerIrq \/ TimerIrqWrap
User == (\E k \in Key : Press(k) \/ Release(k)) \/ \E b \in SerialByte : SerialArrive(b)

Next == Reader \/ Timer \/ User

\* The CPU executes, and the timer keeps interrupting it.
Spec == Init /\ [][Next]_vars /\ WF_vars(Reader) /\ WF_vars(Timer)

----------------------------------------------------------------------------
(* Properties *)

\* Every variable keeps its type; the parts of the clock stay in their ranges.
TypeOK ==
    /\ pc \in {"keyboard_init", "serial", "queue", "halt", "timer_scan", "reboot"}
    /\ kbd \in Seq(0 .. 255) /\ que \in Seq(Char) /\ line \in Seq(Char \cup SerialByte)
    /\ shift \subseteq {"SHIFT", "CTL", "ALT", "CAPSLOCK", "E0ESC"}
    /\ rx \in SerialByte \cup {"none"}
    /\ time \in [hours : Nat, minutes : 0 .. SIXTY - 1, seconds : 0 .. SIXTY - 1,
                 msecs : 0 .. MSECS - 1, ticks : 0 .. U32 - 1]

\* Once the bytes are read, keyboard_device_getc holds no modifier whose keys are
\* all up, and no half-read E0 sequence: whatever was hit, repeated and released,
\* in which order, and however the reading was interleaved with it.  CAPSLOCK is
\* what the user made it, unless the key was held so long that it repeated (every
\* repetition toggles the flag).
NoStuckModifier ==
    kbd = <<>> /\ pc # "reboot" =>
        /\ (shift \ {"CAPSLOCK"}) \subseteq Modifiers(held)
        /\ ~twice => shift \ {"CAPSLOCK"} = Modifiers(held)
        /\ ~repeated => ("CAPSLOCK" \in shift) = caps

\* The characters that readchar returned from the queue, and those still in it,
\* are the ones the user meant when hitting the keys, in that order; the machine
\* reboots only for Ctrl+Alt+Del.  The code gives this up when two keys of one
\* modifier are down at once (the first to go up clears its flag), when Caps
\* Lock repeats, and when the queue cannot grow.
TypedIsRead ==
    ~twice /\ ~repeated /\ ~dropped =>
        /\ kbd = <<>> /\ pc # "reboot" => got \o que = wanted
        /\ pc = "reboot" => \E i \in DOMAIN wanted : wanted[i] = "reboot"

\* The milliseconds the parts of the clock stand for
Elapsed(t) == ((t.hours * SIXTY + t.minutes) * SIXTY + t.seconds) * MSECS + t.msecs

\* The clock that timer_irq_handler keeps in two ways (milliseconds from ticks,
\* the rest by carrying) is that of the interrupts so far, until ticks wraps; its
\* parts stay in their ranges (TypeOK).  time_ms gives the lower 32 bits of it, all
\* of it for the first 49.7 days.
ClockExact ==
    /\ TypeOK
    /\ pc # "timer_scan" =>
        /\ Elapsed(time) = 10 * time.ticks
        /\ time_ms(time) = (10 * time.ticks) % U32

\* What is in the queue or the receiver when readchar runs is read, although
\* neither raises an interrupt and readchar may halt right after it looked: the
\* next timer interrupt wakes it.  (Until ticks wraps around.)
InputArrives ==
    pc \notin {"keyboard_init", "reboot"} /\ (que # <<>> \/ rx # "none")
        ~> (que = <<>> /\ rx = "none") \/ pc = "timer_scan"
=============================================================================
