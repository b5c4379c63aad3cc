------------------------------ MODULE SpinLock ------------------------------
(***************************************************************************)
(* The spinlock of libs/lock.c and include/lock.h, taken by threads and,   *)
(* on the same CPU, by the interrupt handler that suspends them.           *)
(*                                                                         *)
(* spin_lock reads the counter until it is 0 and then tries the locked     *)
(* cmpxchg; read and cmpxchg are separate steps.  It does not disable      *)
(* interrupts.  Gates are interrupt gates (set_gate in kernel/irq.c), so a *)
(* handler is not interrupted itself.  A handler may take the lock too:    *)
(* irq_handler prints for faults and for interrupts nobody requested, and  *)
(* print_args takes pr_lock.                                               *)
(***************************************************************************)
EXTENDS Integers

CONSTANT CPU

Context == {"thread", "irq"}
Proc == CPU \X Context

VARIABLES
    counter,    \* lock->counter
    pc          \* where each context is; "off": no interrupt is being handled

lockVars == <<counter, pc>>

LockInit ==     \* spinlock_init
    /\ counter = 0
    /\ pc = [p \in Proc |-> IF p[2] = "thread" THEN "out" ELSE "off"]

\* A handler runs in place of the thread it interrupted.
Runs(p) == p[2] = "irq" \/ pc[<<p[1], "irq">>] = "off"

Goto(p, l) == pc' = [pc EXCEPT ![p] = l]

\* spin_lock is called
Call(p) ==
    /\ Runs(p) /\ pc[p] = "out"
    /\ Goto(p, "read") /\ UNCHANGED counter

\* while (atomic_read(lock) != 0)
ReadCounter(p) ==
    /\ Runs(p) /\ pc[p] = "read" /\ counter = 0
    /\ Goto(p, "cmpxchg") /\ UNCHANGED counter

\* mutants of Cmpxchg: a store without the comparison; the two operands swapped
PlainStore(p) ==
    /\ Runs(p) /\ pc[p] = "cmpxchg"
    /\ counter' = 1 /\ Goto(p, "in")

CmpxchgSwapped(p) ==
    /\ Runs(p) /\ pc[p] = "cmpxchg"
    /\ IF counter = 1 THEN counter' = 0 /\ Goto(p, "in")
                      ELSE counter' = counter /\ Goto(p, "read")

\* while (cmpxchg(&lock->counter, 0, 1))
Cmpxchg(p) ==
    /\ Runs(p) /\ pc[p] = "cmpxchg"
    /\ IF counter = 0 THEN counter' = 1 /\ Goto(p, "in")
                      ELSE counter' = counter /\ Goto(p, "read")

\* mutant of Unlock: the counter is not reset
UnlockForgets(p) ==
    /\ Runs(p) /\ pc[p] = "in"
    /\ Goto(p, "out") /\ UNCHANGED counter

\* spin_unlock
Unlock(p) ==
    /\ Runs(p) /\ pc[p] = "in"
    /\ counter' = 0
    /\ Goto(p, "out")

\* An interrupt arrives at CPU c; its handler returns (trapret)
Interrupt(c) ==
    /\ pc[<<c, "irq">>] = "off"
    /\ Goto(<<c, "irq">>, "out") /\ UNCHANGED counter

Return(c) ==
    /\ pc[<<c, "irq">>] = "out"
    /\ Goto(<<c, "irq">>, "off") /\ UNCHANGED counter

LockNext ==
    \/ \E p \in Proc : Call(p) \/ ReadCounter(p) \/ Cmpxchg(p) \/ Unlock(p)
    \/ \E c \in CPU : Interrupt(c) \/ Return(c)

LockSpec == LockInit /\ [][LockNext]_lockVars

\* A CPU executes the context it is in.  Interrupts come 100 times a second
\* and leave time for the thread between them: strong fairness for steps.
Fairness ==
    /\ \A p \in Proc : SF_lockVars(ReadCounter(p) \/ Cmpxchg(p) \/ Unlock(p))
    /\ \A c \in CPU : WF_lockVars(Return(c))

FairSpec == LockSpec /\ Fairness

-----------------------------------------------------------------------------
(* Properties *)

\* The counter of the lock is 0 or 1, whatever spin_lock and spin_unlock do.
LockTypeOK ==
    /\ counter \in {0, 1}
    /\ pc \in [Proc -> {"off", "out", "read", "cmpxchg", "in"}]

\* Between spin_lock and spin_unlock a context is alone, whatever interrupts
\* arrive and however the reads and cmpxchgs of several CPUs interleave.
MutualExclusion ==
    \A p, q \in Proc : pc[p] = "in" /\ pc[q] = "in" => p = q

\* A handler waits for a lock that its own CPU's thread holds.
SelfDeadlock ==
    \E c \in CPU : pc[<<c, "thread">>] = "in" /\ pc[<<c, "irq">>] = "read"

\* A lock that is taken is released, so that the waiters of spin_lock do not spin
\* forever (assert(count++ < 10000000), libs/lock.c:17), with one exception: a
\* handler that takes the lock of the thread it interrupted.
LockIsReleased == counter = 1 ~> (counter = 0 \/ SelfDeadlock)

\* A free lock somebody waits for is taken: a failed cmpxchg means that another
\* context got the lock, so the waiters cannot keep each other out.
LockIsTaken ==
    (counter = 0 /\ \E c \in CPU : pc[<<c, "thread">>] \in {"read", "cmpxchg"})
        ~> counter = 1
=============================================================================
