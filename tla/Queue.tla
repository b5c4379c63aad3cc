------------------------------- MODULE Queue -------------------------------
(***************************************************************************)
(* The growing ring buffer of libs/queue.c and include/queue.h.            *)
(***************************************************************************)
EXTENDS Integers, Sequences

CONSTANTS
    Value,
    Junk,           \* what fresh memory holds
    MIN_CAPACITY,
    MaxCapacity     \* bound: kmalloc fails beyond it

ASSUME CapacityAssumption ==
    /\ MIN_CAPACITY \in Nat /\ MIN_CAPACITY > 1 /\ MaxCapacity \in Nat
    /\ Junk \notin Value

VARIABLES base, front, rear, capacity, ret

vars == <<base, front, rear, capacity, ret>>

\* __queue_create
Init ==
    /\ base = [i \in 0 .. MIN_CAPACITY - 1 |-> Junk]
    /\ front = 0 /\ rear = 0
    /\ capacity = MIN_CAPACITY
    /\ ret = "ok"

queue_empty == front = rear
queue_full == (rear + 1) % capacity = front
queue_size == (rear + capacity - front) % capacity

\* mutant of __queue_expand: what had wrapped around is not copied
queue_expand_tail ==
    [i \in 0 .. 2 * capacity - 1 |->
        IF front + i < capacity /\ i < queue_size THEN base[front + i] ELSE Junk]

\* The memory __queue_expand fills: the elements from front to rear or, when they
\* wrap around, to the end of the old memory and then from its beginning.  The old
\* memory is not freed; what the kernel loses by it is not counted here.
__queue_expand ==
    LET first == IF front < rear THEN queue_size ELSE capacity - front
        second == IF front < rear THEN 0 ELSE rear
    IN  [i \in 0 .. 2 * capacity - 1 |->
            IF i < first THEN base[front + i]
            ELSE IF i < first + second THEN base[i - first]
            ELSE Junk]

\* the end of __enqueue, with memory b, rear r and capacity c
Store(v, b, r, c) ==
    /\ base' = [b EXCEPT ![r] = v]
    /\ rear' = (r + 1) % c

Enqueue(v) ==
    /\ ~queue_full
    /\ Store(v, base, rear, capacity)
    /\ ret' = "ok" /\ UNCHANGED <<front, capacity>>

EnqueueExpand(v) ==
    /\ queue_full /\ 2 * capacity <= MaxCapacity
    /\ front' = 0 /\ capacity' = 2 * capacity
    /\ Store(v, __queue_expand, queue_size, 2 * capacity)
    /\ ret' = "ok"

EnqueueNoMemory ==
    /\ queue_full
    /\ ret' = "ENOMEM" /\ UNCHANGED <<base, front, rear, capacity>>

Dequeue ==
    /\ ~queue_empty
    /\ ret' = base[front]
    /\ front' = (front + 1) % capacity
    /\ UNCHANGED <<base, rear, capacity>>

DequeueEmpty ==
    /\ queue_empty
    /\ ret' = "ENOENT" /\ UNCHANGED <<base, front, rear, capacity>>

Next ==
    \/ EnqueueNoMemory \/ Dequeue \/ DequeueEmpty
    \/ \E v \in Value : Enqueue(v) \/ EnqueueExpand(v)

Spec == Init /\ [][Next]_vars

----------------------------------------------------------------------------
(* Properties *)

\* Every variable keeps its type: the indices __enqueue and __dequeue use are
\* inside the memory, whatever the queue went through.
TypeOK ==
    /\ capacity \in Nat /\ capacity > 1
    /\ base \in [0 .. capacity - 1 -> Value \cup {Junk}]
    /\ front \in 0 .. capacity - 1 /\ rear \in 0 .. capacity - 1
    /\ ret \in Value \cup {"ok", "ENOMEM", "ENOENT"}

\* The ring implements QueueSpec: expanding it, wrapped around or not, keeps the
\* elements and their order, and a failed call changes nothing.
Abstract == INSTANCE QueueSpec WITH
    que <- [i \in 1 .. queue_size |-> base[(front + i - 1) % capacity]]
ImplementsQueue == Abstract!Spec
=============================================================================
