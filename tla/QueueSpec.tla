----------------------------- MODULE QueueSpec -----------------------------
(***************************************************************************)
(* What libs/queue.c promises: a queue without a limit, except that an     *)
(* insertion may fail for lack of memory and then changes nothing.         *)
(***************************************************************************)
EXTENDS Sequences

CONSTANT Value

VARIABLES
    que,    \* the values in the queue, oldest first
    ret     \* the answer of the last call

Init == que = <<>> /\ ret = "ok"

Enqueue(v) == que' = Append(que, v) /\ ret' = "ok"
EnqueueFails == ret' = "ENOMEM" /\ UNCHANGED que
Dequeue == que # <<>> /\ ret' = Head(que) /\ que' = Tail(que)
DequeueFails == que = <<>> /\ ret' = "ENOENT" /\ UNCHANGED que

Next == EnqueueFails \/ Dequeue \/ DequeueFails \/ \E v \in Value : Enqueue(v)

Spec == Init /\ [][Next]_<<que, ret>>
=============================================================================
