------------------------------ MODULE FifoSpec ------------------------------
(***************************************************************************)
(* What a fifo promises to its one producer and its one consumer: a        *)
(* bounded queue of bytes.  fifo_in adds its bytes in one step or not at   *)
(* all; fifo_out, fifo_out_peek and fifo_skip see the oldest bytes.        *)
(***************************************************************************)
EXTENDS Integers, Sequences

CONSTANTS Capacity, MaxSent

VARIABLES
    queue,  \* the bytes in the fifo, oldest first
    sent,   \* how many bytes were put in; byte number k of the stream is k
    last    \* what the last fifo_out or fifo_out_peek returned

svars == <<queue, sent, last>>

SInit == queue = <<>> /\ sent = 0 /\ last = <<>>

Put(n) ==
    /\ Len(queue) + n <= Capacity /\ sent + n <= MaxSent
    /\ queue' = queue \o [k \in 1 .. n |-> sent + k - 1]
    /\ sent' = sent + n
    /\ UNCHANGED last

Get(n) ==
    /\ n <= Len(queue)
    /\ last' = SubSeq(queue, 1, n)
    /\ queue' = SubSeq(queue, n + 1, Len(queue))
    /\ UNCHANGED sent

Peek(n) ==
    /\ n <= Len(queue)
    /\ last' = SubSeq(queue, 1, n)
    /\ UNCHANGED <<queue, sent>>

Skip(n) ==
    /\ n <= Len(queue)
    /\ queue' = SubSeq(queue, n + 1, Len(queue))
    /\ UNCHANGED <<sent, last>>

SNext == \E n \in 1 .. Capacity : Put(n) \/ Get(n) \/ Peek(n) \/ Skip(n)

SSpec == SInit /\ [][SNext]_svars
=============================================================================
