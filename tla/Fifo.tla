-------------------------------- MODULE Fifo --------------------------------
(***************************************************************************)
(* libs/fifo.c: a ring of bytes shared by one producer and one consumer    *)
(* that run on different CPUs and take no lock.                            *)
(*                                                                         *)
(* Each side checks the room or the fill, copies byte by byte and only     *)
(* then publishes its index, with a fence in between (smp_wmb), so the     *)
(* other side's steps fall anywhere between the check and the publication. *)
(* A byte is modelled by its place in the stream the producer sends.       *)
(***************************************************************************)
EXTENDS Integers, Sequences

CONSTANTS
    Size,       \* fifo->size
    MaxSent     \* bound: bytes the producer sends

ASSUME SizeAssumption == Size \in Nat \ {0} /\ MaxSent \in Nat

VARIABLES
    in, out,    \* fifo->in, fifo->out
    data,       \* fifo->data
    sent,       \* bytes published so far
    plen,       \* bytes of the fifo_in in flight, 0 if none
    pk,         \* how many of them are copied
    op,         \* the consumer's call in flight: "none", "out" or "peek"
    clen, ck,   \* its bytes, and how many of them are copied
    dst,        \* its buffer
    last        \* what the last finished one returned

prod == <<sent, plen, pk>>
cons == <<op, clen, ck, dst, last>>
fifoVars == <<in, out, data, sent, plen, pk, op, clen, ck, dst, last>>

Index == 0 .. Size - 1

FifoInit ==         \* fifo_init
    /\ in = 0 /\ out = 0
    /\ data = [i \in Index |-> 0]
    /\ sent = 0 /\ plen = 0 /\ pk = 0
    /\ op = "none" /\ clen = 0 /\ ck = 0
    /\ dst = [i \in Index |-> 0]
    /\ last = <<>>

fifo_len == (in + Size - out) % Size
fifo_avail == Size - 1 - fifo_len

\* fifo_in: the check.  A call that gets -ENOSPC changes nothing.
InCheck(n) ==
    /\ plen = 0 /\ fifo_avail >= n /\ sent + n <= MaxSent
    /\ plen' = n /\ pk' = 0
    /\ UNCHANGED <<in, out, data, sent, cons>>

\* fifo_copy_in: one byte; the copy wraps at the end of data
InCopy ==
    /\ pk < plen
    /\ data' = [data EXCEPT ![(in + pk) % Size] = sent + pk]
    /\ pk' = pk + 1
    /\ UNCHANGED <<in, out, sent, plen, cons>>

\* mutant of InPublish: the index is published before the bytes are copied
InPublishEarly ==
    /\ plen > 0
    /\ in' = (in + plen) % Size
    /\ sent' = sent + plen /\ plen' = 0 /\ pk' = 0
    /\ UNCHANGED <<out, data, cons>>

\* fifo_in: the index
InPublish ==
    /\ plen > 0 /\ pk = plen
    /\ in' = (in + plen) % Size
    /\ sent' = sent + plen /\ plen' = 0 /\ pk' = 0
    /\ UNCHANGED <<out, data, cons>>

\* fifo_out and fifo_out_peek: the check.  -ENOENT changes nothing.
OutCheck(n, o) ==
    /\ op = "none" /\ fifo_len >= n
    /\ op' = o /\ clen' = n /\ ck' = 0
    /\ UNCHANGED <<in, out, data, prod, dst, last>>

\* fifo_copy_out: one byte
OutCopy ==
    /\ op # "none" /\ ck < clen
    /\ dst' = [dst EXCEPT ![ck] = data[(out + ck) % Size]]
    /\ ck' = ck + 1
    /\ UNCHANGED <<in, out, data, prod, op, clen, last>>

\* mutant of OutPublish: all bytes are dropped, not only the ones returned
OutPublishAll ==
    /\ op # "none" /\ ck = clen
    /\ out' = IF op = "out" THEN in ELSE out
    /\ last' = [k \in 1 .. clen |-> dst[k - 1]]
    /\ op' = "none" /\ clen' = 0 /\ ck' = 0
    /\ dst' = [i \in Index |-> 0]
    /\ UNCHANGED <<in, data, prod>>

\* fifo_out: the index; fifo_out_peek leaves it
OutPublish ==
    /\ op # "none" /\ ck = clen
    /\ out' = IF op = "out" THEN (out + clen) % Size ELSE out
    /\ last' = [k \in 1 .. clen |-> dst[k - 1]]
    /\ op' = "none" /\ clen' = 0 /\ ck' = 0
    /\ dst' = [i \in Index |-> 0]
    /\ UNCHANGED <<in, data, prod>>

fifo_skip(n) ==
    /\ op = "none" /\ fifo_len >= n
    /\ out' = (out + n) % Size
    /\ UNCHANGED <<in, data, prod, cons>>

Producer == InCopy \/ InPublish \/ \E n \in 1 .. Size : InCheck(n)
Consumer ==
    \/ OutCopy \/ OutPublish
    \/ \E n \in 1 .. Size : OutCheck(n, "out") \/ OutCheck(n, "peek") \/ fifo_skip(n)

FifoNext == Producer \/ Consumer

FifoRingSpec == FifoInit /\ [][FifoNext]_fifoVars

-----------------------------------------------------------------------------
(* Properties *)

\* Both indices stay inside the ring and a call in flight asks for less than
\* its size (fifo_in, fifo_out).
FifoTypeOK ==
    /\ in \in Index /\ out \in Index
    /\ data \in [Index -> Nat]
    /\ sent \in Nat /\ plen \in Index /\ pk \in 0 .. plen
    /\ op \in {"none", "out", "peek"} /\ clen \in Index /\ ck \in 0 .. clen
    /\ dst \in [Index -> Nat]
    /\ last \in Seq(Nat)

\* The bytes fifo_copy_in is writing and the bytes the consumer may read are
\* different: the room and the fill each side checked still suffice when it
\* copies, although the other index has moved since.
NoOverrun ==
    /\ fifo_len + plen <= Size - 1
    /\ clen <= fifo_len

\* Every byte between out and in is the byte of the stream that belongs there,
\* and so is every byte the consumer has copied so far: none is lost, repeated,
\* reordered or read half-written.
StreamIntact ==
    /\ \A k \in 0 .. Size - 1 :
         k < fifo_len => data[(out + k) % Size] = sent - fifo_len + k
    /\ \A k \in 0 .. Size - 1 :
         k < pk => data[(in + k) % Size] = sent + k
    /\ \A k \in 0 .. Size - 1 :
         k < ck => dst[k] = sent - fifo_len + k

\* The ring implements the bounded queue: a fifo_in takes effect when it
\* publishes in, a fifo_out when it publishes out.
AbstractFifo == INSTANCE FifoSpec WITH
    Capacity <- Size - 1,
    queue <- [k \in 1 .. fifo_len |-> data[(out + k - 1) % Size]]

ImplementsFifo == AbstractFifo!SSpec
=============================================================================
