---------------------------- MODULE BoundedFifo -----------------------------
(***************************************************************************)
(* What a FreeRTOS queue promises to its callers: a bounded sequence of    *)
(* items.  Each operation takes effect in one step, although its caller    *)
(* may block, be woken and retry many times around that step.              *)
(***************************************************************************)
EXTENDS Naturals, Sequences

CONSTANTS Items, Length, Users

VARIABLES
    q,      \* the items, oldest first
    got     \* the item each user received or peeked at last

fifoVars == <<q, got>>

PutBack(x) == Len(q) < Length /\ q' = Append(q, x) /\ UNCHANGED got
PutFront(x) == Len(q) < Length /\ q' = <<x>> \o q /\ UNCHANGED got

\* queueOVERWRITE, legal on queues of length one only.
Overwrite(x) == Length = 1 /\ q' = <<x>> /\ UNCHANGED got

Take(u) ==
    /\ q # <<>>
    /\ q' = Tail(q)
    /\ got' = [got EXCEPT ![u] = Head(q)]

Look(u) ==
    /\ q # <<>>
    /\ got' = [got EXCEPT ![u] = Head(q)]
    /\ UNCHANGED q

\* An interrupt handler takes the oldest item.
Discard == q # <<>> /\ q' = Tail(q) /\ UNCHANGED got

\* xQueueReset.
Clear == q' = <<>> /\ UNCHANGED got

FifoInit == q = <<>> /\ got \in [Users -> Items]

FifoNext ==
    \/ \E x \in Items : PutBack(x) \/ PutFront(x) \/ Overwrite(x)
    \/ \E u \in Users : Take(u) \/ Look(u)
    \/ Discard \/ Clear

Fifo == FifoInit /\ [][FifoNext]_fifoVars
=============================================================================
