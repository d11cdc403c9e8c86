---------------------------- MODULE BoundedFifo ----------------------------
(***************************************************************************)
(* What a single-producer single-consumer stream buffer promises: items    *)
(* leave in the order they entered, each of them once, never more than     *)
(* Capacity of them wait, and what is still waiting when the buffer is     *)
(* dropped is discarded exactly then.  Batches enter and leave at once.    *)
(* Items are numbered in the order of the calls that hand them over.       *)
(***************************************************************************)
EXTENDS Naturals, Sequences

CONSTANT Capacity

VARIABLES
    queue,      \* the items waiting, oldest first
    delivered,  \* every item handed to the consumer so far
    open        \* FALSE once the buffer was dropped

vars == <<queue, delivered, open>>

Accepted == Len(delivered) + Len(queue)

Init ==
    /\ queue = <<>>
    /\ delivered = <<>>
    /\ open = TRUE

\* The next n items are accepted as one batch.
Put(n) ==
    /\ open
    /\ Len(queue) + n <= Capacity
    /\ queue' = queue \o [i \in 1..n |-> Accepted + i]
    /\ UNCHANGED <<delivered, open>>

\* The n oldest items are delivered as one batch.
Take(n) ==
    /\ open
    /\ n <= Len(queue)
    /\ delivered' = delivered \o SubSeq(queue, 1, n)
    /\ queue' = SubSeq(queue, n + 1, Len(queue))
    /\ UNCHANGED open

Discard ==
    /\ open
    /\ open' = FALSE
    /\ queue' = <<>>
    /\ UNCHANGED delivered

Next ==
    \/ \E n \in 1..Capacity : Put(n) \/ Take(n)
    \/ Discard

Spec == Init /\ [][Next]_vars
=============================================================================
