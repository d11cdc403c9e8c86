----------------------------- MODULE RingBuffer -----------------------------
(***************************************************************************)
(* The lock-free single-producer single-consumer ring of                   *)
(* r4w-core/src/rt/ringbuffer.rs.  Each call is the sequence of its        *)
(* accesses to shared memory: load the other side's counter, access the    *)
(* slots one by one, publish the own counter.  The load of the other       *)
(* side's counter may return an old value (nothing orders it before the    *)
(* other thread's later stores), but never one older than this thread has  *)
(* already seen.  head and tail are usize counters that wrap at Modulus.   *)
(***************************************************************************)
EXTENDS Integers, Sequences

CONSTANTS
    Requested,    \* the capacity given to new()
    Width,        \* bits of a usize
    MaxItems,     \* bound: items handed over in a behaviour
    MaxBatch,     \* bound: length of a slice
    ProducerOps,  \* the calls the producer makes
    ConsumerOps   \* the calls the consumer makes

Modulus == 2^Width

MaxOf(a, b) == IF a >= b THEN a ELSE b
MinOf(a, b) == IF a <= b THEN a ELSE b

\* capacity.max(2).next_power_of_two()
Capacity ==
    LET enough == {k \in 1..Width : 2^k >= MaxOf(Requested, 2)}
    IN  2^(CHOOSE k \in enough : \A j \in enough : k <= j)

AllProducerOps == {"push", "try_push", "push_slice", "push_slice_blocking"}
AllConsumerOps == {"pop", "pop_slice", "pop_slice_blocking"}

\* next_power_of_two must fit a usize: the request is at most half its range.
ASSUME SizeAssumption ==
    /\ Capacity \in Nat /\ Capacity >= 2
    /\ Modulus \in Nat
    /\ \E k \in 2..Modulus : Modulus = k * Capacity

ASSUME BoundsAssumption ==
    /\ MaxItems \in Nat /\ MaxBatch \in Nat \ {0}
    /\ ProducerOps \subseteq AllProducerOps
    /\ ConsumerOps \subseteq AllConsumerOps

VARIABLES
    head, tail,  \* the counters
    buffer,      \* slot -> number of the item in it, 0 if never written
    pPc, pOp,    \* the producer's program point and call
    pTail,       \* the newest value of tail the producer has loaded
    pRem,        \* items of the call not yet published
    pCount,      \* items of the batch being written
    pDone,       \* items of the batch already written
    cPc, cOp,    \* the consumer's program point and call
    cHead,       \* the newest value of head the consumer has loaded
    cRem,        \* room left in the caller's slice
    cCount,      \* items of the batch being read
    cOut,        \* values read from the slots by the current batch
    sent,        \* number of items published so far
    received,    \* history: the values returned to the consumer
    alive        \* FALSE once the ring was dropped

shared == <<head, tail, buffer>>
pVars  == <<pPc, pOp, pTail, pRem, pCount, pDone>>
cVars  == <<cPc, cOp, cHead, cRem, cCount, cOut>>
vars   == <<shared, pVars, cVars, sent, received, alive>>

Counters == 0..(Modulus - 1)
Slots    == 0..(Capacity - 1)

\* Mutant: a plain addition that does not wrap.
PlainAdd(a, n) == a + n

\* wrapping_add and wrapping_sub of two usize values, and index & mask
WAdd(a, n) == IF a + n >= Modulus THEN a + n - Modulus ELSE a + n
WSub(a, b) == IF a >= b THEN a - b ELSE a - b + Modulus
Slot(i)    == i % Capacity

\* The values a load of the other side's counter may return.
Between(seen, now) == {c \in Counters : WSub(c, seen) <= WSub(now, seen)}

Init ==
    /\ head = 0 /\ tail = 0
    /\ buffer = [s \in Slots |-> 0]
    /\ pPc = "idle" /\ pOp = "none"
    /\ pTail = 0 /\ pRem = 0 /\ pCount = 0 /\ pDone = 0
    /\ cPc = "idle" /\ cOp = "none"
    /\ cHead = 0 /\ cRem = 0 /\ cCount = 0 /\ cOut = <<>>
    /\ sent = 0 /\ received = <<>> /\ alive = TRUE

-----------------------------------------------------------------------------
(* The producer *)

PStart(op, n) ==
    /\ alive /\ pPc = "idle"
    /\ op \in {"push", "try_push"} => n = 1
    /\ sent + n <= MaxItems
    /\ pPc' = "load" /\ pOp' = op /\ pRem' = n
    /\ UNCHANGED <<shared, pTail, pCount, pDone, cVars, sent, received, alive>>

\* What a load of tail that makes room for free items leads to: with no room,
\* push and push_slice return, the blocking call spins, and try_push reaches
\* its unreachable!() arm.
PLoaded(t, free) ==
    LET count == MinOf(pRem, free)
    IN  /\ pPc = "load"
        /\ pTail' = t
        /\ pPc' = CASE count > 0                  -> "write"
                    [] count = 0 /\ pOp = "push_slice_blocking" -> "load"
                    [] count = 0 /\ pOp = "try_push"            -> "panicked"
                    [] OTHER                      -> "idle"
        /\ pCount' = count /\ pDone' = 0
        /\ UNCHANGED <<shared, pOp, pRem, cVars, sent, received, alive>>

\* Mutants: room is not checked; one item too many fits.
PLoadUnchecked(t) == PLoaded(t, pRem)
PLoadOneMore(t) == PLoaded(t, Capacity - WSub(head, t) + 1)
PLoad(t) == PLoaded(t, Capacity - WSub(head, t))

\* Mutant: the offset in the batch is forgotten.
PWriteFirstSlot ==
    /\ pPc = "write" /\ pDone < pCount
    /\ buffer' = [buffer EXCEPT ![Slot(head)] = sent + pDone + 1]
    /\ pDone' = pDone + 1
    /\ UNCHANGED <<head, tail, pPc, pOp, pTail, pRem, pCount, cVars, sent, received, alive>>

PWrite ==
    /\ pPc = "write" /\ pDone < pCount
    /\ buffer' = [buffer EXCEPT ![Slot(WAdd(head, pDone))] = sent + pDone + 1]
    /\ pDone' = pDone + 1
    /\ UNCHANGED <<head, tail, pPc, pOp, pTail, pRem, pCount, cVars, sent, received, alive>>

\* Mutant: head advances by what was asked, not by what fitted.
PPublishAsked ==
    /\ pPc = "write" /\ pDone = pCount
    /\ head' = WAdd(head, pRem)
    /\ sent' = sent + pCount
    /\ pRem' = pRem - pCount
    /\ pPc' = IF pOp = "push_slice_blocking" /\ pRem > pCount THEN "load" ELSE "idle"
    /\ pCount' = 0 /\ pDone' = 0
    /\ UNCHANGED <<tail, buffer, pOp, pTail, cVars, received, alive>>

PPublish ==
    /\ pPc = "write" /\ pDone = pCount
    /\ head' = WAdd(head, pCount)
    /\ sent' = sent + pCount
    /\ pRem' = pRem - pCount
    /\ pPc' = IF pOp = "push_slice_blocking" /\ pRem > pCount THEN "load" ELSE "idle"
    /\ pCount' = 0 /\ pDone' = 0
    /\ UNCHANGED <<tail, buffer, pOp, pTail, cVars, received, alive>>

\* len() between two calls, for is_full and free_space.
PLen(t) ==
    /\ alive /\ pPc = "idle"
    /\ pTail' = t
    /\ UNCHANGED <<shared, pPc, pOp, pRem, pCount, pDone, cVars, sent, received, alive>>

Producer ==
    \/ \E op \in ProducerOps, n \in 1..MaxBatch : PStart(op, n)
    \/ \E t \in Between(pTail, tail) : PLoad(t) \/ PLen(t)
    \/ PWrite
    \/ PPublish

-----------------------------------------------------------------------------
(* The consumer *)

CStart(op, n) ==
    /\ alive /\ cPc = "idle"
    /\ op = "pop" => n = 1
    /\ op = "pop_slice_blocking" => Len(received) + n <= MaxItems
    /\ cPc' = "load" /\ cOp' = op /\ cRem' = n
    /\ UNCHANGED <<shared, pVars, cHead, cCount, cOut, sent, received, alive>>

CLoaded(h) ==
    LET count == MinOf(cRem, WSub(h, tail))
    IN  /\ cPc = "load"
        /\ cHead' = h
        /\ cPc' = CASE count > 0 -> "read"
                    [] count = 0 /\ cOp = "pop_slice_blocking" -> "load"
                    [] OTHER     -> "idle"
        /\ cCount' = count /\ cOut' = <<>>
        /\ UNCHANGED <<shared, pVars, cOp, cRem, sent, received, alive>>

\* Mutant: head is loaded only before the first turn of the spin.
CLoadCached(h) == CLoaded(cHead)

CLoad(h) == CLoaded(h)

CRead ==
    /\ cPc = "read" /\ Len(cOut) < cCount
    /\ cOut' = Append(cOut, buffer[Slot(WAdd(tail, Len(cOut)))])
    /\ UNCHANGED <<shared, pVars, cPc, cOp, cHead, cRem, cCount, sent, received, alive>>

\* Mutant: tail advances by what was asked, not by what was there.
CPublishAsked ==
    /\ cPc = "read" /\ Len(cOut) = cCount
    /\ tail' = WAdd(tail, cRem)
    /\ received' = received \o cOut
    /\ cRem' = cRem - cCount
    /\ cPc' = IF cOp = "pop_slice_blocking" /\ cRem > cCount THEN "load" ELSE "idle"
    /\ cCount' = 0 /\ cOut' = <<>>
    /\ UNCHANGED <<head, buffer, pVars, cOp, cHead, sent, alive>>

CPublish ==
    /\ cPc = "read" /\ Len(cOut) = cCount
    /\ tail' = WAdd(tail, cCount)
    /\ received' = received \o cOut
    /\ cRem' = cRem - cCount
    /\ cPc' = IF cOp = "pop_slice_blocking" /\ cRem > cCount THEN "load" ELSE "idle"
    /\ cCount' = 0 /\ cOut' = <<>>
    /\ UNCHANGED <<head, buffer, pVars, cOp, cHead, sent, alive>>

\* len() between two calls, for is_empty.
CLen(h) ==
    /\ alive /\ cPc = "idle"
    /\ cHead' = h
    /\ UNCHANGED <<shared, pVars, cPc, cOp, cRem, cCount, cOut, sent, received, alive>>

Consumer ==
    \/ \E op \in ConsumerOps, n \in 1..MaxBatch : CStart(op, n)
    \/ \E h \in Between(cHead, head) : CLoad(h) \/ CLen(h)
    \/ CRead
    \/ CPublish

-----------------------------------------------------------------------------
\* Dropping the ring needs exclusive access: neither thread is in a call (a
\* panicked producer has unwound).  The loop pops whatever is left.
Drop ==
    /\ alive
    /\ pPc \in {"idle", "panicked"} /\ cPc = "idle"
    /\ alive' = FALSE
    /\ tail' = head
    /\ UNCHANGED <<head, buffer, pVars, cVars, sent, received>>

Next == Producer \/ Consumer \/ Drop

Spec == Init /\ [][Next]_vars

(***************************************************************************)
(* Both threads keep running, stores become visible (a load that is tried  *)
(* again and again sees the newest value sometime), and, as the comments   *)
(* of the blocking calls demand, the other side keeps calling.             *)
(***************************************************************************)
Fairness ==
    /\ WF_vars(\E op \in ProducerOps, n \in 1..MaxBatch : PStart(op, n))
    /\ WF_vars(\E op \in ConsumerOps, n \in 1..MaxBatch : CStart(op, n))
    /\ SF_vars(PLoad(tail)) /\ WF_vars(PWrite) /\ WF_vars(PPublish)
    /\ SF_vars(CLoad(head)) /\ WF_vars(CRead) /\ WF_vars(CPublish)

FairSpec == Spec /\ Fairness

-----------------------------------------------------------------------------
(* Properties *)

TypeOK ==
    /\ head \in Counters /\ tail \in Counters
    /\ buffer \in [Slots -> Nat]
    /\ pPc \in {"idle", "load", "write", "panicked"} /\ pOp \in ProducerOps \cup {"none"}
    /\ pTail \in Counters /\ pRem \in Nat
    /\ pCount \in 0..Capacity /\ pDone \in 0..pCount
    /\ cPc \in {"idle", "load", "read"} /\ cOp \in ConsumerOps \cup {"none"}
    /\ cHead \in Counters /\ cRem \in Nat
    /\ cCount \in 0..Capacity /\ cOut \in Seq(Nat) /\ Len(cOut) <= cCount
    /\ sent \in Nat /\ received \in Seq(Nat) /\ alive \in BOOLEAN

Used == WSub(head, tail)

\* The counters never drift: what head and tail say is waiting is what was
\* published and not yet returned, and it fits the ring (across the wrap of
\* the counters, under any staleness of the loads).
CountersAgree ==
    /\ Used <= Capacity
    /\ alive => sent = Len(received) + Used

\* A thread's last load of the other counter errs on the safe side: the
\* producer never believes in more room, the consumer never in more items,
\* than there are.
ConservativeViews ==
    alive => /\ WSub(tail, pTail) + Used <= Capacity
             /\ WSub(cHead, tail) <= Used

\* Every published slot that was not returned yet still holds its item: a
\* batch being written never lands on it.
UnreadIntact ==
    alive => \A k \in 0..(Capacity - 1) :
                k < Used => buffer[Slot(WAdd(tail, k))] = Len(received) + k + 1

\* The consumer gets the items in the order of the calls that pushed them,
\* each of them once.
DeliveredInOrder == \A i \in 1..Len(received) : received[i] = i

\* The slot a producer is about to write is never one the consumer is about
\* to read: the accesses to the UnsafeCells do not race.
NoSlotRace ==
    (pPc = "write" /\ pDone < pCount /\ cPc = "read" /\ Len(cOut) < cCount)
        => Slot(WAdd(head, pDone)) # Slot(WAdd(tail, Len(cOut)))

\* The ring implements the bounded FIFO.
Fifo == INSTANCE BoundedFifo WITH
    queue     <- [k \in 1..Used |-> buffer[Slot(WAdd(tail, k - 1))]],
    delivered <- received,
    open      <- alive

ImplementsFifo == Fifo!Spec

\* A blocking push returns while the consumer keeps draining, a blocking pop
\* while the producer keeps filling, unless it panics.
BlockingCallsReturn ==
    /\ (pPc = "load" /\ pOp = "push_slice_blocking") ~> pPc = "idle"
    /\ (cPc = "load" /\ cOp = "pop_slice_blocking") ~> (cPc = "idle" \/ pPc = "panicked")

=============================================================================
