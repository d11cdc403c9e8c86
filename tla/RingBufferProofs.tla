-------------------------- MODULE RingBufferProofs --------------------------
(***************************************************************************)
(* Proofs about RingBuffer for every capacity, every width of the counters *)
(* and any number of items: type correctness, that the counters agree with *)
(* what was sent and received, that unread slots stay intact, that the two *)
(* threads never access one slot at a time, and that items are delivered   *)
(* in order.                                                               *)
(***************************************************************************)
EXTENDS RingBuffer, SequenceTheorems, TLAPS

-----------------------------------------------------------------------------
(* Counters and slots *)

LEMMA SizeFacts ==
    /\ Capacity \in Nat /\ Capacity >= 2
    /\ Modulus \in Nat /\ Modulus >= 2 * Capacity
<1>1. /\ Capacity \in Nat /\ Capacity >= 2 /\ Modulus \in Nat
      /\ \E k \in 2..Modulus : Modulus = k * Capacity
  BY SizeAssumption
<1>2. PICK k \in 2..Modulus : Modulus = k * Capacity
  BY <1>1
<1>3. k \in Nat /\ k >= 2
  BY <1>1
<1>4. ASSUME NEW c \in Nat, NEW n \in Nat, n >= 2
      PROVE  n * c >= 2 * c
  BY <1>4
<1> QED  BY <1>1, <1>2, <1>3, <1>4

\* No multiple of n lies strictly between 0 and n.
LEMMA NoMultipleBetween ==
    ASSUME NEW n \in Nat, n > 0, NEW m \in Int
    PROVE  ~(0 < n * m /\ n * m < n)
<1>1. CASE m <= 0
  <2>1. n * m <= 0
    BY <1>1
  <2> QED  BY <2>1
<1>2. CASE m >= 1
  <2>1. n * m >= n
    BY <1>2
  <2> QED  BY <2>1
<1> QED  BY <1>1, <1>2

LEMMA SlotIsASlot ==
    ASSUME NEW a \in Nat
    PROVE  Slot(a) \in Slots
  BY SizeFacts DEF Slot, Slots

\* Two positions less than a capacity apart have different slots, also when
\* the counter wraps between them.
LEMMA NearSlotsDiffer ==
    ASSUME NEW a \in Counters, NEW b \in Counters,
           0 < WSub(a, b), WSub(a, b) < Capacity
    PROVE  Slot(a) # Slot(b)
<1> DEFINE C == Capacity
           qa == a \div C
           qb == b \div C
<1>1. C \in Nat /\ C > 0 /\ a \in Nat /\ b \in Nat
  BY SizeFacts DEF Counters
<1>2. PICK k \in 2..Modulus : Modulus = k * C
  BY SizeAssumption
<1>3. k \in Int
  BY SizeFacts
<1>4. SUFFICES ASSUME (a % C) = (b % C)
               PROVE  FALSE
  BY DEF Slot
<1>5. /\ qa \in Int /\ qb \in Int
      /\ a = C * qa + (a % C)
      /\ b = C * qb + (b % C)
      /\ (a % C) \in Int /\ (b % C) \in Int
  BY <1>1
<1> HIDE DEF C, qa, qb
<1>6. a - b = C * (qa - qb)
  BY <1>1, <1>4, <1>5
<1>7. CASE a >= b
  <2>1. WSub(a, b) = C * (qa - qb)
    BY <1>6, <1>7 DEF WSub
  <2> QED  BY <1>1, <1>5, <2>1, NoMultipleBetween DEF C
<1>8. CASE ~(a >= b)
  <2>1. WSub(a, b) = C * (qa - qb) + k * C
    BY <1>1, <1>2, <1>6, <1>8 DEF WSub
  <2>2. C * (qa - qb) + k * C = C * (qa - qb + k)
    BY <1>1, <1>3, <1>5
  <2>3. qa - qb + k \in Int
    BY <1>3, <1>5
  <2> QED  BY <1>1, <2>1, <2>2, <2>3, NoMultipleBetween DEF C
<1> QED  BY <1>7, <1>8

LEMMA CounterArithmetic ==
    /\ \A a \in Counters, n \in 0..Capacity : WAdd(a, n) \in Counters
    /\ \A a, b \in Counters : WSub(a, b) \in Nat
    /\ \A a \in Counters : a \in Nat
    /\ \A a \in Counters, n \in 0..Capacity : WSub(WAdd(a, n), a) = n
    /\ \A a \in Counters, m, n \in 0..Capacity :
            m + n <= Capacity => WAdd(WAdd(a, m), n) = WAdd(a, m + n)
    /\ \A a, b \in Counters : WSub(a, b) <= Capacity => a = WAdd(b, WSub(a, b))
    /\ \A a \in Counters, i, j \in 0..Capacity :
            i <= j => WSub(WAdd(a, j), WAdd(a, i)) = j - i
  BY SizeFacts DEF Counters, WAdd, WSub

\* A counter that advances by n loses n of its distance to one ahead of it,
\* and gains n on one behind it.
LEMMA BatchArithmetic ==
    /\ \A a, b \in Counters, n \in 0..Capacity :
            n <= WSub(b, a) => WSub(b, WAdd(a, n)) = WSub(b, a) - n
    /\ \A a, b \in Counters, n \in 0..Capacity :
            WSub(a, b) + n <= Capacity => WSub(WAdd(a, n), b) = WSub(a, b) + n
  BY SizeFacts DEF Counters, WAdd, WSub

\* The slots of the Capacity positions from a counter on are all different.
LEMMA WindowSlotsDiffer ==
    ASSUME NEW a \in Counters, NEW i \in 0..(Capacity - 1), NEW j \in 0..(Capacity - 1),
           i # j
    PROVE  Slot(WAdd(a, i)) # Slot(WAdd(a, j))
<1>1. /\ i \in 0..Capacity /\ j \in 0..Capacity
      /\ WAdd(a, i) \in Counters /\ WAdd(a, j) \in Counters
  BY SizeFacts, CounterArithmetic
<1>2. CASE i < j
  <2>1. WSub(WAdd(a, j), WAdd(a, i)) = j - i
    BY <1>1, <1>2, CounterArithmetic
  <2>2. 0 < j - i /\ j - i < Capacity
    BY <1>2, SizeFacts
  <2> QED  BY <1>1, <2>1, <2>2, NearSlotsDiffer
<1>3. CASE j < i
  <2>1. WSub(WAdd(a, i), WAdd(a, j)) = i - j
    BY <1>1, <1>3, CounterArithmetic
  <2>2. 0 < i - j /\ i - j < Capacity
    BY <1>3, SizeFacts
  <2> QED  BY <1>1, <2>1, <2>2, NearSlotsDiffer
<1> QED  BY <1>2, <1>3, SizeFacts

-----------------------------------------------------------------------------
(* The inductive invariant *)

\* Where the threads are, and what the loads they act on still guarantee: the
\* batch in progress fits behind what is waiting, or is part of it.
Views ==
    /\ pPc \in {"load", "write"} => alive
    /\ cPc # "idle" => alive
    /\ pPc # "write" => pCount = 0
    /\ pPc = "write" => pCount >= 1 /\ pCount <= pRem
    /\ cPc # "read" => cCount = 0
    /\ cPc = "read" => cCount >= 1 /\ cCount <= cRem
    /\ alive => /\ WSub(tail, pTail) + Used + pCount <= Capacity
                /\ cCount <= WSub(cHead, tail)

\* The positions from tail on hold the items after the last one received, as
\* far as they are published or already written by the batch in progress.
Contents ==
    alive => \A k \in 0..(Capacity - 1) :
                k < Used + pDone => buffer[Slot(WAdd(tail, k))] = Len(received) + k + 1

\* What the batch being read has taken from the slots.
Taken == \A i \in 1..Len(cOut) : cOut[i] = Len(received) + i

IInv ==
    /\ TypeOK /\ CountersAgree /\ ConservativeViews /\ Views
    /\ Contents /\ Taken /\ DeliveredInOrder

LEMMA InitEstablishes == Init => IInv
<1> SUFFICES ASSUME Init
             PROVE  IInv
  OBVIOUS
<1> USE SizeFacts DEF Init
<1>1. TypeOK
  BY DEF TypeOK, Counters
<1>2. Used = 0 /\ WSub(tail, pTail) = 0 /\ WSub(cHead, tail) = 0
  BY DEF Used, WSub
<1>3. CountersAgree /\ ConservativeViews /\ Views
  BY <1>2 DEF CountersAgree, ConservativeViews, Views
<1>4. Contents /\ Taken /\ DeliveredInOrder
  BY <1>2 DEF Contents, Taken, DeliveredInOrder
<1> QED  BY <1>1, <1>3, <1>4 DEF IInv

\* What an action that touches neither the counters nor the slots keeps.
LEMMA PStartPreserves ==
    ASSUME IInv, NEW op \in ProducerOps, NEW n \in 1..MaxBatch, PStart(op, n)
    PROVE  IInv'
<1> USE SizeFacts, BoundsAssumption DEF PStart, shared, cVars, IInv
<1>1. n \in Nat
  OBVIOUS
<1>2. TypeOK'
  BY <1>1 DEF TypeOK
<1>3. CountersAgree' /\ ConservativeViews' /\ Views'
  BY DEF CountersAgree, ConservativeViews, Views, Used
<1>4. Contents' /\ Taken' /\ DeliveredInOrder'
  BY DEF Contents, Taken, DeliveredInOrder, Used
<1> QED  BY <1>2, <1>3, <1>4

LEMMA CStartPreserves ==
    ASSUME IInv, NEW op \in ConsumerOps, NEW n \in 1..MaxBatch, CStart(op, n)
    PROVE  IInv'
<1> USE SizeFacts, BoundsAssumption DEF CStart, shared, pVars, IInv
<1>1. n \in Nat
  OBVIOUS
<1>2. TypeOK'
  BY <1>1 DEF TypeOK
<1>3. CountersAgree' /\ ConservativeViews' /\ Views'
  BY DEF CountersAgree, ConservativeViews, Views, Used
<1>4. Contents' /\ Taken' /\ DeliveredInOrder'
  BY DEF Contents, Taken, DeliveredInOrder, Used
<1> QED  BY <1>2, <1>3, <1>4

LEMMA PLoadPreserves ==
    ASSUME IInv, NEW t \in Between(pTail, tail), PLoad(t)
    PROVE  IInv'
<1> USE SizeFacts DEF IInv
<1> DEFINE free  == Capacity - WSub(head, t)
           count == MinOf(pRem, free)
<1>1. /\ head \in Counters /\ tail \in Counters /\ pTail \in Counters /\ t \in Counters
      /\ WSub(t, pTail) <= WSub(tail, pTail) /\ pRem \in Nat
  BY DEF TypeOK, Between
<1>2. alive /\ pPc = "load" /\ pCount = 0 /\ pDone = 0
  BY DEF PLoad, PLoaded, Views, TypeOK
<1>3. Used <= Capacity /\ WSub(tail, pTail) + Used <= Capacity
  BY <1>2 DEF CountersAgree, ConservativeViews
\* The load is newer than the last one, and what is in front of it less.
<1>4. WSub(tail, t) + Used = WSub(head, t) /\ WSub(tail, t) + Used <= Capacity
  BY <1>1, <1>3 DEF Used, WSub, Counters
<1>5. /\ count \in 0..Capacity /\ count <= pRem
      /\ WSub(tail, t) + Used + count <= Capacity
  <2>1. WSub(head, t) \in Nat /\ WSub(head, t) <= Capacity
    BY <1>1, <1>4, CounterArithmetic
  <2>2. free \in 0..Capacity
    BY <2>1
  <2>3. count \in 0..Capacity /\ count <= pRem /\ count <= free
    BY <1>1, <2>2 DEF MinOf
  <2> QED  BY <1>4, <2>1, <2>3
<1>6. /\ pTail' = t /\ pCount' = count /\ pDone' = 0
      /\ pPc' \in {"idle", "load", "write", "panicked"}
      /\ pPc' = "write" <=> count > 0
      /\ UNCHANGED <<head, tail, buffer, pOp, pRem, cPc, cOp, cHead, cRem, cCount, cOut,
                     sent, received, alive>>
  BY <1>5 DEF PLoad, PLoaded, shared, cVars
<1> HIDE DEF count, free
<1>7. TypeOK'
  BY <1>1, <1>5, <1>6 DEF TypeOK
<1>8. CountersAgree' /\ ConservativeViews'
  BY <1>4, <1>6 DEF CountersAgree, ConservativeViews, Used
<1>9. Views'
  BY <1>2, <1>5, <1>6 DEF Views, Used
<1>10. Contents' /\ Taken' /\ DeliveredInOrder'
  BY <1>2, <1>6 DEF Contents, Taken, DeliveredInOrder, Used
<1> QED  BY <1>7, <1>8, <1>9, <1>10

LEMMA PLenPreserves ==
    ASSUME IInv, NEW t \in Between(pTail, tail), PLen(t)
    PROVE  IInv'
<1> USE SizeFacts DEF IInv
<1>1. /\ head \in Counters /\ tail \in Counters /\ pTail \in Counters /\ t \in Counters
      /\ WSub(t, pTail) <= WSub(tail, pTail)
  BY DEF TypeOK, Between
<1>2. alive /\ pPc = "idle" /\ pCount = 0
  BY DEF PLen, Views
<1>3. Used <= Capacity /\ WSub(tail, pTail) + Used <= Capacity
  BY <1>2 DEF CountersAgree, ConservativeViews
<1>4. WSub(tail, t) + Used <= Capacity
  BY <1>1, <1>3 DEF Used, WSub, Counters
<1>5. WSub(tail, t) \in Nat /\ Used \in Nat
  BY <1>1, CounterArithmetic DEF Used
<1>6. /\ pTail' = t
      /\ UNCHANGED <<head, tail, buffer, pPc, pOp, pRem, pCount, pDone, cPc, cOp, cHead,
                     cRem, cCount, cOut, sent, received, alive>>
  BY DEF PLen, shared, cVars
<1>7. TypeOK'
  BY <1>1, <1>6 DEF TypeOK
<1>8. CountersAgree' /\ ConservativeViews' /\ Views'
  BY <1>2, <1>4, <1>5, <1>6 DEF CountersAgree, ConservativeViews, Views, Used
<1>9. Contents' /\ Taken' /\ DeliveredInOrder'
  BY <1>6 DEF Contents, Taken, DeliveredInOrder, Used
<1> QED  BY <1>7, <1>8, <1>9

LEMMA PWritePreserves ==
    ASSUME IInv, PWrite
    PROVE  IInv'
<1> USE SizeFacts DEF IInv
<1> DEFINE p == Used + pDone
<1>1. /\ pPc = "write" /\ pDone < pCount /\ alive
      /\ pDone' = pDone + 1
      /\ buffer' = [buffer EXCEPT ![Slot(WAdd(head, pDone))] = sent + pDone + 1]
      /\ UNCHANGED <<head, tail, pPc, pOp, pTail, pRem, pCount, cPc, cOp, cHead, cRem,
                     cCount, cOut, sent, received, alive>>
  BY DEF PWrite, cVars, Views
<1>2. /\ head \in Counters /\ tail \in Counters /\ pTail \in Counters
      /\ pDone \in 0..pCount /\ pCount \in 0..Capacity /\ sent \in Nat
      /\ buffer \in [Slots -> Nat] /\ Len(received) \in Nat
  BY DEF TypeOK
<1>3. Used \in Nat /\ WSub(tail, pTail) \in Nat
  BY <1>2, CounterArithmetic DEF Used
<1>4. Used + pCount <= Capacity
  BY <1>1, <1>2, <1>3 DEF Views
<1>5. p \in 0..(Capacity - 1) /\ Used \in 0..Capacity /\ pDone \in 0..Capacity
  BY <1>1, <1>2, <1>3, <1>4
<1>6. WAdd(head, pDone) = WAdd(tail, p)
  <2>1. head = WAdd(tail, Used)
    BY <1>2, <1>5, CounterArithmetic DEF Used
  <2> QED  BY <1>2, <1>5, <2>1, CounterArithmetic
<1>7. sent + pDone + 1 = Len(received) + p + 1
  BY <1>1, <1>2, <1>3 DEF CountersAgree
<1>8. WAdd(tail, p) \in Nat
  BY <1>2, <1>5, CounterArithmetic DEF Counters
<1>9. TypeOK'
  BY <1>1, <1>2, <1>6, <1>8, SlotIsASlot DEF TypeOK
<1>10. CountersAgree' /\ ConservativeViews' /\ Views'
  BY <1>1 DEF CountersAgree, ConservativeViews, Views, Used
<1>11. Contents'
  <2> SUFFICES ASSUME NEW k \in 0..(Capacity - 1), k < p + 1
               PROVE  buffer'[Slot(WAdd(tail, k))] = Len(received) + k + 1
    <3>1. Used' = Used /\ Used' + pDone' = p + 1
      BY <1>1, <1>2, <1>3 DEF Used
    <3> QED  BY <1>1, <3>1 DEF Contents
  <2> HIDE DEF p
  <2>1. CASE k = p
    BY <1>1, <1>2, <1>6, <1>7, <1>8, <2>1, SlotIsASlot
  <2>2. CASE k # p
    <3>1. Slot(WAdd(tail, k)) # Slot(WAdd(tail, p))
      BY <1>2, <1>5, <2>2, WindowSlotsDiffer
    <3>2. k < p
      BY <1>5, <2>2
    <3>3. buffer[Slot(WAdd(tail, k))] = Len(received) + k + 1
      BY <1>1, <3>2 DEF Contents, p
    <3>4. k \in 0..Capacity /\ WAdd(tail, k) \in Nat
      BY <1>2, CounterArithmetic DEF Counters
    <3> QED  BY <1>1, <1>2, <1>6, <3>1, <3>3, <3>4, SlotIsASlot
  <2> QED  BY <2>1, <2>2
<1>12. Taken' /\ DeliveredInOrder'
  BY <1>1 DEF Taken, DeliveredInOrder
<1> QED  BY <1>9, <1>10, <1>11, <1>12

LEMMA PPublishPreserves ==
    ASSUME IInv, PPublish
    PROVE  IInv'
<1> USE SizeFacts DEF IInv
<1>1. /\ pPc = "write" /\ pDone = pCount /\ alive
      /\ head' = WAdd(head, pCount) /\ sent' = sent + pCount /\ pRem' = pRem - pCount
      /\ pPc' \in {"idle", "load"} /\ pCount' = 0 /\ pDone' = 0
      /\ UNCHANGED <<tail, buffer, pOp, pTail, cPc, cOp, cHead, cRem, cCount, cOut,
                     received, alive>>
  BY DEF PPublish, cVars, Views
<1>2. /\ head \in Counters /\ tail \in Counters /\ pTail \in Counters /\ cHead \in Counters
      /\ pCount \in 0..Capacity /\ sent \in Nat /\ pRem \in Nat /\ Len(received) \in Nat
  BY DEF TypeOK
<1>3. Used \in Nat /\ WSub(tail, pTail) \in Nat /\ WSub(cHead, tail) \in Nat
  BY <1>2, CounterArithmetic DEF Used
<1>4. /\ WSub(tail, pTail) + Used + pCount <= Capacity
      /\ pCount <= pRem /\ WSub(cHead, tail) <= Used /\ sent = Len(received) + Used
  BY <1>1 DEF Views, ConservativeViews, CountersAgree
<1>5. head' \in Counters
  BY <1>1, <1>2, CounterArithmetic
\* What is waiting grows by the batch.
<1>6. Used' = Used + pCount
  <2>1. /\ Used \in 0..Capacity /\ Used + pCount \in 0..Capacity
        /\ Used + pCount <= Capacity
    BY <1>2, <1>3, <1>4
  <2>2. head = WAdd(tail, Used)
    BY <1>2, <2>1, CounterArithmetic DEF Used
  <2>3. WAdd(WAdd(tail, Used), pCount) = WAdd(tail, Used + pCount)
    BY <1>2, <2>1, CounterArithmetic
  <2>4. WSub(WAdd(tail, Used + pCount), tail) = Used + pCount
    BY <1>2, <2>1, CounterArithmetic
  <2>5. Used' = WSub(head', tail)
    BY <1>1 DEF Used
  <2> QED  BY <1>1, <2>2, <2>3, <2>4, <2>5
<1>7. TypeOK'
  BY <1>1, <1>2, <1>4, <1>5 DEF TypeOK
<1>8. CountersAgree' /\ ConservativeViews'
  BY <1>1, <1>2, <1>3, <1>4, <1>6 DEF CountersAgree, ConservativeViews
<1>9. Views'
  BY <1>1, <1>2, <1>3, <1>4, <1>6 DEF Views
<1>10. Contents'
  <2>1. Used' + pDone' = Used + pDone
    BY <1>1, <1>2, <1>3, <1>6
  <2> QED  BY <1>1, <2>1 DEF Contents
<1>11. Taken' /\ DeliveredInOrder'
  BY <1>1 DEF Taken, DeliveredInOrder
<1> QED  BY <1>7, <1>8, <1>9, <1>10, <1>11

LEMMA CLoadPreserves ==
    ASSUME IInv, NEW h \in Between(cHead, head), CLoad(h)
    PROVE  IInv'
<1> USE SizeFacts DEF IInv
<1> DEFINE count == MinOf(cRem, WSub(h, tail))
<1>1. /\ head \in Counters /\ tail \in Counters /\ cHead \in Counters /\ h \in Counters
      /\ WSub(h, cHead) <= WSub(head, cHead) /\ cRem \in Nat
  BY DEF TypeOK, Between
<1>2. alive /\ cPc = "load" /\ cCount = 0
  BY DEF CLoad, CLoaded, Views
<1>3. Used <= Capacity /\ WSub(cHead, tail) <= Used
  BY <1>2 DEF CountersAgree, ConservativeViews
\* The load is newer than the last one, so it lies between that and head.
<1>4. WSub(h, tail) <= Used
  BY <1>1, <1>3 DEF Used, WSub, Counters
<1>5. WSub(h, tail) \in Nat /\ Used \in Nat
  BY <1>1, CounterArithmetic DEF Used
<1>6. count \in 0..Capacity /\ count <= cRem /\ count <= WSub(h, tail)
  BY <1>1, <1>3, <1>4, <1>5 DEF MinOf
<1>7. /\ cHead' = h /\ cCount' = count /\ cOut' = <<>>
      /\ cPc' \in {"idle", "load", "read"}
      /\ cPc' = "read" <=> count > 0
      /\ UNCHANGED <<head, tail, buffer, pPc, pOp, pTail, pRem, pCount, pDone, cOp, cRem,
                     sent, received, alive>>
  BY <1>6 DEF CLoad, CLoaded, shared, pVars
<1> HIDE DEF count
<1>8. TypeOK'
  BY <1>1, <1>6, <1>7 DEF TypeOK
<1>9. CountersAgree' /\ ConservativeViews'
  BY <1>4, <1>7 DEF CountersAgree, ConservativeViews, Used
<1>10. Views'
  BY <1>2, <1>6, <1>7 DEF Views, Used
<1>11. Contents' /\ Taken' /\ DeliveredInOrder'
  BY <1>7 DEF Contents, Taken, DeliveredInOrder, Used
<1> QED  BY <1>8, <1>9, <1>10, <1>11

LEMMA CLenPreserves ==
    ASSUME IInv, NEW h \in Between(cHead, head), CLen(h)
    PROVE  IInv'
<1> USE SizeFacts DEF IInv
<1>1. /\ head \in Counters /\ tail \in Counters /\ cHead \in Counters /\ h \in Counters
      /\ WSub(h, cHead) <= WSub(head, cHead)
  BY DEF TypeOK, Between
<1>2. alive /\ cPc = "idle" /\ cCount = 0
  BY DEF CLen, Views
<1>3. Used <= Capacity /\ WSub(cHead, tail) <= Used
  BY <1>2 DEF CountersAgree, ConservativeViews
<1>4. WSub(h, tail) <= Used /\ WSub(h, tail) \in Nat
  <2>1. WSub(h, tail) <= Used
    BY <1>1, <1>3 DEF Used, WSub, Counters
  <2> QED  BY <1>1, <2>1, CounterArithmetic
<1>5. /\ cHead' = h
      /\ UNCHANGED <<head, tail, buffer, pPc, pOp, pTail, pRem, pCount, pDone, cPc, cOp,
                     cRem, cCount, cOut, sent, received, alive>>
  BY DEF CLen, shared, pVars
<1>6. TypeOK'
  BY <1>1, <1>5 DEF TypeOK
<1>7. CountersAgree' /\ ConservativeViews' /\ Views'
  BY <1>2, <1>4, <1>5 DEF CountersAgree, ConservativeViews, Views, Used
<1>8. Contents' /\ Taken' /\ DeliveredInOrder'
  BY <1>5 DEF Contents, Taken, DeliveredInOrder, Used
<1> QED  BY <1>6, <1>7, <1>8

LEMMA CReadPreserves ==
    ASSUME IInv, CRead
    PROVE  IInv'
<1> USE SizeFacts DEF IInv
<1> DEFINE n == Len(cOut)
           value == buffer[Slot(WAdd(tail, n))]
<1>1. /\ cPc = "read" /\ n < cCount /\ alive
      /\ cOut' = Append(cOut, value)
      /\ UNCHANGED <<head, tail, buffer, pPc, pOp, pTail, pRem, pCount, pDone, cPc, cOp,
                     cHead, cRem, cCount, sent, received, alive>>
  BY DEF CRead, shared, pVars, Views
<1>2. /\ tail \in Counters /\ head \in Counters /\ cHead \in Counters
      /\ cCount \in 0..Capacity /\ n \in Nat /\ cOut \in Seq(Nat)
      /\ buffer \in [Slots -> Nat] /\ pDone \in Nat
  BY DEF TypeOK
<1>3. Used \in Nat /\ WSub(cHead, tail) \in Nat
  BY <1>2, CounterArithmetic DEF Used
<1>4. n < Used /\ n \in 0..(Capacity - 1) /\ n \in 0..Capacity
  BY <1>1, <1>2, <1>3 DEF Views, ConservativeViews
<1>5. value = Len(received) + n + 1
  BY <1>1, <1>2, <1>3, <1>4 DEF Contents
<1>6. value \in Nat
  <2>1. WAdd(tail, n) \in Nat
    BY <1>2, <1>4, CounterArithmetic
  <2> QED  BY <1>2, <2>1, SlotIsASlot
<1> HIDE DEF value
<1>7. TypeOK'
  BY <1>1, <1>2, <1>6 DEF TypeOK
<1>8. CountersAgree' /\ ConservativeViews' /\ Views' /\ Contents' /\ DeliveredInOrder'
  BY <1>1 DEF CountersAgree, ConservativeViews, Views, Contents, DeliveredInOrder, Used
<1>9. Taken'
  <2> SUFFICES ASSUME NEW i \in 1..(n + 1)
               PROVE  Append(cOut, value)[i] = Len(received) + i
    BY <1>1, <1>2, <1>6 DEF Taken
  <2>1. CASE i \in 1..n
    BY <1>2, <1>6, <2>1 DEF Taken
  <2>2. CASE i = n + 1
    BY <1>2, <1>5, <1>6, <2>2, Len(received) \in Nat DEF TypeOK
  <2> QED  BY <1>2, <2>1, <2>2
<1> QED  BY <1>7, <1>8, <1>9

LEMMA CPublishPreserves ==
    ASSUME IInv, CPublish
    PROVE  IInv'
<1> USE SizeFacts DEF IInv
<1>1. /\ cPc = "read" /\ Len(cOut) = cCount /\ alive
      /\ tail' = WAdd(tail, cCount) /\ received' = received \o cOut
      /\ cRem' = cRem - cCount /\ cPc' \in {"idle", "load"} /\ cCount' = 0 /\ cOut' = <<>>
      /\ UNCHANGED <<head, buffer, pPc, pOp, pTail, pRem, pCount, pDone, cOp, cHead,
                     sent, alive>>
  BY DEF CPublish, pVars, Views
<1>2. /\ head \in Counters /\ tail \in Counters /\ pTail \in Counters /\ cHead \in Counters
      /\ cCount \in 0..Capacity /\ cRem \in Nat /\ sent \in Nat
      /\ pCount \in 0..Capacity /\ pDone \in 0..pCount
      /\ cOut \in Seq(Nat) /\ received \in Seq(Nat) /\ Len(received) \in Nat
  BY DEF TypeOK
<1>3. Used \in Nat /\ WSub(tail, pTail) \in Nat /\ WSub(cHead, tail) \in Nat
  BY <1>2, CounterArithmetic DEF Used
<1>4. /\ WSub(tail, pTail) + Used + pCount <= Capacity
      /\ cCount <= cRem /\ cCount <= WSub(cHead, tail) /\ WSub(cHead, tail) <= Used
      /\ sent = Len(received) + Used
  BY <1>1 DEF Views, ConservativeViews, CountersAgree
<1>5. tail' \in Counters
  BY <1>1, <1>2, CounterArithmetic
\* What is waiting, and what the consumer has seen, shrink by the batch; what
\* the producer has not seen of it grows.
<1>6. /\ Used' = Used - cCount
      /\ WSub(cHead', tail') = WSub(cHead, tail) - cCount
      /\ WSub(tail', pTail') = WSub(tail, pTail) + cCount
  <2>1. /\ Used' = WSub(head, WAdd(tail, cCount)) /\ Used = WSub(head, tail)
        /\ WSub(cHead', tail') = WSub(cHead, WAdd(tail, cCount))
        /\ WSub(tail', pTail') = WSub(WAdd(tail, cCount), pTail)
    BY <1>1 DEF Used
  <2>2. WSub(head, WAdd(tail, cCount)) = WSub(head, tail) - cCount
    <3>1. cCount <= WSub(head, tail)
      BY <1>2, <1>3, <1>4 DEF Used
    <3> QED  BY <1>2, <3>1, BatchArithmetic
  <2>3. WSub(cHead, WAdd(tail, cCount)) = WSub(cHead, tail) - cCount
    BY <1>2, <1>4, BatchArithmetic
  <2>4. WSub(WAdd(tail, cCount), pTail) = WSub(tail, pTail) + cCount
    <3>1. WSub(tail, pTail) + cCount <= Capacity
      BY <1>2, <1>3, <1>4
    <3> QED  BY <1>2, <3>1, BatchArithmetic
  <2> QED  BY <2>1, <2>2, <2>3, <2>4
<1>7. Len(received') = Len(received) + cCount
  <2>1. Len(received \o cOut) = Len(received) + Len(cOut)
    BY <1>2
  <2> QED  BY <1>1, <2>1
<1>8. TypeOK'
  BY <1>1, <1>2, <1>4, <1>5 DEF TypeOK
<1>9. CountersAgree' /\ ConservativeViews' /\ Views'
  BY <1>1, <1>2, <1>3, <1>4, <1>6, <1>7, SMTT(30) DEF CountersAgree, ConservativeViews, Views
<1>10. Contents'
  <2> SUFFICES ASSUME NEW k \in 0..(Capacity - 1), k < Used' + pDone'
               PROVE  buffer'[Slot(WAdd(tail', k))] = Len(received') + k + 1
    BY DEF Contents
  <2>1. /\ cCount + k < Used + pDone /\ cCount + k \in 0..(Capacity - 1)
        /\ k \in 0..Capacity /\ cCount + k <= Capacity
    BY <1>1, <1>2, <1>3, <1>4, <1>6
  <2>2. buffer[Slot(WAdd(tail, cCount + k))] = Len(received) + (cCount + k) + 1
    BY <1>1, <2>1 DEF Contents
  <2>3. WAdd(tail', k) = WAdd(tail, cCount + k)
    BY <1>1, <1>2, <2>1, CounterArithmetic
  <2> QED  BY <1>1, <1>2, <1>7, <2>2, <2>3
<1>11. Taken'
  BY <1>1 DEF Taken
<1>12. DeliveredInOrder'
  <2> SUFFICES ASSUME NEW i \in 1..(Len(received) + cCount)
               PROVE  (received \o cOut)[i] = i
    BY <1>1, <1>7 DEF DeliveredInOrder
  <2>1. CASE i <= Len(received)
    BY <1>2, <2>1 DEF DeliveredInOrder
  <2>2. CASE i > Len(received)
    <3>1. i - Len(received) \in 1..Len(cOut)
      BY <1>1, <1>2, <2>2
    <3>2. (received \o cOut)[i] = cOut[i - Len(received)]
      BY <1>1, <1>2, <2>2
    <3> QED  BY <1>2, <3>1, <3>2 DEF Taken
  <2>3. i <= Len(received) \/ i > Len(received)
    <3> HIDE DEF IInv
    <3>1. i \in Int /\ Len(received) \in Int
      BY <1>2
    <3> QED  BY <3>1
  <2> QED  BY <2>1, <2>2, <2>3
<1> QED  BY <1>8, <1>9, <1>10, <1>11, <1>12

LEMMA DropPreserves ==
    ASSUME IInv, Drop
    PROVE  IInv'
<1> USE SizeFacts DEF IInv, Drop, pVars, cVars
<1>1. Used' = 0
  BY DEF Used, WSub, TypeOK, Counters
<1>2. TypeOK'
  BY DEF TypeOK
<1> QED
  BY <1>1, <1>2 DEF CountersAgree, ConservativeViews, Views, Contents, Taken, DeliveredInOrder

LEMMA StepPreserves == IInv /\ [Next]_vars => IInv'
<1> SUFFICES ASSUME IInv, [Next]_vars
             PROVE  IInv'
  OBVIOUS
<1>1. CASE Producer
  BY <1>1, PStartPreserves, PLoadPreserves, PLenPreserves, PWritePreserves, PPublishPreserves DEF Producer
<1>2. CASE Consumer
  BY <1>2, CStartPreserves, CLoadPreserves, CLenPreserves, CReadPreserves, CPublishPreserves DEF Consumer
<1>3. CASE Drop
  BY <1>3, DropPreserves
<1>4. CASE UNCHANGED vars
  BY <1>4 DEF vars, shared, pVars, cVars, IInv, TypeOK, CountersAgree, ConservativeViews,
              Views, Contents, Taken, DeliveredInOrder, Used
<1> QED  BY <1>1, <1>2, <1>3, <1>4 DEF Next

LEMMA IInvHolds == Spec => []IInv
  BY InitEstablishes, StepPreserves, PTL DEF Spec

-----------------------------------------------------------------------------
(* Theorems *)

\* Type correctness of the ring.
THEOREM RingTypeCorrect == Spec => []TypeOK
<1>1. IInv => TypeOK
  BY DEF IInv
<1> QED  BY IInvHolds, <1>1, PTL

\* What the two counters say is waiting is what was sent and not received,
\* and fits the ring, for counters of any width and however often they wrap.
THEOREM RingCountersAgree == Spec => []CountersAgree
<1>1. IInv => CountersAgree
  BY DEF IInv
<1> QED  BY IInvHolds, <1>1, PTL

\* The producer never acts on more room, the consumer never on more items,
\* than there are.
THEOREM RingConservativeViews == Spec => []ConservativeViews
<1>1. IInv => ConservativeViews
  BY DEF IInv
<1> QED  BY IInvHolds, <1>1, PTL

\* No slot is overwritten before its item was received.
THEOREM RingUnreadIntact == Spec => []UnreadIntact
<1>1. IInv => UnreadIntact
  <2> SUFFICES ASSUME IInv, alive, NEW k \in 0..(Capacity - 1), k < Used
               PROVE  buffer[Slot(WAdd(tail, k))] = Len(received) + k + 1
    BY DEF UnreadIntact
  <2>1. pDone \in Nat /\ head \in Counters /\ tail \in Counters
    BY SizeFacts DEF IInv, TypeOK
  <2>2. Used \in Nat
    BY <2>1, CounterArithmetic DEF Used
  <2>3. k < Used + pDone
    BY <2>1, <2>2, SizeFacts
  <2> QED  BY <2>3 DEF IInv, Contents
<1> QED  BY IInvHolds, <1>1, PTL

\* The producer's write and the consumer's read are never of one slot.
THEOREM RingNoSlotRace == Spec => []NoSlotRace
<1>1. IInv => NoSlotRace
  <2> SUFFICES ASSUME IInv, pPc = "write", pDone < pCount, cPc = "read", Len(cOut) < cCount
               PROVE  Slot(WAdd(head, pDone)) # Slot(WAdd(tail, Len(cOut)))
    BY DEF NoSlotRace
  <2>1. /\ head \in Counters /\ tail \in Counters /\ pTail \in Counters /\ cHead \in Counters
        /\ pCount \in 0..Capacity /\ pDone \in 0..pCount /\ cCount \in 0..Capacity
        /\ Len(cOut) \in Nat
    BY DEF IInv, TypeOK
  <2>2. Used \in Nat /\ WSub(tail, pTail) \in Nat /\ WSub(cHead, tail) \in Nat
    BY <2>1, CounterArithmetic DEF Used
  <2>3. Used + pCount <= Capacity /\ Len(cOut) < Used
    <3>1. /\ WSub(tail, pTail) + Used + pCount <= Capacity
          /\ cCount <= WSub(cHead, tail) /\ WSub(cHead, tail) <= Used
      BY DEF IInv, Views, ConservativeViews
    <3> QED  BY <2>1, <2>2, <3>1, SizeFacts
  <2>4. /\ Used + pDone \in 0..(Capacity - 1) /\ Len(cOut) \in 0..(Capacity - 1)
        /\ Used \in 0..Capacity /\ pDone \in 0..Capacity
        /\ Used + pDone # Len(cOut)
    BY <2>1, <2>2, <2>3, SizeFacts
  <2>5. WAdd(head, pDone) = WAdd(tail, Used + pDone)
    <3>1. head = WAdd(tail, Used)
      BY <2>1, <2>3, <2>4, CounterArithmetic DEF Used
    <3> QED  BY <2>1, <2>4, <3>1, SizeFacts, CounterArithmetic
  <2> QED  BY <2>1, <2>4, <2>5, WindowSlotsDiffer
<1> QED  BY IInvHolds, <1>1, PTL

\* The consumer receives the items in the order they were sent, none missing
\* and none twice.
THEOREM RingDeliveredInOrder == Spec => []DeliveredInOrder
<1>1. IInv => DeliveredInOrder
  BY DEF IInv
<1> QED  BY IInvHolds, <1>1, PTL

-----------------------------------------------------------------------------
(* The ring implements the bounded FIFO *)

\* The sequence of the n numbers that follow m.
Counting(m, n) == [k \in 1..n |-> m + k]

LEMMA CountingConcat ==
    ASSUME NEW m \in Nat, NEW a \in Nat, NEW b \in Nat
    PROVE  Counting(m, a) \o [i \in 1..b |-> (m + a) + i] = Counting(m, a + b)
<1> DEFINE s == Counting(m, a)
           t == [i \in 1..b |-> (m + a) + i]
           u == Counting(m, a + b)
<1>1. s \in Seq(Nat) /\ t \in Seq(Nat) /\ u \in Seq(Nat)
  BY DEF Counting
<1>2. Len(s) = a /\ Len(t) = b /\ Len(u) = a + b
  BY DEF Counting
<1>3. \A k \in 1..(a + b) : (s \o t)[k] = u[k]
  BY <1>1, <1>2 DEF Counting
<1>4. s \o t \in Seq(Nat) /\ Len(s \o t) = a + b
  BY <1>1, <1>2
<1>5. \A k \in 1..Len(s \o t) : (s \o t)[k] = u[k]
  BY <1>3, <1>4
<1> HIDE DEF s, t, u
<1>6. s \o t = u
  BY <1>1, <1>2, <1>4, <1>5, SeqEqual
<1> QED  BY <1>6 DEF s, t, u

LEMMA CountingSplit ==
    ASSUME NEW m \in Nat, NEW a \in Nat, NEW b \in Nat, b <= a
    PROVE  /\ SubSeq(Counting(m, a), 1, b) = Counting(m, b)
           /\ SubSeq(Counting(m, a), b + 1, a) = Counting(m + b, a - b)
<1> DEFINE s == Counting(m, a)
<1>1. s \in Seq(Nat) /\ Len(s) = a
  BY DEF Counting
<1>2. SubSeq(s, 1, b) = Counting(m, b)
  BY <1>1 DEF Counting
<1>3. SubSeq(s, b + 1, a) = Counting(m + b, a - b)
  BY <1>1 DEF Counting
<1> QED  BY <1>2, <1>3

\* The abstract queue, and what it is in every state of the ring.
Queue == [k \in 1..Used |-> buffer[Slot(WAdd(tail, k - 1))]]

LEMMA QueueIsCounting ==
    ASSUME IInv, alive
    PROVE  Queue = Counting(Len(received), Used)
<1>1. /\ Used \in Nat /\ Used <= Capacity /\ pDone \in Nat /\ Len(received) \in Nat
  BY SizeFacts, CounterArithmetic DEF IInv, TypeOK, Used, CountersAgree
<1>2. ASSUME NEW k \in 1..Used
      PROVE  buffer[Slot(WAdd(tail, k - 1))] = Len(received) + k
  <2>1. k - 1 \in 0..(Capacity - 1) /\ k - 1 < Used + pDone
    BY <1>1, SizeFacts
  <2>2. buffer[Slot(WAdd(tail, k - 1))] = Len(received) + (k - 1) + 1
    BY <2>1 DEF IInv, Contents
  <2> QED  BY <1>1, <2>1, <2>2
<1> QED  BY <1>2 DEF Queue, Counting

\* The same of the next state.
LEMMA QueueIsCountingNext ==
    ASSUME IInv', alive'
    PROVE  Queue' = Counting(Len(received'), Used')
<1>1. (IInv /\ alive => Queue = Counting(Len(received), Used))'
  BY QueueIsCounting, PTL
<1> QED  BY <1>1 DEF Counting

\* A step that moves neither counter maps to a stutter, also when it writes
\* slots.
LEMMA QueueWhenUnchanged ==
    ASSUME IInv, IInv', alive, UNCHANGED <<head, tail, received, alive>>
    PROVE  UNCHANGED <<Queue, received, alive>>
<1>1. Used' = Used
  BY DEF Used
<1>2. Queue = Counting(Len(received), Used) /\ Queue' = Counting(Len(received'), Used')
  BY QueueIsCounting, QueueIsCountingNext
<1> QED  BY <1>1, <1>2

LEMMA PublishPuts ==
    ASSUME IInv, IInv', PPublish
    PROVE  \E n \in 1..Capacity : Fifo!Put(n)
<1>1. alive /\ pCount \in 1..Capacity /\ head' = WAdd(head, pCount)
      /\ UNCHANGED <<tail, received, alive>>
  BY SizeFacts DEF PPublish, IInv, TypeOK, Views
<1>2. /\ head \in Counters /\ tail \in Counters /\ pTail \in Counters
      /\ Len(received) \in Nat /\ WSub(tail, pTail) \in Nat /\ Used \in Nat
  BY CounterArithmetic, SMTT(30) DEF IInv, TypeOK, Used
<1>3. Used + pCount <= Capacity
  <2>1. WSub(tail, pTail) + Used + pCount <= Capacity
    BY <1>1 DEF IInv, Views
  <2> QED  BY <1>1, <1>2, <2>1, SizeFacts
<1>4. Used' = Used + pCount
  <2>1. Used' = WSub(WAdd(head, pCount), tail) /\ Used = WSub(head, tail)
    BY <1>1 DEF Used
  <2> QED  BY <1>1, <1>2, <1>3, <2>1, BatchArithmetic
<1>5. Queue = Counting(Len(received), Used) /\ Queue' = Counting(Len(received), Used + pCount)
  BY <1>1, <1>4, QueueIsCounting, QueueIsCountingNext
<1>6. Len(Queue) = Used
  BY <1>2 DEF Queue
<1>7. Queue' = Queue \o [i \in 1..pCount |-> (Len(received) + Used) + i]
  <2>1. pCount \in Nat
    BY <1>1, SizeFacts
  <2> QED  BY <1>2, <1>5, <2>1, CountingConcat
<1>8. Fifo!Put(pCount)
  BY <1>1, <1>3, <1>6, <1>7 DEF Fifo!Put, Fifo!Accepted, Queue
<1> QED  BY <1>1, <1>8

LEMMA PublishTakes ==
    ASSUME IInv, IInv', CPublish
    PROVE  \E n \in 1..Capacity : Fifo!Take(n)
<1>1. /\ alive /\ cCount \in 1..Capacity /\ tail' = WAdd(tail, cCount)
      /\ received' = received \o cOut /\ Len(cOut) = cCount /\ UNCHANGED <<head, alive>>
  BY SizeFacts DEF CPublish, IInv, TypeOK, Views
<1>2. /\ head \in Counters /\ tail \in Counters /\ cHead \in Counters
      /\ received \in Seq(Nat) /\ cOut \in Seq(Nat) /\ Len(received) \in Nat
      /\ WSub(cHead, tail) \in Nat /\ Used \in Nat
  BY CounterArithmetic, SMTT(30) DEF IInv, TypeOK, Used
<1>3. cCount <= Used
  <2>1. cCount <= WSub(cHead, tail) /\ WSub(cHead, tail) <= Used
    BY <1>1 DEF IInv, Views, ConservativeViews
  <2> QED  BY <1>1, <1>2, <2>1, SizeFacts
<1>4. Used' = Used - cCount
  <2>1. Used' = WSub(head, WAdd(tail, cCount)) /\ Used = WSub(head, tail)
    BY <1>1 DEF Used
  <2> QED  BY <1>1, <1>2, <1>3, <2>1, SizeFacts, BatchArithmetic
<1>5. Len(received') = Len(received) + cCount
  <2>1. Len(received \o cOut) = Len(received) + Len(cOut)
    BY <1>2
  <2> QED  BY <1>1, <2>1
<1>6. /\ Queue = Counting(Len(received), Used)
      /\ Queue' = Counting(Len(received) + cCount, Used - cCount)
  BY <1>1, <1>4, <1>5, QueueIsCounting, QueueIsCountingNext
<1>7. Len(Queue) = Used
  BY <1>2 DEF Queue
<1>8. cOut = Counting(Len(received), cCount)
  <2>1. Counting(Len(received), cCount) \in Seq(Nat) /\ Len(Counting(Len(received), cCount)) = cCount
    BY <1>1, <1>2, SizeFacts DEF Counting
  <2>2. \A i \in 1..Len(cOut) : cOut[i] = Counting(Len(received), cCount)[i]
    BY <1>1, <1>2 DEF IInv, Taken, Counting
  <2> QED  BY <1>1, <1>2, <2>1, <2>2, SeqEqual
<1>9. cCount \in Nat
  BY <1>1, SizeFacts
<1>10. /\ received' = received \o SubSeq(Queue, 1, cCount)
       /\ Queue' = SubSeq(Queue, cCount + 1, Len(Queue))
  <2>1. /\ SubSeq(Counting(Len(received), Used), 1, cCount) = Counting(Len(received), cCount)
        /\ SubSeq(Counting(Len(received), Used), cCount + 1, Used)
              = Counting(Len(received) + cCount, Used - cCount)
    BY <1>2, <1>3, <1>9, CountingSplit, ZenonT(40)
  <2> QED  BY <1>1, <1>6, <1>7, <1>8, <2>1
<1>11. Fifo!Take(cCount)
  BY <1>1, <1>3, <1>7, <1>10 DEF Fifo!Take, Queue
<1> QED  BY <1>1, <1>11

LEMMA DropDiscards ==
    ASSUME IInv, Drop
    PROVE  Fifo!Discard
<1>1. Used' = 0
  BY DEF Drop, Used, WSub, IInv, TypeOK, Counters
<1>2. Queue' = <<>>
  BY <1>1 DEF Queue
<1> QED  BY <1>2 DEF Drop, Fifo!Discard, Queue

LEMMA StepImplements == IInv /\ IInv' /\ [Next]_vars => [Fifo!Next]_(Fifo!vars)
<1> SUFFICES ASSUME IInv, IInv', [Next]_vars
             PROVE  Fifo!Next \/ UNCHANGED Fifo!vars
  OBVIOUS
<1>1. CASE PPublish
  BY <1>1, PublishPuts DEF Fifo!Next
<1>2. CASE CPublish
  BY <1>2, PublishTakes DEF Fifo!Next
<1>3. CASE Drop
  BY <1>3, DropDiscards DEF Fifo!Next
<1>4. CASE UNCHANGED <<head, tail, received, alive>> /\ alive
  BY <1>4, QueueWhenUnchanged DEF Fifo!vars, Queue
<1>5. CASE UNCHANGED vars
  BY <1>5 DEF vars, shared, Fifo!vars, Used
<1>6. CASE Producer /\ ~PPublish
  <2>1. alive /\ UNCHANGED <<head, tail, received, alive>>
    BY <1>6 DEF Producer, PStart, PLoad, PLoaded, PLen, PWrite, shared, IInv, Views
  <2> QED  BY <2>1, <1>4
<1>7. CASE Consumer /\ ~CPublish
  <2>1. alive /\ UNCHANGED <<head, tail, received, alive>>
    BY <1>7 DEF Consumer, CStart, CLoad, CLoaded, CLen, CRead, shared, IInv, Views
  <2> QED  BY <2>1, <1>4
<1> QED  BY <1>1, <1>2, <1>3, <1>5, <1>6, <1>7 DEF Next

\* The ring, with its counters that wrap, stale loads and batches in progress,
\* is a bounded FIFO: every publication puts or takes one batch at once, and
\* every other step is invisible.
THEOREM RingImplementsFifo == Spec => ImplementsFifo
<1>1. Init => Fifo!Init
  BY DEF Init, Fifo!Init, Used, WSub
<1>2. Spec => []IInv
  BY IInvHolds
<1> QED  BY <1>1, <1>2, StepImplements, PTL DEF Spec, ImplementsFifo, Fifo!Spec
=============================================================================
