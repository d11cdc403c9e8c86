------------------------- MODULE StoreForwardProofs -------------------------
(***************************************************************************)
(* What TLAPS proves of StoreForward, for any number of nodes and messages *)
(* and every limit of the storage: the limits hold and the statistics are  *)
(* right, no message is lost or handed out twice, and each destination     *)
(* gets its messages in the order they were stored.                        *)
(***************************************************************************)
EXTENDS StoreForward, TLAPS, FiniteSetTheorems, WellFoundedInduction, SequenceTheorems

-----------------------------------------------------------------------------
(* Induction: the library's theorems take the property as an operator, here  *)
(* it is a set of numbers.                                                   *)

\* A set of numbers that has a member has a smallest one.
LEMMA SmallestMember ==
    ASSUME NEW T \in SUBSET Nat, T # {}
    PROVE  \E x \in T : \A y \in T : ~(y < x)
<1>1. \E x \in T : \A y \in T : <<y, x>> \notin OpToRel(<, Nat)
  BY NatLessThanWellFounded, WFMin, Zenon
<1>2. \A x, y \in T : y < x => <<y, x>> \in OpToRel(<, Nat)
  BY Zenon DEF OpToRel
<1> QED BY <1>1, <1>2, Zenon

\* Induction, with the property as the set of numbers that have it.
LEMMA SetInduction ==
    ASSUME NEW T \in SUBSET Nat, 0 \in T, \A i \in T : i + 1 \in T
    PROVE  T = Nat
<1> SUFFICES ASSUME Nat \ T # {} PROVE FALSE
  OBVIOUS
<1>1. PICK x \in Nat \ T : \A y \in Nat \ T : ~(y < x)
  BY SmallestMember
<1>2. x - 1 \in T
  BY <1>1
<1> QED BY <1>1, <1>2

\* f is built from start by the steps.
Built(f, S, n, start, step) ==
    f \in [0..n -> S] /\ f[0] = start /\ \A i \in 1..n : f[i] = step[i][f[i - 1]]

\* A function that is defined from one number to the value exists.
LEMMA FiniteRecursion ==
    ASSUME NEW S, NEW n \in Nat, NEW start \in S, NEW step \in [1..n -> [S -> S]]
    PROVE  \E f : Built(f, S, n, start, step)
<1> DEFINE T == {k \in Nat : k <= n => \E f : Built(f, S, k, start, step)}
<1>1. 0 \in T
  <2>1. Built([i \in 0..0 |-> start], S, 0, start, step)
    BY DEF Built
  <2> QED BY <2>1
<1>2. ASSUME NEW k \in T PROVE k + 1 \in T
  <2> SUFFICES ASSUME k + 1 <= n PROVE \E f : Built(f, S, k + 1, start, step)
    OBVIOUS
  <2>1. PICK f : Built(f, S, k, start, step)
    OBVIOUS
  <2>2. PICK value \in S : value = step[k + 1][f[k]]
    BY <2>1 DEF Built
  <2> DEFINE g == [i \in 0..(k + 1) |-> IF i <= k THEN f[i] ELSE value]
  <2>3. g \in [0..(k + 1) -> S] /\ g[0] = start
    BY <2>1 DEF Built
  <2>4. ASSUME NEW i \in 1..(k + 1) PROVE g[i] = step[i][g[i - 1]]
    <3>1. CASE i <= k
      BY <2>1, <3>1 DEF Built
    <3>2. CASE i = k + 1
      BY <2>1, <2>2, <3>2
    <3> QED BY <3>1, <3>2
  <2>5. Built(g, S, k + 1, start, step)
    BY <2>3, <2>4 DEF Built
  <2> QED BY <2>5
<1>3. T = Nat
  <2> HIDE DEF T
  <2>1. T \in SUBSET Nat
    BY DEF T
  <2> QED BY <1>1, <1>2, <2>1, SetInduction
<1> QED BY <1>3

-----------------------------------------------------------------------------
(* What is stored: a queue of one destination at a time *)

LEMMA MinOfTwo ==
    ASSUME NEW a \in Nat, NEW b \in Nat
    PROVE  Min({a, b}) = IF a <= b THEN a ELSE b
<1>1. CASE a <= b
  BY <1>1 DEF Min
<1>2. CASE ~(a <= b)
  BY <1>2 DEF Min
<1> QED BY <1>1, <1>2

Without(queues, d) == [x \in DOMAIN queues \ {d} |-> queues[x]]

\* Finitely many places hold messages.
LEMMA TotalType ==
    ASSUME NEW D, IsFiniteSet(D), NEW queues \in [D -> Seq(Nat)]
    PROVE  IsFiniteSet(Places(queues)) /\ Total(queues) \in Nat
<1> DEFINE part == [d \in D |-> {d} \X DOMAIN queues[d]]
           parts == {{d} \X DOMAIN queues[d] : d \in D}
<1>1. ASSUME NEW d \in D PROVE IsFiniteSet({d} \X DOMAIN queues[d])
  <2>1. DOMAIN queues[d] = 1..Len(queues[d]) /\ Len(queues[d]) \in Nat
    OBVIOUS
  <2>2. IsFiniteSet(1..Len(queues[d]))
    BY <2>1, FS_Interval
  <2> QED BY <2>1, <2>2, FS_Singleton, FS_Product
<1>2. part \in Surjection(D, parts)
  BY DEF Surjection
<1>3. IsFiniteSet(parts)
  <2> HIDE DEF part, parts
  <2> QED BY <1>2, FS_Surjection
<1>4. \A P \in parts : IsFiniteSet(P)
  BY <1>1
<1>5. IsFiniteSet(UNION parts)
  <2> HIDE DEF parts
  <2> QED BY <1>3, <1>4, FS_UNION
<1>6. Places(queues) = UNION parts
  BY DEF Places
<1> QED BY <1>5, <1>6, FS_CardinalityType DEF Total

\* The total is that of one queue and that of all others.
LEMMA TotalSplit ==
    ASSUME NEW D, IsFiniteSet(D), NEW queues \in [D -> Seq(Nat)], NEW d \in D
    PROVE  /\ Total(queues) = Len(queues[d]) + Total(Without(queues, d))
           /\ Total(Without(queues, d)) \in Nat
<1> DEFINE here == {d} \X DOMAIN queues[d]
           others == Places(Without(queues, d))
<1>1. Without(queues, d) \in [D \ {d} -> Seq(Nat)] /\ IsFiniteSet(D \ {d})
  BY FS_RemoveElement DEF Without
<1>2. IsFiniteSet(others) /\ Total(Without(queues, d)) \in Nat
  BY <1>1, TotalType
<1>3. IsFiniteSet(here) /\ Cardinality(here) = Len(queues[d])
  <2>1. PICK n \in Nat : n = Len(queues[d]) /\ DOMAIN queues[d] = 1..n
    OBVIOUS
  <2>2. IsFiniteSet(1..n) /\ Cardinality(1..n) = n
    <3>1. 1 \in Int /\ n \in Int
      OBVIOUS
    <3>2. IsFiniteSet(1..n) /\ Cardinality(1..n) = IF 1 > n THEN 0 ELSE n - 1 + 1
      BY <3>1, FS_Interval
    <3> QED BY <3>2
  <2>3. IsFiniteSet({d}) /\ Cardinality({d}) = 1
    BY FS_Singleton
  <2>4. IsFiniteSet({d} \X (1..n)) /\ Cardinality({d} \X (1..n)) = Cardinality({d}) * Cardinality(1..n)
    BY <2>2, <2>3, FS_Product
  <2>5. 1 * n = n
    OBVIOUS
  <2> QED BY <2>1, <2>2, <2>3, <2>4, <2>5
<1>4. Places(queues) = here \cup others
  BY DEF Places, Without
<1>5. here \cap others = {}
  BY DEF Places, Without
<1>6. Cardinality(here \cup others) = Cardinality(here) + Cardinality(others) - Cardinality({})
  <2> HIDE DEF here, others
  <2> QED BY <1>2, <1>3, <1>5, FS_Union
<1> QED BY <1>2, <1>3, <1>4, <1>6, FS_EmptySet DEF Total

Queues(queues) == IsFiniteSet(DOMAIN queues) /\ queues \in [DOMAIN queues -> Seq(Nat)]

LengthAt(queues, d) == IF d \in DOMAIN queues THEN Len(queues[d]) ELSE 0

\* One queue is set.
LEMMA TotalWith ==
    ASSUME NEW queues, Queues(queues), NEW d, NEW s \in Seq(Nat)
    PROVE  /\ Total(With(queues, d, s)) = Len(s) + Total(queues) - LengthAt(queues, d)
           /\ Queues(With(queues, d, s)) /\ DOMAIN With(queues, d, s) = DOMAIN queues \cup {d}
<1>0. PICK D : D = DOMAIN queues /\ IsFiniteSet(D) /\ queues \in [D -> Seq(Nat)]
  BY DEF Queues
<1>1. With(queues, d, s) \in [D \cup {d} -> Seq(Nat)] /\ With(queues, d, s)[d] = s
  BY <1>0 DEF With
<1>2. IsFiniteSet(D \cup {d})
  BY <1>0, FS_AddElement
<1>3. PICK w : w = With(queues, d, s)
  OBVIOUS
<1>4. /\ Total(w) = Len(s) + Total(Without(w, d))
      /\ Total(Without(w, d)) \in Nat
  BY <1>1, <1>2, <1>3, TotalSplit
<1>5. Without(w, d) = Without(queues, d)
  BY <1>0, <1>3 DEF With, Without
<1>6. Total(w) = Len(s) + Total(queues) - LengthAt(queues, d)
  <2>1. CASE d \in D
    <3>1. Total(queues) = Len(queues[d]) + Total(Without(queues, d))
      BY <1>0, <2>1, TotalSplit
    <3>2. LengthAt(queues, d) = Len(queues[d]) /\ Len(queues[d]) \in Nat
      BY <1>0, <2>1 DEF LengthAt
    <3> QED BY <1>4, <1>5, <3>1, <3>2
  <2>2. CASE d \notin D
    <3>1. Without(queues, d) = queues
      BY <1>0, <2>2 DEF Without
    <3>2. LengthAt(queues, d) = 0
      BY <1>0, <2>2 DEF LengthAt
    <3> QED BY <1>4, <1>5, <3>1, <3>2
  <2> QED BY <2>1, <2>2
<1> QED BY <1>0, <1>1, <1>2, <1>3, <1>6 DEF Queues

NoLonger(queues, others)    == \A d \in DOMAIN queues : Len(queues[d]) <= Len(others[d])
SameLengths(queues, others) == \A d \in DOMAIN queues : Len(queues[d]) = LengthAt(others, d)

\* Shorter queues hold less, and empty ones nothing.
LEMMA TotalLess ==
    ASSUME NEW D, IsFiniteSet(D), NEW E \in SUBSET D, NEW queues \in [D -> Seq(Nat)],
           NEW shorter \in [E -> Seq(Nat)], NoLonger(shorter, queues)
    PROVE  /\ IsFiniteSet(E) /\ Total(shorter) <= Total(queues)
           /\ SameLengths(queues, shorter) => Total(shorter) = Total(queues)
<1>1. \A d \in D : DOMAIN queues[d] = 1..Len(queues[d]) /\ Len(queues[d]) \in Nat
  OBVIOUS
<1>2. \A d \in E : DOMAIN shorter[d] = 1..Len(shorter[d]) /\ Len(shorter[d]) \in Nat
  OBVIOUS
<1>3. \A d \in E : DOMAIN shorter[d] \subseteq DOMAIN queues[d]
  <2>1. \A d \in E : Len(shorter[d]) <= Len(queues[d])
    BY DEF NoLonger
  <2> QED BY <1>1, <1>2, <2>1
<1>4. Places(shorter) \subseteq Places(queues)
  BY <1>3 DEF Places
<1>5. IsFiniteSet(Places(queues)) /\ IsFiniteSet(E)
  BY TotalType, FS_Subset
<1>6. ASSUME SameLengths(queues, shorter)
      PROVE  Places(shorter) = Places(queues)
  <2>1. ASSUME NEW d \in D, NEW i \in DOMAIN queues[d]
        PROVE  d \in E /\ i \in DOMAIN shorter[d]
    <3>1. Len(queues[d]) # 0
      BY <1>1
    <3>2. Len(queues[d]) = IF d \in E THEN Len(shorter[d]) ELSE 0
      BY <1>6 DEF SameLengths, LengthAt
    <3> QED BY <1>1, <1>2, <3>1, <3>2
  <2> QED BY <1>4, <2>1 DEF Places
<1> QED BY <1>4, <1>5, <1>6, FS_Subset DEF Total

-----------------------------------------------------------------------------
(* The queues and the statistics *)

Counters == [stored : Nat, delivered : Nat, expired : Nat, dropped : Nat,
             pending : Nat, tracked : Nat, online : Nat]

TypeInv ==
    /\ Queues(pending) /\ DOMAIN pending \subseteq Nodes
    /\ IsFiniteSet(DOMAIN online) /\ online \in [DOMAIN online -> BOOLEAN] /\ DOMAIN online \subseteq Nodes
    /\ next \in 0..MaxStored /\ aged \in 0..next /\ cleared \in Nat
    /\ handed \in Seq(Nodes \X Nat)
    /\ stats \in Counters

\* The limits, the statistics and where every message is.
Balance ==
    /\ \A d \in DOMAIN pending : Len(pending[d]) <= MaxPerDest
    /\ Total(pending) <= MaxTotal
    /\ stats.pending = Total(pending) /\ stats.tracked = Cardinality(DOMAIN pending)
    /\ stats.stored = Total(pending) + stats.delivered + stats.expired + cleared

LEMMA UpdatedFacts ==
    ASSUME NEW s \in Counters, Queues(pending'), IsFiniteSet(DOMAIN online'), stats' = Updated(s)
    PROVE  /\ stats' \in Counters
           /\ stats'.stored = s.stored /\ stats'.delivered = s.delivered /\ stats'.expired = s.expired
           /\ stats'.pending = Total(pending') /\ stats'.tracked = Cardinality(DOMAIN pending')
<1>1. Total(pending') \in Nat
  BY TotalType DEF Queues
<1>2. Cardinality(DOMAIN pending') \in Nat
  BY FS_CardinalityType DEF Queues
<1>3. Cardinality({n \in DOMAIN online' : online'[n]}) \in Nat
  <2>1. {n \in DOMAIN online' : online'[n]} \in SUBSET DOMAIN online'
    OBVIOUS
  <2> QED BY <2>1, FS_Subset, FS_CardinalityType
<1> QED BY <1>1, <1>2, <1>3 DEF Updated, Counters

\* A destination's queue, with an empty one for a destination without.
LEMMA QueueType ==
    ASSUME Queues(pending), NEW d
    PROVE  Queue(d) \in Seq(Nat) /\ Len(Queue(d)) \in Nat
<1>1. <<>> \in Seq(Nat)
  OBVIOUS
<1>2. Queue(d) \in Seq(Nat)
  BY <1>1 DEF Queues, Queue
<1> QED BY <1>2

\* What store_message keeps of the queue: all of it or all but the oldest.
LEMMA KeptFacts ==
    ASSUME NEW d, Queues(pending), Len(Queue(d)) <= MaxPerDest
    PROVE  /\ Kept(d) \in Seq(Nat) /\ Len(Kept(d)) \in Nat /\ Len(Kept(d)) < MaxPerDest
           /\ Len(Kept(d)) + (IF Full(d) THEN 1 ELSE 0) = Len(Queue(d))
           /\ \A i \in 1..Len(Kept(d)) :
                  Kept(d)[i] = Queue(d)[i + (IF Full(d) THEN 1 ELSE 0)]
<1>1. PICK q \in Seq(Nat) : q = Queue(d) /\ Len(q) \in Nat /\ Len(q) <= MaxPerDest
  BY QueueType
<1>2. MaxPerDest \in Nat \ {0}
  BY StoreAssumption
<1>3. CASE Full(d)
  <2>1. Len(q) >= MaxPerDest /\ Len(q) # 0
    BY <1>1, <1>2, <1>3 DEF Full
  <2>2. Tail(q) \in Seq(Nat) /\ Len(Tail(q)) = Len(q) - 1 /\ \A i \in 1..Len(Tail(q)) : Tail(q)[i] = q[i + 1]
    BY <2>1
  <2>3. Kept(d) = Tail(q)
    BY <1>1, <1>3 DEF Kept
  <2> QED BY <1>1, <1>2, <1>3, <2>1, <2>2, <2>3
<1>4. CASE ~Full(d)
  <2>1. Len(q) < MaxPerDest
    BY <1>1, <1>2, <1>4 DEF Full
  <2>2. Kept(d) = q
    BY <1>1, <1>4 DEF Kept
  <2> QED BY <1>1, <1>2, <1>4, <2>1, <2>2
<1> QED BY <1>3, <1>4

\* What goes out and what stays of a queue.
LEMMA OutFacts ==
    ASSUME Queues(pending), NEW d, NEW n \in 0..Len(Queue(d))
    PROVE  /\ SubSeq(Queue(d), 1, n) \in Seq(Nat) /\ Len(SubSeq(Queue(d), 1, n)) = n
           /\ \A i \in 1..n : SubSeq(Queue(d), 1, n)[i] = Queue(d)[i]
           /\ Rest(d, n) \in Seq(Nat) /\ Len(Rest(d, n)) = Len(Queue(d)) - n
           /\ \A i \in 1..Len(Rest(d, n)) : Rest(d, n)[i] = Queue(d)[i + n]
<1>1. PICK q \in Seq(Nat) : q = Queue(d) /\ Len(q) \in Nat
  BY QueueType
<1>2. PICK m \in 0..Len(q) : m = n
  BY <1>1
<1>3. SubSeq(q, 1, m) \in Seq(Nat) /\ Len(SubSeq(q, 1, m)) = m /\ \A i \in 1..m : SubSeq(q, 1, m)[i] = q[i]
  BY <1>1
<1>4. /\ SubSeq(q, m + 1, Len(q)) \in Seq(Nat) /\ Len(SubSeq(q, m + 1, Len(q))) = Len(q) - m
      /\ \A i \in 1..(Len(q) - m) : SubSeq(q, m + 1, Len(q))[i] = q[i + m]
  BY <1>1
<1>5. Rest(d, n) = SubSeq(q, m + 1, Len(q))
  BY <1>1, <1>2 DEF Rest
<1> QED BY <1>1, <1>2, <1>3, <1>4, <1>5

-----------------------------------------------------------------------------
(* Expiry: what maintenance keeps of a queue *)

\* Some of the first i messages of a queue, in their order.
PickedFrom(kept, queue, i) ==
    /\ kept \in Seq(Nat) /\ Len(kept) <= i
    /\ \A k \in 1..Len(kept) : \E j \in 1..i : kept[k] = queue[j]
    /\ Increasing(queue) => \A k, l \in 1..Len(kept) : k < l => kept[k] < kept[l]

LEMMA PickedMore ==
    ASSUME NEW queue \in Seq(Nat), NEW i \in Nat, i + 1 \in 1..Len(queue), NEW kept, PickedFrom(kept, queue, i)
    PROVE  PickedFrom(kept, queue, i + 1) /\ PickedFrom(Append(kept, queue[i + 1]), queue, i + 1)
<1>1. kept \in Seq(Nat) /\ Len(kept) \in Nat /\ Len(kept) <= i
  BY DEF PickedFrom
<1>2. PICK x \in Nat : x = queue[i + 1]
  OBVIOUS
<1>3. PICK more : more = Append(kept, x)
  OBVIOUS
<1>4. /\ more \in Seq(Nat) /\ Len(more) = Len(kept) + 1 /\ more[Len(kept) + 1] = x
      /\ \A k \in 1..Len(kept) : more[k] = kept[k]
  BY <1>1, <1>3
<1>5. PickedFrom(kept, queue, i + 1)
  BY <1>1 DEF PickedFrom
<1>6. \A k \in 1..Len(more) : \E j \in 1..(i + 1) : more[k] = queue[j]
  <2> TAKE k \in 1..Len(more)
  <2>1. CASE k = Len(kept) + 1
    BY <1>2, <1>4, <2>1
  <2>2. CASE k # Len(kept) + 1
    <3>1. k \in 1..Len(kept)
      BY <1>1, <1>4, <2>2
    <3>2. PICK j \in 1..i : kept[k] = queue[j]
      BY <3>1 DEF PickedFrom
    <3> QED BY <1>4, <3>1, <3>2, SMTT(30)
  <2> QED BY <2>1, <2>2
<1>7. ASSUME Increasing(queue), NEW k \in 1..Len(more), NEW l \in 1..Len(more), k < l
      PROVE  more[k] < more[l]
  <2>1. k \in 1..Len(kept) /\ more[k] = kept[k]
    <3>1. PICK m \in Nat : m = Len(kept)
      BY <1>1
    <3>2. k \in 1..(m + 1) /\ l \in 1..(m + 1)
      BY <1>4, <3>1
    <3>3. k \in 1..m
      BY <1>7, <3>2
    <3> QED BY <1>4, <3>1, <3>3
  <2>2. CASE l = Len(kept) + 1
    <3>1. PICK j \in 1..i : kept[k] = queue[j]
      BY <2>1 DEF PickedFrom
    <3>2. j \in DOMAIN queue /\ i + 1 \in DOMAIN queue /\ j < i + 1
      OBVIOUS
    <3>3. queue[j] < queue[i + 1]
      BY <1>7, <3>2 DEF Increasing
    <3> QED BY <1>2, <1>4, <2>1, <2>2, <3>1, <3>3
  <2>3. CASE l # Len(kept) + 1
    <3>1. l \in 1..Len(kept)
      BY <1>1, <1>4, <2>3
    <3> QED BY <1>4, <1>7, <2>1, <3>1 DEF PickedFrom
  <2> QED BY <2>2, <2>3
<1>8. PickedFrom(more, queue, i + 1)
  BY <1>1, <1>4, <1>6, <1>7 DEF PickedFrom
<1> QED BY <1>2, <1>3, <1>5, <1>8

LEMMA YoungFacts ==
    ASSUME NEW queue \in Seq(Nat), aged \in Nat
    PROVE  PickedFrom(Young(queue)[Len(queue)], queue, Len(queue))
<1> DEFINE Equation(f) == f = [i \in 0..Len(queue) |->
               IF i = 0 THEN <<>> ELSE Retain(f[i - 1], queue[i])]
<1>1. PICK n \in Nat : n = Len(queue)
  OBVIOUS
<1>2. \A i \in 1..n : queue[i] \in Nat
  BY <1>1
<1>3. PICK step : step = [i \in 1..n |-> [s \in Seq(Nat) |-> Retain(s, queue[i])]]
  OBVIOUS
<1>4. step \in [1..n -> [Seq(Nat) -> Seq(Nat)]] /\ <<>> \in Seq(Nat)
  BY <1>2, <1>3 DEF Retain
<1>5. PICK f : Built(f, Seq(Nat), n, <<>>, step)
  BY <1>4, FiniteRecursion
<1>6. Equation(f)
  <2>1. ASSUME NEW i \in 1..n
        PROVE  f[i] = Retain(f[i - 1], queue[i])
    <3>1. f[i - 1] \in Seq(Nat) /\ f[i] = step[i][f[i - 1]]
      BY <1>5 DEF Built
    <3> QED BY <1>3, <3>1
  <2>2. f = [i \in 0..n |-> f[i]] /\ f[0] = <<>>
    BY <1>5 DEF Built
  <2> QED BY <1>1, <2>1, <2>2, SMTT(30)
<1>7. Equation(Young(queue))
  BY <1>6 DEF Young
<1>8. PICK a : /\ a = Young(queue) /\ a[0] = <<>>
               /\ \A i \in 1..n : a[i] = Retain(a[i - 1], queue[i])
  BY <1>1, <1>7
<1> DEFINE T == {i \in Nat : i <= n => PickedFrom(a[i], queue, i)}
<1>9. 0 \in T
  <2>1. PickedFrom(<<>>, queue, 0)
    BY <1>4 DEF PickedFrom
  <2> QED BY <1>8, <2>1
<1>10. ASSUME NEW i \in T PROVE i + 1 \in T
  <2> SUFFICES ASSUME i + 1 <= n PROVE PickedFrom(a[i + 1], queue, i + 1)
    OBVIOUS
  <2>1. i \in Nat /\ i + 1 \in 1..n /\ (i + 1) - 1 = i /\ PickedFrom(a[i], queue, i)
    OBVIOUS
  <2>2. a[i + 1] = Retain(a[i], queue[i + 1])
    BY <1>8, <2>1
  <2>3. PickedFrom(a[i], queue, i + 1) /\ PickedFrom(Append(a[i], queue[i + 1]), queue, i + 1)
    BY <1>1, <2>1, PickedMore
  <2>4. CASE queue[i + 1] >= aged
    BY <2>2, <2>3, <2>4 DEF Retain
  <2>5. CASE ~(queue[i + 1] >= aged)
    BY <2>2, <2>3, <2>5 DEF Retain
  <2> QED BY <2>4, <2>5
<1>11. T = Nat
  <2> HIDE DEF T
  <2>1. T \in SUBSET Nat
    BY DEF T
  <2> QED BY <1>9, <1>10, <2>1, SetInduction
<1>12. PickedFrom(a[n], queue, n)
  BY <1>11
<1> QED BY <1>1, <1>8, <1>12

-----------------------------------------------------------------------------
(* The ids remembered as delivered *)

EndOf(e, s, n, m) ==
    /\ e \in Seq(Nat) /\ Len(e) = m
    /\ \A i \in 1..m : e[i] = s[n - m + i]

LEMMA EndingFacts ==
    ASSUME NEW s \in Seq(Nat), NEW w \in Nat \ {0}, NEW n \in Nat, n = Len(s),
           NEW m \in Nat, n <= w => m = n, ~(n <= w) => m = w
    PROVE  EndOf(Ending(w, s), s, n, m)
<1>1. CASE n <= w
  BY <1>1, SMTT(30) DEF Ending, EndOf
<1>2. CASE ~(n <= w)
  <2>1. PICK a \in 1..n : a = n - w + 1
    <3>1. n - w + 1 \in 1..n
      BY <1>2
    <3> QED BY <3>1
  <2>2. Ending(w, s) = SubSeq(s, a, n) /\ m = w
    BY <1>2, <2>1 DEF Ending
  <2>3. SubSeq(s, a, n) \in Seq(Nat) /\ Len(SubSeq(s, a, n)) = n - a + 1
        /\ \A i \in 1..(n - a + 1) : SubSeq(s, a, n)[i] = s[a + i - 1]
    BY <2>1
  <2>4. n - a + 1 = m /\ \A i \in 1..m : a + i - 1 = n - m + i
    BY <1>2, <2>1, <2>2
  <2> QED BY <2>2, <2>3, <2>4 DEF EndOf
<1> QED BY <1>1, <1>2

\* What is remembered and what comes next tell what is remembered then.
LEMMA EndingGoesOn ==
    ASSUME NEW s \in Seq(Nat), NEW more \in Seq(Nat)
    PROVE  Ending(MaxDelivered, Ending(MaxDelivered, s) \o more) = Ending(MaxDelivered, s \o more)
<1>1. PICK w \in Nat \ {0} : w = MaxDelivered
  BY StoreAssumption
<1>2. PICK ls \in Nat : ls = Len(s)
  OBVIOUS
<1>3. PICK lm \in Nat : lm = Len(more)
  OBVIOUS
<1>4. PICK lt \in Nat : lt = IF ls <= w THEN ls ELSE w
  OBVIOUS
<1>5. PICK t : t = Ending(w, s)
  OBVIOUS
<1>6. t \in Seq(Nat) /\ Len(t) = lt /\ \A i \in 1..lt : t[i] = s[ls - lt + i]
  <2>1. (ls <= w => lt = ls) /\ (~(ls <= w) => lt = w)
    BY <1>4
  <2>2. EndOf(t, s, ls, lt)
    BY <1>2, <1>5, <2>1, EndingFacts, Zenon
  <2> QED BY <2>2 DEF EndOf
<1>7. PICK sm : sm = s \o more
  OBVIOUS
<1>8. PICK tm : tm = t \o more
  OBVIOUS
<1>9. PICK lsm \in Nat, ltm \in Nat : lsm = ls + lm /\ ltm = lt + lm
  OBVIOUS
<1>10. sm \in Seq(Nat) /\ Len(sm) = lsm
  BY <1>2, <1>3, <1>7, <1>9
<1>11. \A i \in 1..lsm : sm[i] = IF i <= ls THEN s[i] ELSE more[i - ls]
  BY <1>2, <1>3, <1>7, <1>9
<1>12. tm \in Seq(Nat) /\ Len(tm) = ltm
  <2>1. t \in Seq(Nat) /\ Len(t) = lt
    BY <1>6
  <2> QED BY <1>3, <1>8, <1>9, <2>1
<1>13. \A i \in 1..ltm : tm[i] = IF i <= lt THEN t[i] ELSE more[i - lt]
  <2>1. t \in Seq(Nat) /\ Len(t) = lt
    BY <1>6
  <2>2. \A i \in 1..(Len(t) + Len(more)) : tm[i] = IF i <= Len(t) THEN t[i] ELSE more[i - Len(t)]
    BY <1>8, <2>1, ConcatProperties
  <2>3. Len(t) + Len(more) = ltm
    BY <1>3, <1>9, <2>1
  <2> QED BY <2>1, <2>2, <2>3
<1>14. PICK la \in Nat : la = IF ltm <= w THEN ltm ELSE w
  OBVIOUS
<1>15. la = (IF lsm <= w THEN lsm ELSE w) /\ la <= ltm /\ la <= lsm
  BY <1>4, <1>9, <1>14
<1> DEFINE a == Ending(w, tm)
           b == Ending(w, sm)
<1> HIDE DEF a, b
<1>16. a \in Seq(Nat) /\ Len(a) = la /\ \A i \in 1..la : a[i] = tm[ltm - la + i]
  <2>1. (ltm <= w => la = ltm) /\ (~(ltm <= w) => la = w)
    BY <1>14
  <2>2. EndOf(a, tm, ltm, la)
    BY <1>12, <2>1, EndingFacts, Zenon DEF a
  <2> QED BY <2>2 DEF EndOf
<1>17. b \in Seq(Nat) /\ Len(b) = la /\ \A i \in 1..la : b[i] = sm[lsm - la + i]
  <2>1. (lsm <= w => la = lsm) /\ (~(lsm <= w) => la = w)
    BY <1>15
  <2>2. EndOf(b, sm, lsm, la)
    BY <1>10, <2>1, EndingFacts, Zenon DEF b
  <2> QED BY <2>2 DEF EndOf
<1>18. ASSUME NEW i \in 1..la PROVE a[i] = b[i]
  <2>0. la <= ltm /\ la <= lsm
    BY <1>15
  <2>1. PICK j \in 1..ltm : j = ltm - la + i
    BY <2>0
  <2>2. PICK k \in 1..lsm : k = lsm - la + i
    BY <2>0
  <2>3. a[i] = tm[j] /\ b[i] = sm[k]
    BY <1>16, <1>17, <2>1, <2>2
  <2>4. k - ls = j - lt
    BY <1>9, <2>1, <2>2
  <2>5. CASE j <= lt
    <3>1. tm[j] = s[ls - lt + j]
      BY <1>6, <1>13, <2>5, SMTT(30)
    <3>2. k <= ls /\ k = ls - lt + j
      BY <2>4, <2>5
    <3> QED BY <1>11, <2>3, <3>1, <3>2
  <2>6. CASE ~(j <= lt)
    <3>1. ~(k <= ls)
      BY <2>4, <2>6
    <3> QED BY <1>11, <1>13, <2>3, <2>4, <2>6, <3>1
  <2> QED BY <2>5, <2>6
<1>19. a = b
  BY <1>16, <1>17, <1>18, SeqEqual
<1> QED BY <1>1, <1>5, <1>7, <1>8, <1>19 DEF a, b

-----------------------------------------------------------------------------
(* The steps: types, limits and the balance *)

\* A message goes out after all that went out before.
LEMMA HandedFacts ==
    ASSUME TypeInv, NEW d \in Nodes, NEW n \in 0..Len(Queue(d)), HandOut(d, n)
    PROVE  /\ handed' \in Seq(Nodes \X Nat) /\ Len(handed') = Len(handed) + n
           /\ \A i \in 1..Len(handed) : handed'[i] = handed[i]
           /\ \A i \in 1..n : handed'[Len(handed) + i] = <<d, Queue(d)[i]>>
<1>1. PICK out : out = SubSeq(Queue(d), 1, n)
  OBVIOUS
<1>2. n \in Nat /\ out \in Seq(Nat) /\ Len(out) = n /\ \A i \in 1..n : out[i] = Queue(d)[i]
  <2>1. Len(Queue(d)) \in Nat
    BY QueueType DEF TypeInv
  <2> QED BY <1>1, <2>1, OutFacts DEF TypeInv
<1>3. PICK more : more = [i \in 1..n |-> <<d, out[i]>>]
  OBVIOUS
<1>4. \A i \in 1..n : <<d, out[i]>> \in Nodes \X Nat
  BY <1>2
<1>5. more \in [1..n -> Nodes \X Nat]
  BY <1>3, <1>4
<1>6. more \in Seq(Nodes \X Nat) /\ Len(more) = n
  BY <1>2, <1>5
<1>7. handed' = handed \o more
  <2>1. handed' = handed \o [i \in 1..Len(out) |-> <<d, out[i]>>]
    BY <1>1 DEF HandOut
  <2> QED BY <1>2, <1>3, <2>1
<1>8. handed \in Seq(Nodes \X Nat) /\ Len(handed) \in Nat
  BY DEF TypeInv
<1>9. /\ handed' \in Seq(Nodes \X Nat) /\ Len(handed') = Len(handed) + Len(more)
      /\ \A i \in 1..(Len(handed) + Len(more)) :
             handed'[i] = IF i <= Len(handed) THEN handed[i] ELSE more[i - Len(handed)]
  BY <1>6, <1>7, <1>8, ConcatProperties
<1>10. \A i \in 1..Len(handed) : handed'[i] = handed[i]
  BY <1>2, <1>6, <1>8, <1>9, SMTT(30)
<1>11. ASSUME NEW i \in 1..n PROVE handed'[Len(handed) + i] = <<d, Queue(d)[i]>>
  <2> PICK h \in Nat : h = Len(handed)
    BY <1>8
  <2>1. PICK j \in 1..(Len(handed) + n) : j = Len(handed) + i /\ ~(j <= Len(handed)) /\ j - Len(handed) = i
    <3>1. h + i \in 1..(h + n) /\ ~(h + i <= h) /\ (h + i) - h = i
      BY <1>2
    <3> QED BY <3>1
  <2>2. handed'[j] = more[i]
    BY <1>6, <1>9, <2>1
  <2> QED BY <1>2, <1>3, <2>1, <2>2
<1> QED BY <1>6, <1>9, <1>10, <1>11

LEMMA HandOutCounts ==
    ASSUME TypeInv, NEW d \in Nodes, NEW n \in 0..Len(Queue(d)), HandOut(d, n), Queues(pending'), UNCHANGED online
    PROVE  /\ stats' \in Counters
           /\ stats'.stored = stats.stored /\ stats'.delivered = stats.delivered + n /\ stats'.expired = stats.expired
           /\ stats'.pending = Total(pending') /\ stats'.tracked = Cardinality(DOMAIN pending')
<1>1. n \in Nat /\ Len(SubSeq(Queue(d), 1, n)) = n
  <2>1. Len(Queue(d)) \in Nat
    BY QueueType DEF TypeInv
  <2> QED BY <2>1, OutFacts DEF TypeInv
<1>2. PICK s \in Counters : s = [stats EXCEPT !.delivered = @ + n]
  <2>1. stats \in Counters
    BY DEF TypeInv
  <2>2. [stats EXCEPT !.delivered = @ + n] \in Counters
    BY <1>1, <2>1 DEF Counters
  <2> QED BY <2>2
<1>3. s.stored = stats.stored /\ s.delivered = stats.delivered + n /\ s.expired = stats.expired
  BY <1>2 DEF TypeInv, Counters
<1>4. stats' = Updated(s)
  BY <1>1, <1>2 DEF HandOut
<1> QED BY <1>3, <1>4, UpdatedFacts DEF TypeInv

LEMMA StoreStep ==
    ASSUME TypeInv, Balance, NEW d \in Nodes, StoreMessage(d)
    PROVE  TypeInv' /\ Balance'
<1>1. next' \in 0..MaxStored /\ next \in Nat /\ aged' \in 0..next' /\ UNCHANGED <<online, handed, cleared>>
  BY StoreAssumption DEF StoreMessage, TypeInv
<1> PICK total \in Nat : total = Total(pending)
  <2>1. IsFiniteSet(DOMAIN pending) /\ pending \in [DOMAIN pending -> Seq(Nat)]
    BY DEF TypeInv, Queues
  <2> QED BY <2>1, TotalType
<1> PICK maxTotal \in Nat : maxTotal = MaxTotal
  BY StoreAssumption
<1>2. CASE Total(pending) >= MaxTotal
  <2>1. UNCHANGED pending /\ stats' = [stats EXCEPT !.dropped = @ + 1]
    <3>1. ~(total < maxTotal)
      BY <1>2
    <3> QED BY <3>1 DEF StoreMessage
  <2>2. stats' \in Counters /\ \A x \in {"stored", "delivered", "expired", "pending", "tracked"} : stats'[x] = stats[x]
    <3>1. stats \in Counters
      BY DEF TypeInv
    <3> QED BY <2>1, <3>1 DEF Counters
  <2>3. TypeInv'
    BY <1>1, <2>1, <2>2 DEF TypeInv, Queues
  <2>4. Balance'
    BY <1>1, <2>1, <2>2 DEF Balance
  <2> QED BY <2>3, <2>4
<1>3. CASE ~(Total(pending) >= MaxTotal)
  <2>1. PICK f \in {0, 1} : f = IF Full(d) THEN 1 ELSE 0
    OBVIOUS
  <2>2. /\ pending' = With(pending, d, Append(Kept(d), next))
        /\ stats' = Updated([stats EXCEPT !.stored = @ + 1, !.expired = @ + f])
    BY <1>3, <2>1 DEF StoreMessage
  <2>3. Len(Queue(d)) <= MaxPerDest
    BY StoreAssumption DEF Balance, Queue
  <2>4. PICK kept \in Seq(Nat) : /\ kept = Kept(d) /\ Len(kept) \in Nat /\ Len(kept) < MaxPerDest
                                 /\ Len(kept) + f = Len(Queue(d))
    BY <2>1, <2>3, KeptFacts DEF TypeInv
  <2>5. PICK s \in Seq(Nat) : s = Append(kept, next) /\ Len(s) = Len(kept) + 1
    <3>1. Append(kept, next) \in Seq(Nat) /\ Len(Append(kept, next)) = Len(kept) + 1
      BY <1>1
    <3> QED BY <3>1
  <2>6. pending' = With(pending, d, s)
    BY <2>2, <2>4, <2>5
  <2>7. /\ Total(pending') = Len(s) + Total(pending) - LengthAt(pending, d)
        /\ Queues(pending') /\ DOMAIN pending' = DOMAIN pending \cup {d}
    BY <2>6, TotalWith DEF TypeInv
  <2>8. Total(pending) \in Nat
    OBVIOUS
  <2>9. Total(pending') = Total(pending) + 1 - f
    <3>1. Len(Queue(d)) = LengthAt(pending, d)
      BY DEF Queue, LengthAt
    <3> QED BY <2>4, <2>5, <2>7, <2>8, <3>1
  <2>10. PICK c \in Counters : c = [stats EXCEPT !.stored = @ + 1, !.expired = @ + f]
    <3>1. stats \in Counters
      BY DEF TypeInv
    <3>2. [stats EXCEPT !.stored = @ + 1, !.expired = @ + f] \in Counters
      <4>1. stats.stored + 1 \in Nat /\ stats.expired + f \in Nat
        BY <3>1 DEF Counters
      <4> QED BY <3>1, <4>1 DEF Counters
    <3> QED BY <3>2
  <2>11. c.stored = stats.stored + 1 /\ c.delivered = stats.delivered /\ c.expired = stats.expired + f
    BY <2>10 DEF TypeInv, Counters
  <2>12. /\ stats' \in Counters
         /\ stats'.stored = c.stored /\ stats'.delivered = c.delivered /\ stats'.expired = c.expired
         /\ stats'.pending = Total(pending') /\ stats'.tracked = Cardinality(DOMAIN pending')
    BY <1>1, <2>2, <2>7, <2>10, UpdatedFacts DEF TypeInv
  <2>13. TypeInv'
    BY <1>1, <2>7, <2>12 DEF TypeInv
  <2>14. ASSUME NEW e \in DOMAIN pending' PROVE Len(pending'[e]) <= MaxPerDest
    <3>1. CASE e = d
      <4>1. pending'[e] = s
        BY <2>2, <2>4, <2>5, <3>1 DEF With
      <4> QED BY <2>4, <2>5, <4>1, StoreAssumption
    <3>2. CASE e # d
      <4>1. e \in DOMAIN pending /\ pending'[e] = pending[e]
        BY <2>2, <2>7, <3>2 DEF With
      <4> QED BY <4>1 DEF Balance
    <3> QED BY <3>1, <3>2
  <2>15. Total(pending') <= MaxTotal
    BY <1>3, <2>8, <2>9, StoreAssumption
  <2>16. stats'.stored = Total(pending') + stats'.delivered + stats'.expired + cleared'
    <3>1. stats.stored \in Nat /\ stats.delivered \in Nat /\ stats.expired \in Nat /\ cleared \in Nat
      BY DEF TypeInv, Counters
    <3>2. stats.stored = Total(pending) + stats.delivered + stats.expired + cleared
      BY DEF Balance
    <3>3. total + 1 - f \in Nat /\ Total(pending') = total + 1 - f
      BY <2>9
    <3>4. PICK a \in Nat, b \in Nat, e \in Nat, k \in Nat :
              a = stats.stored /\ b = stats.delivered /\ e = stats.expired /\ k = cleared
      BY <3>1
    <3>5. a + 1 = (total + 1 - f) + b + (e + f) + k
      <4>1. a = total + b + e + k
        BY <3>2, <3>4
      <4>2. f \in Nat
        OBVIOUS
      <4> QED BY <4>1, <4>2, SMTT(30)
    <3> QED BY <1>1, <2>11, <2>12, <3>3, <3>4, <3>5
  <2>17. Balance'
    BY <2>12, <2>14, <2>15, <2>16 DEF Balance
  <2> QED BY <2>13, <2>17
<1> QED BY <1>2, <1>3

LEMMA TotalIsNat == TypeInv => Total(pending) \in Nat
<1> SUFFICES ASSUME TypeInv PROVE Total(pending) \in Nat
  OBVIOUS
<1>1. IsFiniteSet(DOMAIN pending) /\ pending \in [DOMAIN pending -> Seq(Nat)]
  BY DEF TypeInv, Queues
<1> QED BY <1>1, TotalType

\* What both ways of handing out have in common.
LEMMA OutStep ==
    ASSUME TypeInv, Balance, NEW d \in Nodes, NEW n \in 0..Len(Queue(d)), HandOut(d, n),
           Queues(pending'), DOMAIN pending' \subseteq Nodes, Total(pending') = Total(pending) - n,
           \A e \in DOMAIN pending' : Len(pending'[e]) <= MaxPerDest, UNCHANGED <<online, next, aged, cleared>>
    PROVE  TypeInv' /\ Balance'
<1>1. /\ stats' \in Counters
      /\ stats'.stored = stats.stored /\ stats'.delivered = stats.delivered + n /\ stats'.expired = stats.expired
      /\ stats'.pending = Total(pending') /\ stats'.tracked = Cardinality(DOMAIN pending')
  BY HandOutCounts
<1>2. handed' \in Seq(Nodes \X Nat)
  BY HandedFacts
<1>3. TypeInv'
  BY <1>1, <1>2 DEF TypeInv
<1>4. Total(pending') \in Nat
  <2>1. IsFiniteSet(DOMAIN pending') /\ pending' \in [DOMAIN pending' -> Seq(Nat)]
    BY DEF Queues
  <2> QED BY <2>1, TotalType
<1> QED
  <2>1. PICK total \in Nat, left \in Nat, k \in Nat, maxTotal \in Nat :
            total = Total(pending) /\ left = Total(pending') /\ k = n /\ maxTotal = MaxTotal
    <3>1. n \in Nat
      BY QueueType DEF TypeInv
    <3> QED BY <1>4, <3>1, TotalIsNat, StoreAssumption
  <2>2. left + k = total /\ total <= maxTotal
    BY <2>1 DEF Balance
  <2>3. Total(pending') <= MaxTotal
    BY <2>1, <2>2
  <2>4. PICK a \in Nat, b \in Nat, e \in Nat, c \in Nat :
            a = stats.stored /\ b = stats.delivered /\ e = stats.expired /\ c = cleared
    BY DEF TypeInv, Counters
  <2>5. a = total + b + e + c
    BY <2>1, <2>4 DEF Balance
  <2>6. a = left + (b + k) + e + c
    BY <2>2, <2>5
  <2>7. stats'.stored = Total(pending') + stats'.delivered + stats'.expired + cleared'
    BY <1>1, <2>1, <2>4, <2>6
  <2> QED BY <1>1, <1>3, <2>3, <2>7 DEF Balance

LEMMA RetrieveStep ==
    ASSUME TypeInv, Balance, NEW d \in Nodes, RetrieveMessages(d)
    PROVE  TypeInv' /\ Balance'
<1>1. d \in DOMAIN pending /\ Queue(d) = pending[d] /\ pending' = Without(pending, d)
  BY DEF RetrieveMessages, Queue, Without
<1>2. PICK n \in 0..Len(Queue(d)) : n = Len(pending[d])
  <2>1. Len(Queue(d)) \in Nat
    BY QueueType DEF TypeInv
  <2> QED BY <1>1, <2>1
<1>3. HandOut(d, n) /\ UNCHANGED <<online, next, aged, cleared>>
  BY <1>2 DEF RetrieveMessages
<1>4. IsFiniteSet(DOMAIN pending) /\ pending \in [DOMAIN pending -> Seq(Nat)]
  BY DEF TypeInv, Queues
<1>5. DOMAIN pending' = DOMAIN pending \ {d} /\ pending' \in [DOMAIN pending \ {d} -> Seq(Nat)]
  BY <1>1, <1>4 DEF Without
<1>6. Queues(pending') /\ DOMAIN pending' \subseteq Nodes
  <2>1. IsFiniteSet(DOMAIN pending \ {d})
    BY <1>4, FS_RemoveElement
  <2>2. DOMAIN pending \subseteq Nodes
    BY DEF TypeInv
  <2> QED BY <1>5, <2>1, <2>2 DEF Queues
<1>7. Total(pending') = Total(pending) - n
  <2>1. Total(pending) = Len(pending[d]) + Total(Without(pending, d)) /\ Total(Without(pending, d)) \in Nat
    BY <1>1, <1>4, TotalSplit
  <2>2. Len(pending[d]) \in Nat
    BY <1>1, QueueType DEF TypeInv
  <2> QED BY <1>1, <1>2, <2>1, <2>2
<1>8. \A e \in DOMAIN pending' : Len(pending'[e]) <= MaxPerDest
  BY <1>1, <1>5 DEF Without, Balance
<1> QED BY <1>3, <1>6, <1>7, <1>8, OutStep

LEMMA HistoryStep ==
    ASSUME TypeInv, Balance, NEW d \in Nodes, NEW limit \in Nat, RetrieveHistory(d, limit)
    PROVE  TypeInv' /\ Balance'
<1>1. d \in DOMAIN pending /\ Queue(d) = pending[d]
  BY DEF RetrieveHistory, Queue
<1>2. PICK n \in 0..Len(Queue(d)) : n = Min({limit, Len(pending[d])})
  <2>1. Len(Queue(d)) \in Nat
    BY QueueType DEF TypeInv
  <2> QED BY <1>1, <2>1, MinOfTwo
<1>3. HandOut(d, n) /\ pending' = [pending EXCEPT ![d] = Rest(d, n)] /\ UNCHANGED <<online, next, aged, cleared>>
  BY <1>2 DEF RetrieveHistory
<1>4. pending' = With(pending, d, Rest(d, n))
  <2>1. pending \in [DOMAIN pending -> Seq(Nat)]
    BY DEF TypeInv, Queues
  <2> QED BY <1>1, <1>3, <2>1 DEF With
<1>5. PICK q \in Nat : q = Len(Queue(d)) /\ n \in 0..q
  BY QueueType DEF TypeInv
<1>6. Rest(d, n) \in Seq(Nat) /\ Len(Rest(d, n)) = q - n
  BY <1>5, OutFacts DEF TypeInv
<1>7. /\ Total(pending') = Len(Rest(d, n)) + Total(pending) - LengthAt(pending, d)
      /\ Queues(pending') /\ DOMAIN pending' = DOMAIN pending \cup {d}
  BY <1>4, <1>6, TotalWith DEF TypeInv
<1>8. Total(pending') = Total(pending) - n
  <2>1. LengthAt(pending, d) = q
    BY <1>1, <1>5 DEF LengthAt
  <2> QED BY <1>5, <1>6, <1>7, <2>1, TotalIsNat, SMTT(30)
<1>9. ASSUME NEW e \in DOMAIN pending' PROVE Len(pending'[e]) <= MaxPerDest
  <2>1. CASE e = d
    <3>1. q <= MaxPerDest /\ MaxPerDest \in Nat
      BY <1>1, <1>5, StoreAssumption DEF Balance
    <3>2. pending'[e] = Rest(d, n)
      BY <1>4, <2>1 DEF With
    <3> QED BY <1>5, <1>6, <3>1, <3>2
  <2>2. CASE e # d
    BY <1>4, <1>7, <2>2 DEF With, Balance
  <2> QED BY <2>1, <2>2
<1>10. DOMAIN pending' \subseteq Nodes
  BY <1>7 DEF TypeInv
<1> QED BY <1>3, <1>7, <1>8, <1>9, <1>10, OutStep

\* Expiry takes messages away and then the queues that are empty.
LEMMA YoungQueues ==
    ASSUME TypeInv, Balance, Maintenance
    PROVE  /\ Queues(pending') /\ DOMAIN pending' \subseteq DOMAIN pending
           /\ \A d \in DOMAIN pending' : pending'[d] = Young(pending[d])[Len(pending[d])]
           /\ \A d \in DOMAIN pending' : Len(pending'[d]) <= Len(pending[d])
           /\ Total(pending') <= Total(pending)
           /\ stats' = Updated([stats EXCEPT !.expired = @ + (Total(pending) - Total(pending'))])
<1> DEFINE young == [d \in DOMAIN pending |-> Young(pending[d])[Len(pending[d])]]
<1>1. PICK D : D = DOMAIN pending /\ IsFiniteSet(D) /\ pending \in [D -> Seq(Nat)]
  BY DEF TypeInv, Queues
<1>2. aged \in Nat
  BY DEF TypeInv
<1>3. ASSUME NEW d \in D PROVE young[d] \in Seq(Nat) /\ Len(young[d]) <= Len(pending[d])
  <2>1. PickedFrom(Young(pending[d])[Len(pending[d])], pending[d], Len(pending[d]))
    BY <1>1, <1>2, YoungFacts
  <2> QED BY <1>1, <2>1 DEF PickedFrom
<1>4. young \in [D -> Seq(Nat)]
  BY <1>1, <1>3
<1>5. pending' = [d \in {e \in D : young[e] # <<>>} |-> young[d]]
  BY <1>1 DEF Maintenance
<1> HIDE DEF young
<1>6. PICK E \in SUBSET D : E = DOMAIN pending' /\ pending' \in [E -> Seq(Nat)]
  <2> DEFINE F == {e \in D : young[e] # <<>>}
  <2>1. F \in SUBSET D
    OBVIOUS
  <2>2. pending' = [d \in F |-> young[d]]
    BY <1>5
  <2> HIDE DEF F
  <2>3. \A d \in F : young[d] \in Seq(Nat)
    BY <1>4, <2>1
  <2>4. DOMAIN pending' = F /\ pending' \in [F -> Seq(Nat)]
    BY <2>2, <2>3
  <2> QED BY <2>1, <2>4
<1>7. \A d \in E : pending'[d] = young[d] /\ young[d] # <<>>
  BY <1>5, <1>6
<1>8. \A d \in D \ E : young[d] = <<>>
  BY <1>5, <1>6
<1>9. \A d \in E : Len(pending'[d]) <= Len(pending[d])
  BY <1>3, <1>6, <1>7
<1>10. IsFiniteSet(E) /\ Total(pending') <= Total(pending)
  <2>1. NoLonger(pending', pending)
    BY <1>6, <1>9 DEF NoLonger
  <2> QED BY <1>1, <1>6, <2>1, TotalLess
<1>11. Total(pending') = Total(young)
  <2>1. \A d \in E : Len(pending'[d]) <= Len(young[d])
    <3>1. \A d \in E : pending'[d] = young[d] /\ Len(young[d]) \in Nat
      BY <1>4, <1>6, <1>7
    <3> QED BY <3>1
  <2>2. \A d \in D : Len(young[d]) = IF d \in E THEN Len(pending'[d]) ELSE 0
    <3>1. \A d \in D \ E : Len(young[d]) = 0
      BY <1>8
    <3> QED BY <1>7, <3>1
  <2>3. PICK new \in [E -> Seq(Nat)] : new = pending'
    BY <1>6
  <2>4. NoLonger(new, young)
    BY <2>1, <2>3 DEF NoLonger
  <2>5. SameLengths(young, new)
    <3>1. DOMAIN young = D /\ DOMAIN new = E
      BY <1>4, <2>3
    <3> QED BY <2>2, <2>3, <3>1 DEF SameLengths, LengthAt
  <2>6. PICK kept \in [D -> Seq(Nat)] : kept = young
    BY <1>4
  <2>7. IsFiniteSet(D) /\ NoLonger(new, kept) /\ SameLengths(kept, new)
    BY <1>1, <2>4, <2>5, <2>6
  <2>8. Total(new) = Total(kept)
    BY <2>7, TotalLess, ZenonT(40)
  <2> QED BY <2>3, <2>6, <2>8
<1>12. stats' = Updated([stats EXCEPT !.expired = @ + (Total(pending) - Total(pending'))])
  BY <1>11 DEF Maintenance, Counted, young
<1>13. \A d \in DOMAIN pending' : pending'[d] = Young(pending[d])[Len(pending[d])]
  BY <1>1, <1>6, <1>7 DEF young
<1> QED BY <1>1, <1>6, <1>9, <1>10, <1>12, <1>13 DEF Queues

LEMMA MaintenanceStep ==
    ASSUME TypeInv, Balance, Maintenance
    PROVE  TypeInv' /\ Balance'
<1>1. UNCHANGED <<next, aged, handed, cleared>>
  BY DEF Maintenance
<1>2. DOMAIN online' = DOMAIN online /\ online' \in [DOMAIN online -> BOOLEAN]
  <2>1. PICK overdue : online' = [n \in DOMAIN online |-> online[n] /\ n \notin overdue]
    BY DEF Maintenance
  <2>2. \A n \in DOMAIN online : (online[n] /\ n \notin overdue) \in BOOLEAN
    OBVIOUS
  <2> QED BY <2>1, <2>2
<1>3. /\ Queues(pending') /\ DOMAIN pending' \subseteq DOMAIN pending
      /\ \A d \in DOMAIN pending' : Len(pending'[d]) <= Len(pending[d])
      /\ Total(pending') <= Total(pending)
  BY YoungQueues
<1>4. PICK total \in Nat, left \in Nat, maxTotal \in Nat :
          total = Total(pending) /\ left = Total(pending') /\ maxTotal = MaxTotal
  <2>1. IsFiniteSet(DOMAIN pending') /\ pending' \in [DOMAIN pending' -> Seq(Nat)]
    BY <1>3 DEF Queues
  <2> QED BY <2>1, TotalType, TotalIsNat, StoreAssumption
<1>5. PICK gone \in Nat : gone = total - left /\ left <= total /\ left <= maxTotal
  <2>1. left <= total /\ total <= maxTotal
    BY <1>3, <1>4 DEF Balance
  <2> QED BY <2>1
<1>6. stats \in Counters
  BY DEF TypeInv
<1>7. PICK s \in Counters : s = [stats EXCEPT !.expired = @ + gone]
  <2>1. stats.expired + gone \in Nat
    BY <1>6 DEF Counters
  <2>2. [stats EXCEPT !.expired = @ + gone] \in Counters
    BY <1>6, <2>1 DEF Counters
  <2> QED BY <2>2
<1>8. s.stored = stats.stored /\ s.delivered = stats.delivered /\ s.expired = stats.expired + gone
  BY <1>6, <1>7 DEF Counters
<1>9. stats' = Updated(s)
  <2>1. stats' = Updated([stats EXCEPT !.expired = @ + (total - left)])
    BY <1>4, YoungQueues
  <2> QED BY <1>5, <1>7, <2>1
<1>10. IsFiniteSet(DOMAIN online')
  BY <1>2 DEF TypeInv
<1>11. /\ stats' \in Counters
       /\ stats'.stored = s.stored /\ stats'.delivered = s.delivered /\ stats'.expired = s.expired
       /\ stats'.pending = Total(pending') /\ stats'.tracked = Cardinality(DOMAIN pending')
  BY <1>3, <1>9, <1>10, UpdatedFacts
<1>12. TypeInv'
  BY <1>1, <1>2, <1>3, <1>10, <1>11 DEF TypeInv
<1>13. ASSUME NEW d \in DOMAIN pending' PROVE Len(pending'[d]) <= MaxPerDest
  <2>1. d \in DOMAIN pending /\ pending'[d] \in Seq(Nat) /\ pending[d] \in Seq(Nat)
    BY <1>3 DEF TypeInv, Queues
  <2>2. PICK a \in Nat, b \in Nat, max \in Nat : a = Len(pending'[d]) /\ b = Len(pending[d]) /\ max = MaxPerDest
    BY <2>1, StoreAssumption
  <2>3. a <= b /\ b <= max
    BY <1>3, <2>1, <2>2 DEF Balance
  <2> QED BY <2>2, <2>3
<1>14. stats'.stored = Total(pending') + stats'.delivered + stats'.expired + cleared'
  <2>1. PICK a \in Nat, b \in Nat, e \in Nat, c \in Nat :
            a = stats.stored /\ b = stats.delivered /\ e = stats.expired /\ c = cleared
    BY DEF TypeInv, Counters
  <2>2. a = total + b + e + c
    BY <1>4, <2>1 DEF Balance
  <2>3. a = left + b + (e + gone) + c
    BY <1>5, <2>2
  <2> QED BY <1>1, <1>4, <1>8, <1>11, <2>1, <2>3
<1>15. Total(pending') <= MaxTotal
  BY <1>4, <1>5
<1> QED BY <1>11, <1>12, <1>13, <1>14, <1>15 DEF Balance

LEMMA HeartbeatStep ==
    ASSUME TypeInv, Balance, NEW n \in Nodes, Heartbeat(n)
    PROVE  TypeInv' /\ Balance'
<1>1. UNCHANGED <<pending, next, aged, handed, cleared>>
  BY DEF Heartbeat
<1>2. /\ DOMAIN online' = DOMAIN online \cup {n} /\ online' \in [DOMAIN online \cup {n} -> BOOLEAN]
      /\ IsFiniteSet(DOMAIN online')
  <2>1. online' = With(online, n, TRUE)
    BY DEF Heartbeat
  <2>2. IsFiniteSet(DOMAIN online \cup {n})
    BY FS_AddElement DEF TypeInv
  <2>3. \A m \in DOMAIN online : online[m] \in BOOLEAN
    BY DEF TypeInv
  <2> QED BY <2>1, <2>2, <2>3 DEF With
<1>3. Queues(pending')
  BY <1>1 DEF TypeInv, Queues
<1>4. stats \in Counters
  BY DEF TypeInv
<1>5. /\ stats' \in Counters
      /\ stats'.stored = stats.stored /\ stats'.delivered = stats.delivered /\ stats'.expired = stats.expired
      /\ stats'.pending = Total(pending') /\ stats'.tracked = Cardinality(DOMAIN pending')
  <2>1. CASE stats' = Updated(stats)
    BY <1>2, <1>3, <1>4, <2>1, UpdatedFacts
  <2>2. CASE stats' = stats
    BY <1>1, <1>4, <2>2 DEF Balance
  <2> QED BY <2>1, <2>2 DEF Heartbeat
<1>6. TypeInv'
  BY <1>1, <1>2, <1>3, <1>5 DEF TypeInv
<1>7. Balance'
  BY <1>1, <1>5 DEF Balance
<1> QED BY <1>6, <1>7

LEMMA ClearStep ==
    ASSUME TypeInv, Balance, Clear
    PROVE  TypeInv' /\ Balance'
<1>1. pending' = NoMessages /\ UNCHANGED <<online, next, aged, handed>>
  BY DEF Clear
<1>2. Queues(pending') /\ DOMAIN pending' = {}
  BY <1>1, FS_EmptySet DEF Queues, NoMessages
<1>3. Total(pending') = 0 /\ Cardinality(DOMAIN pending') = 0
  <2>1. Places(pending') = {}
    BY <1>2 DEF Places
  <2> QED BY <1>2, <2>1, FS_EmptySet DEF Total
<1>4. PICK total \in Nat : total = Total(pending)
  BY TotalIsNat
<1>5. cleared' = cleared + total /\ cleared \in Nat /\ cleared' \in Nat
  BY <1>4 DEF Clear, TypeInv
<1>6. stats' \in Counters /\ stats'.stored = stats.stored /\ stats'.delivered = stats.delivered
      /\ stats'.expired = stats.expired /\ stats'.pending = 0 /\ stats'.tracked = 0
  <2>1. stats \in Counters
    BY DEF TypeInv
  <2>2. stats' = [stats EXCEPT !.pending = 0, !.tracked = 0]
    BY DEF Clear
  <2> QED BY <2>1, <2>2 DEF Counters
<1>7. TypeInv'
  BY <1>1, <1>2, <1>5, <1>6 DEF TypeInv
<1>8. stats'.stored = Total(pending') + stats'.delivered + stats'.expired + cleared'
  <2>1. PICK a \in Nat, b \in Nat, e \in Nat, c \in Nat :
            a = stats.stored /\ b = stats.delivered /\ e = stats.expired /\ c = cleared
    BY DEF TypeInv, Counters
  <2>2. a = total + b + e + c
    BY <1>4, <2>1 DEF Balance
  <2>3. a = 0 + b + e + (c + total)
    BY <2>2
  <2> QED BY <1>3, <1>5, <1>6, <2>1, <2>3
<1>9. Total(pending') <= MaxTotal
  BY <1>3, StoreAssumption
<1> QED BY <1>2, <1>3, <1>6, <1>7, <1>8, <1>9 DEF Balance

LEMMA NextBalance == TypeInv /\ Balance /\ [Next]_vars => TypeInv' /\ Balance'
<1> SUFFICES ASSUME TypeInv, Balance, [Next]_vars PROVE TypeInv' /\ Balance'
  OBVIOUS
<1>1. ASSUME NEW d \in Nodes, StoreMessage(d) PROVE TypeInv' /\ Balance'
  BY <1>1, StoreStep
<1>2. ASSUME NEW d \in Nodes, Heartbeat(d) PROVE TypeInv' /\ Balance'
  BY <1>2, HeartbeatStep
<1>3. ASSUME NEW d \in Nodes, RetrieveMessages(d) PROVE TypeInv' /\ Balance'
  BY <1>3, RetrieveStep
<1>4. ASSUME NEW d \in Nodes, NEW n \in 0..MaxPerDest, RetrieveHistory(d, n) PROVE TypeInv' /\ Balance'
  <2>1. n \in Nat
    BY StoreAssumption
  <2> QED BY <1>4, <2>1, HistoryStep
<1>5. CASE Age
  <2>1. UNCHANGED <<pending, online, next, stats, handed, cleared>> /\ aged' \in 0..next
    BY <1>5 DEF Age, TypeInv
  <2> QED BY <2>1 DEF TypeInv, Queues, Balance
<1>6. CASE Maintenance
  BY <1>6, MaintenanceStep
<1>7. CASE Clear
  BY <1>7, ClearStep
<1>8. CASE UNCHANGED vars
  BY <1>8 DEF vars, TypeInv, Queues, Balance
<1> QED BY <1>1, <1>2, <1>3, <1>4, <1>5, <1>6, <1>7, <1>8 DEF Next

LEMMA InitBalance == Init => TypeInv /\ Balance
<1> SUFFICES ASSUME Init PROVE TypeInv /\ Balance
  OBVIOUS
<1>1. Queues(NoMessages) /\ DOMAIN NoMessages = {} /\ Total(NoMessages) = 0 /\ Cardinality({}) = 0
  <2>1. DOMAIN NoMessages = {}
    BY DEF NoMessages
  <2>2. Places(NoMessages) = {}
    BY <2>1 DEF Places
  <2>3. NoMessages \in [DOMAIN NoMessages -> Seq(Nat)]
    BY <2>1 DEF NoMessages
  <2> QED BY <2>1, <2>2, <2>3, FS_EmptySet DEF Queues, Total
<1>2. online \in [DOMAIN online -> BOOLEAN] /\ DOMAIN online = {}
  BY DEF Init, NoMessages
<1>3. TypeInv
  BY <1>1, <1>2, FS_EmptySet, StoreAssumption DEF Init, TypeInv, Counters
<1>4. Balance
  <2>1. 0 <= MaxTotal
    BY StoreAssumption
  <2> QED BY <1>1, <2>1 DEF Init, Balance
<1> QED BY <1>3, <1>4

-----------------------------------------------------------------------------
(* The order of the messages *)

\* Ids grow along every queue, and along what each destination was handed, which
\* is older than what waits for it.
OrderInv ==
    /\ \A d \in DOMAIN pending : Increasing(pending[d])
    /\ \A d \in DOMAIN pending : \A k \in DOMAIN pending[d] : pending[d][k] < next
    /\ \A i \in DOMAIN handed : handed[i][2] < next
    /\ \A i, j \in DOMAIN handed : i < j /\ handed[i][1] = handed[j][1] => handed[i][2] < handed[j][2]
    /\ \A i \in DOMAIN handed : \A d \in DOMAIN pending :
           handed[i][1] = d => \A k \in DOMAIN pending[d] : handed[i][2] < pending[d][k]

\* The messages of every queue were in it before.
FromBefore ==
    \A d \in DOMAIN pending' :
        /\ d \in DOMAIN pending /\ Increasing(pending'[d])
        /\ \A k \in DOMAIN pending'[d] : \E j \in DOMAIN pending[d] : pending'[d][k] = pending[d][j]

LEMMA OrderKept ==
    ASSUME OrderInv, FromBefore, UNCHANGED <<next, handed>>
    PROVE  OrderInv'
<1>1. ASSUME NEW d \in DOMAIN pending'
      PROVE  Increasing(pending'[d]) /\ \A k \in DOMAIN pending'[d] : pending'[d][k] < next'
  BY DEF OrderInv, FromBefore
<1>2. ASSUME NEW i \in DOMAIN handed', NEW d \in DOMAIN pending', handed'[i][1] = d
      PROVE  \A k \in DOMAIN pending'[d] : handed'[i][2] < pending'[d][k]
  BY <1>2 DEF OrderInv, FromBefore
<1>3. /\ \A i \in DOMAIN handed' : handed'[i][2] < next'
      /\ \A i, j \in DOMAIN handed' : i < j /\ handed'[i][1] = handed'[j][1] => handed'[i][2] < handed'[j][2]
  BY DEF OrderInv
<1> QED BY <1>1, <1>2, <1>3 DEF OrderInv

\* What is left of a queue without its first n messages.
SuffixOf(rest, queue, n) ==
    Len(rest) + n = Len(queue) /\ \A k \in 1..Len(rest) : rest[k] = queue[k + n]

LEMMA SuffixFrom ==
    ASSUME NEW queue \in Seq(Nat), Increasing(queue), NEW n \in Nat, NEW rest \in Seq(Nat),
           SuffixOf(rest, queue, n)
    PROVE  /\ Increasing(rest)
           /\ \A k \in DOMAIN rest : k + n \in DOMAIN queue /\ rest[k] = queue[k + n]
<1>1. PICK r \in Nat, q \in Nat : r = Len(rest) /\ q = Len(queue) /\ r + n = q
  BY DEF SuffixOf
<1>2. DOMAIN rest = 1..r /\ DOMAIN queue = 1..q
  BY <1>1
<1>3. ASSUME NEW k \in 1..r PROVE k + n \in 1..q /\ rest[k] = queue[k + n]
  <2>1. k + n \in 1..q
    BY <1>1
  <2>2. k \in 1..Len(rest)
    BY <1>1
  <2>3. rest[k] = queue[k + n]
    BY <2>2 DEF SuffixOf
  <2> QED BY <2>1, <2>3
<1>4. ASSUME NEW k \in 1..r, NEW l \in 1..r, k < l PROVE rest[k] < rest[l]
  <2>1. k + n \in 1..q /\ l + n \in 1..q
    BY <1>3
  <2>3. k + n < l + n
    BY <1>4
  <2>2. queue[k + n] < queue[l + n]
    BY <1>2, <2>1, <2>3 DEF Increasing
  <2> QED BY <1>3, <2>2
<1> QED BY <1>2, <1>3, <1>4 DEF Increasing

LEMMA StoreOrder ==
    ASSUME TypeInv, Balance, OrderInv, NEW d \in Nodes, StoreMessage(d)
    PROVE  OrderInv'
<1>1. CASE UNCHANGED <<pending, next, handed>>
  BY <1>1 DEF OrderInv
<1>2. CASE pending' = With(pending, d, Append(Kept(d), next)) /\ next' = next + 1 /\ UNCHANGED handed
  <2>1. next \in Nat /\ next' = next + 1
    BY <1>2 DEF TypeInv
  <2>2. PICK f \in {0, 1} : f = IF Full(d) THEN 1 ELSE 0
    OBVIOUS
  <2>3. PICK q \in Seq(Nat) : q = Queue(d) /\ Len(q) <= MaxPerDest
    <3>1. Len(Queue(d)) <= MaxPerDest
      BY StoreAssumption DEF Balance, Queue
    <3> QED BY <3>1, QueueType DEF TypeInv
  <2>4. PICK kept \in Seq(Nat) : /\ kept = Kept(d) /\ Len(kept) + f = Len(q)
                                 /\ \A k \in 1..Len(kept) : kept[k] = q[k + f]
    BY <2>2, <2>3, KeptFacts DEF TypeInv
  <2>5. PICK s \in Seq(Nat) : /\ s = Append(kept, next) /\ Len(s) = Len(kept) + 1 /\ s[Len(kept) + 1] = next
                              /\ \A k \in 1..Len(kept) : s[k] = kept[k]
    <3>1. PICK a : a = Append(kept, next)
      OBVIOUS
    <3>2. /\ a \in Seq(Nat) /\ Len(a) = Len(kept) + 1 /\ a[Len(kept) + 1] = next
          /\ \A k \in 1..Len(kept) : a[k] = kept[k]
      BY <2>1, <3>1, AppendProperties
    <3> QED BY <3>1, <3>2
  <2>6. Increasing(q) /\ \A k \in DOMAIN q : q[k] < next
    BY <2>3 DEF OrderInv, Queue, Increasing
  <2>7. /\ Increasing(kept)
        /\ \A k \in DOMAIN kept : k + f \in DOMAIN q /\ kept[k] = q[k + f]
    <3>1. f \in Nat
      OBVIOUS
    <3>2. SuffixOf(kept, q, f)
      BY <2>4 DEF SuffixOf
    <3> QED BY <2>6, <3>1, <3>2, SuffixFrom
  <2>8. PICK n \in Nat : n = Len(kept) /\ DOMAIN kept = 1..n /\ DOMAIN s = 1..(n + 1)
    BY <2>5
  <2>9. \A k \in 1..n : kept[k] < next
    BY <2>6, <2>7, <2>8
  <2>10. ASSUME NEW k \in 1..(n + 1), NEW l \in 1..(n + 1), k < l PROVE s[k] < s[l]
    <3>1. k \in 1..n
      BY <2>10
    <3>2. CASE l = n + 1
      BY <2>5, <2>8, <2>9, <3>1, <3>2
    <3>3. CASE l # n + 1
      <4>1. l \in 1..n
        BY <3>3
      <4>2. kept[k] < kept[l]
        BY <2>7, <2>8, <2>10, <3>1, <4>1 DEF Increasing
      <4> QED BY <2>5, <2>8, <3>1, <4>1, <4>2
    <3> QED BY <3>2, <3>3
  <2>11. Increasing(s)
    BY <2>8, <2>10 DEF Increasing
  <2>12. DOMAIN pending' = DOMAIN pending \cup {d} /\ pending'[d] = s
         /\ \A e \in DOMAIN pending : e # d => pending'[e] = pending[e]
    BY <1>2, <2>4, <2>5 DEF With
  <2>13. ASSUME NEW e \in DOMAIN pending', NEW k \in DOMAIN pending'[e]
         PROVE  pending'[e][k] < next'
    <3>1. CASE e = d
      <4>1. CASE k = n + 1
        BY <2>1, <2>5, <2>8, <2>12, <3>1, <4>1
      <4>2. CASE k # n + 1
        <5>1. k \in 1..n /\ s[k] \in Nat
          BY <2>8, <2>12, <3>1, <4>2, SMTT(30)
        <5>2. s[k] < next
          BY <2>5, <2>8, <2>9, <5>1
        <5> QED BY <2>1, <2>12, <3>1, <5>1, <5>2
      <4> QED BY <4>1, <4>2
    <3>2. CASE e # d
      <4>1. e \in DOMAIN pending /\ pending'[e] = pending[e]
        BY <2>12, <3>2
      <4>2. pending[e][k] \in Nat
        BY <4>1 DEF TypeInv, Queues
      <4>3. pending[e][k] < next
        BY <4>1 DEF OrderInv
      <4> QED BY <2>1, <4>1, <4>2, <4>3
    <3> QED BY <3>1, <3>2
  <2>14. ASSUME NEW i \in DOMAIN handed' PROVE handed'[i][2] < next' /\ handed'[i][2] < next /\ i \in DOMAIN handed
    <3>1. handed'[i] = handed[i] /\ i \in DOMAIN handed /\ handed[i][2] \in Nat
      BY <1>2 DEF TypeInv
    <3>2. handed[i][2] < next
      BY <3>1 DEF OrderInv
    <3> QED BY <2>1, <3>1, <3>2
  <2>15. ASSUME NEW i \in DOMAIN handed', NEW e \in DOMAIN pending', handed'[i][1] = e, NEW k \in DOMAIN pending'[e]
         PROVE  handed'[i][2] < pending'[e][k]
    <3>1. handed'[i] = handed[i] /\ i \in DOMAIN handed
      BY <1>2
    <3>2. CASE e = d
      <4>1. CASE k = n + 1
        BY <2>5, <2>8, <2>12, <2>14, <3>2, <4>1
      <4>2. CASE k # n + 1
        <5>1. k \in 1..n
          BY <2>8, <2>12, <3>2, <4>2
        <5>2. k + f \in DOMAIN q /\ s[k] = q[k + f]
          BY <2>5, <2>7, <2>8, <5>1
        <5>3. d \in DOMAIN pending /\ q = pending[d]
          BY <2>3, <5>2 DEF Queue
        <5>4. handed[i][2] < q[k + f]
          BY <2>15, <3>1, <3>2, <5>2, <5>3 DEF OrderInv
        <5> QED BY <2>12, <3>1, <3>2, <5>2, <5>4
      <4> QED BY <4>1, <4>2
    <3>3. CASE e # d
      <4>1. e \in DOMAIN pending /\ pending'[e] = pending[e]
        BY <2>12, <3>3
      <4> QED BY <2>15, <3>1, <4>1 DEF OrderInv
    <3> QED BY <3>2, <3>3
  <2>16. ASSUME NEW e \in DOMAIN pending' PROVE Increasing(pending'[e])
    BY <2>11, <2>12 DEF OrderInv
  <2>17. \A i, j \in DOMAIN handed' : i < j /\ handed'[i][1] = handed'[j][1] => handed'[i][2] < handed'[j][2]
    BY <1>2 DEF OrderInv
  <2> QED BY <2>13, <2>14, <2>15, <2>16, <2>17 DEF OrderInv
<1> QED BY <1>1, <1>2 DEF StoreMessage

\* What goes out is older than what stays and younger than what went out before.
LEMMA OutOrder ==
    ASSUME TypeInv, OrderInv, NEW d \in Nodes, d \in DOMAIN pending, NEW n \in 0..Len(Queue(d)), HandOut(d, n),
           UNCHANGED next, \A e \in DOMAIN pending' : e \in DOMAIN pending /\ (e # d => pending'[e] = pending[e]),
           d \in DOMAIN pending' => pending'[d] = Rest(d, n)
    PROVE  OrderInv'
<1>1. PICK q \in Seq(Nat) : q = Queue(d) /\ q = pending[d]
  BY QueueType DEF TypeInv, Queue
<1>2. PICK len \in Nat, h \in Nat : len = Len(q) /\ h = Len(handed)
  <2>1. Len(q) \in Nat
    OBVIOUS
  <2>2. Len(handed) \in Nat
    BY DEF TypeInv
  <2> QED BY <2>1, <2>2
<1>3. n \in Nat /\ n <= len /\ DOMAIN q = 1..len /\ DOMAIN handed = 1..h
  BY <1>1, <1>2 DEF TypeInv
<1>4. /\ handed' \in Seq(Nodes \X Nat) /\ Len(handed') = h + n
      /\ \A i \in 1..h : handed'[i] = handed[i]
      /\ \A i \in 1..n : handed'[h + i] = <<d, q[i]>>
  BY <1>1, <1>2, HandedFacts
<1>5. DOMAIN handed' = 1..(h + n)
  BY <1>3, <1>4
<1>6. ASSUME NEW i \in 1..(h + n), ~(i \in 1..h)
      PROVE  \E a \in 1..n : i = h + a /\ handed'[i] = <<d, q[a]>>
  <2>1. PICK a \in 1..n : i = h + a
    <3>1. i - h \in 1..n /\ i = h + (i - h)
      BY <1>3, <1>6
    <3> QED BY <3>1
  <2> QED BY <1>4, <2>1
<1>7. Increasing(q) /\ \A a \in 1..len : q[a] < next /\ q[a] \in Nat
  BY <1>1, <1>3 DEF OrderInv
<1>8. \A a \in 1..n : a \in 1..len
  BY <1>3
<1>9. ASSUME NEW i \in DOMAIN handed' PROVE handed'[i][2] < next'
  <2>1. CASE i \in 1..h
    BY <1>3, <1>4, <2>1 DEF OrderInv
  <2>2. CASE ~(i \in 1..h)
    <3>1. PICK a \in 1..n : handed'[i] = <<d, q[a]>>
      BY <1>5, <1>6, <2>2
    <3> QED BY <1>7, <1>8, <3>1, SMTT(30)
  <2> QED BY <2>1, <2>2
<1>10. ASSUME NEW i \in DOMAIN handed', NEW j \in DOMAIN handed', i < j, handed'[i][1] = handed'[j][1]
       PROVE  handed'[i][2] < handed'[j][2]
  <2>1. i \in 1..(h + n) /\ j \in 1..(h + n)
    BY <1>5
  <2>2. CASE j \in 1..h
    <3>1. i \in 1..h
      BY <1>10, <2>1, <2>2
    <3> QED BY <1>3, <1>4, <1>10, <2>2, <3>1 DEF OrderInv
  <2>3. CASE ~(j \in 1..h)
    <3>1. PICK b \in 1..n : j = h + b /\ handed'[j] = <<d, q[b]>>
      BY <1>6, <2>1, <2>3
    <3>2. CASE i \in 1..h
      <4>1. handed'[i] = handed[i] /\ handed[i][1] = d /\ b \in DOMAIN pending[d]
        BY <1>1, <1>3, <1>4, <1>8, <1>10, <3>1, <3>2
      <4>2. handed[i][2] < pending[d][b]
        BY <1>3, <3>2, <4>1 DEF OrderInv
      <4> QED BY <1>1, <3>1, <4>1, <4>2
    <3>3. CASE ~(i \in 1..h)
      <4>1. PICK a \in 1..n : i = h + a /\ handed'[i] = <<d, q[a]>>
        BY <1>6, <2>1, <3>3
      <4>2. a < b
        BY <1>10, <3>1, <4>1
      <4>3. q[a] < q[b]
        BY <1>3, <1>7, <1>8, <4>2 DEF Increasing
      <4> QED BY <3>1, <4>1, <4>3
    <3> QED BY <3>2, <3>3
  <2> QED BY <2>2, <2>3
<1>11. d \in DOMAIN pending' => /\ Increasing(pending'[d])
                                 /\ \A k \in DOMAIN pending'[d] : k + n \in 1..len /\ pending'[d][k] = q[k + n]
  <2> SUFFICES ASSUME d \in DOMAIN pending'
               PROVE  /\ Increasing(pending'[d])
                      /\ \A k \in DOMAIN pending'[d] : k + n \in 1..len /\ pending'[d][k] = q[k + n]
    OBVIOUS
  <2>1. PICK r \in Seq(Nat) : r = pending'[d] /\ Len(r) = len - n /\ \A k \in 1..Len(r) : r[k] = q[k + n]
    <3>1. /\ Rest(d, n) \in Seq(Nat) /\ Len(Rest(d, n)) = len - n
          /\ \A k \in 1..Len(Rest(d, n)) : Rest(d, n)[k] = q[k + n]
      <4>1. Queues(pending)
        BY DEF TypeInv
      <4>2. /\ Rest(d, n) \in Seq(Nat) /\ Len(Rest(d, n)) = Len(Queue(d)) - n
            /\ \A k \in 1..Len(Rest(d, n)) : Rest(d, n)[k] = Queue(d)[k + n]
        BY <4>1, OutFacts
      <4> QED BY <1>1, <1>2, <4>2
    <3> QED BY <3>1
  <2>2. SuffixOf(r, q, n)
    BY <1>2, <1>3, <2>1 DEF SuffixOf
  <2>3. /\ Increasing(r)
        /\ \A k \in DOMAIN r : k + n \in DOMAIN q /\ r[k] = q[k + n]
    BY <1>3, <1>7, <2>2, SuffixFrom
  <2> QED BY <1>3, <2>1, <2>3
<1>12. ASSUME NEW e \in DOMAIN pending'
       PROVE  Increasing(pending'[e]) /\ \A k \in DOMAIN pending'[e] : pending'[e][k] < next'
  <2>1. CASE e = d
    BY <1>7, <1>11, <2>1
  <2>2. CASE e # d
    BY <2>2 DEF OrderInv
  <2> QED BY <2>1, <2>2
<1>13. ASSUME NEW i \in DOMAIN handed', NEW e \in DOMAIN pending', handed'[i][1] = e, NEW k \in DOMAIN pending'[e]
       PROVE  handed'[i][2] < pending'[e][k]
  <2>1. CASE i \in 1..h
    <3>1. handed'[i] = handed[i] /\ i \in DOMAIN handed /\ e \in DOMAIN pending
      BY <1>3, <1>4, <2>1
    <3>2. PICK l \in DOMAIN pending[e] : pending'[e][k] = pending[e][l]
      BY <1>1, <1>3, <1>11
    <3> QED BY <1>13, <3>1, <3>2 DEF OrderInv
  <2>2. CASE ~(i \in 1..h)
    <3>1. PICK a \in 1..n : handed'[i] = <<d, q[a]>>
      BY <1>5, <1>6, <2>2
    <3>2. e = d /\ k + n \in 1..len /\ pending'[e][k] = q[k + n]
      BY <1>11, <1>13, <3>1
    <3>3. k \in Nat \ {0}
      <4>1. PICK r \in Seq(Nat) : r = pending'[d]
        BY <1>1, <1>2, <3>2, OutFacts DEF TypeInv
      <4> QED BY <3>2, <4>1, SMTT(30)
    <3>4. a < k + n
      BY <1>3, <3>3
    <3>5. q[a] < q[k + n]
      BY <1>3, <1>7, <1>8, <3>2, <3>4 DEF Increasing
    <3> QED BY <3>1, <3>2, <3>5
  <2> QED BY <2>1, <2>2
<1> QED BY <1>9, <1>10, <1>12, <1>13 DEF OrderInv

LEMMA NextOrder == TypeInv /\ Balance /\ OrderInv /\ [Next]_vars => OrderInv'
<1> SUFFICES ASSUME TypeInv, Balance, OrderInv, [Next]_vars PROVE OrderInv'
  OBVIOUS
<1>1. ASSUME NEW d \in Nodes, StoreMessage(d) PROVE OrderInv'
  BY <1>1, StoreOrder
<1>2. ASSUME NEW d \in Nodes, RetrieveMessages(d) PROVE OrderInv'
  <2>1. d \in DOMAIN pending /\ Queue(d) = pending[d] /\ pending' = [x \in DOMAIN pending \ {d} |-> pending[x]]
    BY <1>2 DEF RetrieveMessages, Queue
  <2>2. PICK n \in 0..Len(Queue(d)) : n = Len(pending[d])
    <3>1. Len(Queue(d)) \in Nat
      BY QueueType DEF TypeInv
    <3> QED BY <2>1, <3>1
  <2>3. HandOut(d, n) /\ UNCHANGED next
    BY <1>2, <2>2 DEF RetrieveMessages
  <2> QED BY <2>1, <2>3, OutOrder
<1>3. ASSUME NEW d \in Nodes, NEW limit \in 0..MaxPerDest, RetrieveHistory(d, limit) PROVE OrderInv'
  <2>1. d \in DOMAIN pending /\ Queue(d) = pending[d] /\ limit \in Nat
    BY <1>3, StoreAssumption DEF RetrieveHistory, Queue
  <2>2. PICK n \in 0..Len(Queue(d)) : n = Min({limit, Len(pending[d])})
    <3>1. Len(Queue(d)) \in Nat
      BY QueueType DEF TypeInv
    <3> QED BY <2>1, <3>1, MinOfTwo
  <2>3. HandOut(d, n) /\ UNCHANGED next /\ pending' = [pending EXCEPT ![d] = Rest(d, n)]
    BY <1>3, <2>2 DEF RetrieveHistory
  <2>4. \A e \in DOMAIN pending' : e \in DOMAIN pending /\ (e # d => pending'[e] = pending[e])
    BY <2>3
  <2>5. pending'[d] = Rest(d, n)
    BY <2>1, <2>3
  <2> QED BY <2>1, <2>3, <2>4, <2>5, OutOrder
<1>4. CASE Maintenance
  <2>1. UNCHANGED <<next, handed>>
    BY <1>4 DEF Maintenance
  <2>2. ASSUME NEW d \in DOMAIN pending'
        PROVE  /\ d \in DOMAIN pending /\ Increasing(pending'[d])
               /\ \A k \in DOMAIN pending'[d] : \E j \in DOMAIN pending[d] : pending'[d][k] = pending[d][j]
    <3>1. d \in DOMAIN pending /\ pending'[d] = Young(pending[d])[Len(pending[d])]
      BY <1>4, YoungQueues
    <3>2. PICK queue \in Seq(Nat) : queue = pending[d] /\ Increasing(queue)
      BY <3>1 DEF TypeInv, Queues, OrderInv
    <3>3. PickedFrom(pending'[d], queue, Len(queue))
      BY <3>1, <3>2, YoungFacts DEF TypeInv
    <3>4. pending'[d] \in Seq(Nat) /\ DOMAIN pending'[d] = 1..Len(pending'[d]) /\ DOMAIN queue = 1..Len(queue)
      BY <3>3 DEF PickedFrom
    <3> QED BY <3>1, <3>2, <3>3, <3>4 DEF PickedFrom, Increasing
  <2> QED BY <2>1, <2>2, OrderKept DEF FromBefore
<1>5. CASE Clear
  <2>1. UNCHANGED <<next, handed>> /\ DOMAIN pending' = {}
    BY <1>5 DEF Clear, NoMessages
  <2> QED BY <2>1, OrderKept DEF FromBefore
<1>6. ASSUME UNCHANGED <<pending, next, handed>> PROVE OrderInv'
  BY <1>6 DEF OrderInv
<1>7. ASSUME NEW d \in Nodes, Heartbeat(d) PROVE OrderInv'
  BY <1>6, <1>7 DEF Heartbeat
<1>8. Age \/ UNCHANGED vars => OrderInv'
  BY <1>6 DEF Age, vars
<1> QED BY <1>1, <1>2, <1>3, <1>4, <1>5, <1>7, <1>8 DEF Next

-----------------------------------------------------------------------------
(* What was delivered *)

Ids(h) == [i \in DOMAIN h |-> h[i][2]]

DeliveredInv == stats.delivered = Len(handed) /\ delivered = Ending(MaxDelivered, Ids(handed))

LEMMA IdsType ==
    ASSUME NEW h \in Seq(Nodes \X Nat)
    PROVE  Ids(h) \in Seq(Nat) /\ Len(Ids(h)) = Len(h) /\ \A i \in 1..Len(h) : Ids(h)[i] = h[i][2]
<1>1. PICK n \in Nat : n = Len(h) /\ DOMAIN h = 1..n
  OBVIOUS
<1>2. \A i \in 1..n : h[i][2] \in Nat
  BY <1>1
<1>3. Ids(h) = [i \in 1..n |-> h[i][2]]
  BY <1>1 DEF Ids
<1>4. Ids(h) \in [1..n -> Nat]
  BY <1>2, <1>3
<1> QED BY <1>1, <1>3, <1>4

LEMMA OutDelivered ==
    ASSUME TypeInv, DeliveredInv, NEW d \in Nodes, NEW n \in 0..Len(Queue(d)), HandOut(d, n),
           Queues(pending'), UNCHANGED online
    PROVE  DeliveredInv'
<1>1. PICK q \in Seq(Nat), len \in Nat : q = Queue(d) /\ len = Len(q) /\ n \in 0..len
  BY QueueType DEF TypeInv
<1>2. PICK h \in Nat : h = Len(handed) /\ handed \in Seq(Nodes \X Nat)
  BY SMTT(30) DEF TypeInv
<1>3. /\ handed' \in Seq(Nodes \X Nat) /\ Len(handed') = h + n
      /\ \A i \in 1..h : handed'[i] = handed[i]
      /\ \A i \in 1..n : handed'[h + i] = <<d, q[i]>>
  BY <1>1, <1>2, HandedFacts
<1>4. PICK out \in Seq(Nat) : out = SubSeq(q, 1, n) /\ Len(out) = n /\ \A i \in 1..n : out[i] = q[i]
  <2>1. SubSeq(Queue(d), 1, n) \in Seq(Nat) /\ Len(SubSeq(Queue(d), 1, n)) = n
        /\ \A i \in 1..n : SubSeq(Queue(d), 1, n)[i] = Queue(d)[i]
    BY OutFacts DEF TypeInv
  <2> QED BY <1>1, <2>1
<1>5. PICK old \in Seq(Nat) : old = Ids(handed) /\ Len(old) = h /\ \A i \in 1..h : old[i] = handed[i][2]
  BY <1>2, IdsType
<1>6. PICK new \in Seq(Nat) : new = Ids(handed') /\ Len(new) = h + n /\ \A i \in 1..(h + n) : new[i] = handed'[i][2]
  BY <1>3, IdsType, ZenonT(40)
<1>7. PICK both : both = old \o out
  OBVIOUS
<1>8. /\ both \in Seq(Nat) /\ Len(both) = h + n
      /\ \A i \in 1..(h + n) : both[i] = IF i <= h THEN old[i] ELSE out[i - h]
  <2>1. /\ both \in Seq(Nat) /\ Len(both) = Len(old) + Len(out)
        /\ \A i \in 1..(Len(old) + Len(out)) : both[i] = IF i <= Len(old) THEN old[i] ELSE out[i - Len(old)]
    BY <1>7, ConcatProperties
  <2> QED BY <1>4, <1>5, <2>1
<1>9. ASSUME NEW i \in 1..(h + n) PROVE new[i] = both[i]
  <2>1. CASE i <= h
    <3>1. i \in 1..h
      BY <2>1
    <3>2. new[i] = handed[i][2]
      BY <1>3, <1>6, <3>1
    <3>3. both[i] = handed[i][2]
      BY <1>5, <1>8, <2>1, <3>1
    <3> QED BY <3>2, <3>3
  <2>2. CASE ~(i <= h)
    <3>1. PICK a \in 1..n : a = i - h /\ i = h + a
      <4>1. i - h \in 1..n /\ i = h + (i - h)
        BY <1>1, <2>2
      <4> QED BY <4>1
    <3>2. new[i] = q[a]
      <4>1. handed'[i] = <<d, q[a]>>
        BY <1>3, <3>1
      <4>2. new[i] = handed'[i][2]
        BY <1>6
      <4> QED BY <4>1, <4>2
    <3>3. both[i] = out[a]
      BY <1>8, <2>2, <3>1
    <3> QED BY <1>4, <3>2, <3>3
  <2> QED BY <2>1, <2>2
<1>10. new = both
  BY <1>6, <1>8, <1>9, SeqEqual
<1>11. delivered' = Ending(MaxDelivered, delivered \o out)
  BY <1>1, <1>4 DEF HandOut
<1>12. delivered = Ending(MaxDelivered, old)
  BY <1>5 DEF DeliveredInv
<1>13. Ending(MaxDelivered, Ending(MaxDelivered, old) \o out) = Ending(MaxDelivered, old \o out)
  BY EndingGoesOn
<1>14. delivered' = Ending(MaxDelivered, Ids(handed'))
  BY <1>6, <1>7, <1>10, <1>11, <1>12, <1>13
<1>15. stats'.delivered = stats.delivered + n
  BY HandOutCounts
<1>16. stats'.delivered = Len(handed')
  BY <1>2, <1>3, <1>15 DEF DeliveredInv
<1> QED BY <1>14, <1>16 DEF DeliveredInv

LEMMA NextDelivered == TypeInv /\ Balance /\ DeliveredInv /\ [Next]_vars => DeliveredInv'
<1> SUFFICES ASSUME TypeInv, Balance, DeliveredInv, [Next]_vars PROVE DeliveredInv'
  OBVIOUS
<1>1. Queues(pending')
  BY NextBalance DEF TypeInv
<1>2. ASSUME NEW d \in Nodes, RetrieveMessages(d) PROVE DeliveredInv'
  <2>1. d \in DOMAIN pending /\ Queue(d) = pending[d] /\ UNCHANGED online
    BY <1>2 DEF RetrieveMessages, Queue
  <2>2. PICK n \in 0..Len(Queue(d)) : n = Len(pending[d])
    <3>1. Len(Queue(d)) \in Nat
      BY QueueType DEF TypeInv
    <3> QED BY <2>1, <3>1
  <2>3. HandOut(d, n)
    BY <1>2, <2>2 DEF RetrieveMessages
  <2> QED BY <1>1, <2>1, <2>3, OutDelivered
<1>3. ASSUME NEW d \in Nodes, NEW limit \in 0..MaxPerDest, RetrieveHistory(d, limit) PROVE DeliveredInv'
  <2>1. Queue(d) = pending[d] /\ limit \in Nat /\ UNCHANGED online
    BY <1>3, StoreAssumption DEF RetrieveHistory, Queue
  <2>2. PICK n \in 0..Len(Queue(d)) : n = Min({limit, Len(pending[d])})
    <3>1. Len(Queue(d)) \in Nat
      BY QueueType DEF TypeInv
    <3> QED BY <2>1, <3>1, MinOfTwo
  <2>3. HandOut(d, n)
    BY <1>3, <2>2 DEF RetrieveHistory
  <2> QED BY <1>1, <2>1, <2>3, OutDelivered
<1>4. ASSUME UNCHANGED <<delivered, handed>>, stats'.delivered = stats.delivered PROVE DeliveredInv'
  BY <1>4 DEF DeliveredInv, Ids
<1>5. ASSUME NEW s \in Counters, s.delivered = stats.delivered, stats' = Updated(s) PROVE stats'.delivered = stats.delivered
  <2>1. IsFiniteSet(DOMAIN online')
    BY NextBalance DEF TypeInv
  <2> QED BY <1>1, <1>5, <2>1, UpdatedFacts
<1>6. stats \in Counters
  BY DEF TypeInv
<1>7. ASSUME NEW d \in Nodes, StoreMessage(d) PROVE DeliveredInv'
  <2>1. UNCHANGED <<delivered, handed>>
    BY <1>7 DEF StoreMessage
  <2>2. CASE stats' = [stats EXCEPT !.dropped = @ + 1]
    <3>1. stats'.delivered = stats.delivered
      BY <1>6, <2>2 DEF Counters
    <3> QED BY <1>4, <2>1, <3>1
  <2>3. CASE stats' = Updated([stats EXCEPT !.stored = @ + 1, !.expired = @ + IF Full(d) THEN 1 ELSE 0])
    <3>1. stats'.delivered = stats.delivered
      <4>1. [stats EXCEPT !.stored = @ + 1, !.expired = @ + IF Full(d) THEN 1 ELSE 0].delivered = stats.delivered
        BY <1>6 DEF Counters
      <4> QED BY <2>3, <4>1, <1>6 DEF Updated, Counters
    <3> QED BY <1>4, <2>1, <3>1
  <2> QED BY <1>7, <2>2, <2>3 DEF StoreMessage
<1>8. ASSUME NEW n \in Nodes, Heartbeat(n) PROVE DeliveredInv'
  <2>1. UNCHANGED <<delivered, handed>>
    BY <1>8 DEF Heartbeat
  <2>2. stats'.delivered = stats.delivered
    BY <1>5, <1>6, <1>8 DEF Heartbeat
  <2> QED BY <1>4, <2>1, <2>2
<1>9. CASE Maintenance
  <2>1. UNCHANGED <<delivered, handed>>
    BY <1>9 DEF Maintenance
  <2>2. PICK gone : stats' = Updated([stats EXCEPT !.expired = @ + gone])
    BY <1>9, YoungQueues
  <2>3. stats'.delivered = stats.delivered
    BY <1>6, <2>2 DEF Updated, Counters
  <2> QED BY <1>4, <2>1, <2>3
<1>10. CASE Clear
  <2>1. stats'.delivered = stats.delivered /\ UNCHANGED <<delivered, handed>>
    BY <1>6, <1>10 DEF Clear, Counters
  <2> QED BY <1>4, <2>1
<1>11. Age \/ UNCHANGED vars => DeliveredInv'
  BY <1>4 DEF Age, vars
<1> QED BY <1>2, <1>3, <1>7, <1>8, <1>9, <1>10, <1>11 DEF Next

LEMMA InitOrder == Init => OrderInv /\ DeliveredInv
<1> SUFFICES ASSUME Init PROVE OrderInv /\ DeliveredInv
  OBVIOUS
<1>1. DOMAIN pending = {} /\ handed = <<>> /\ DOMAIN handed = {}
  BY DEF Init, NoMessages
<1>2. OrderInv
  BY <1>1 DEF OrderInv
<1>3. Ids(handed) = <<>> /\ Len(handed) = 0
  BY <1>1 DEF Ids
<1>4. Ending(MaxDelivered, <<>>) = <<>>
  <2>1. Len(<<>>) <= MaxDelivered
    BY StoreAssumption
  <2> QED BY <2>1 DEF Ending
<1>5. DeliveredInv
  BY <1>3, <1>4 DEF Init, DeliveredInv
<1> QED BY <1>2, <1>5

-----------------------------------------------------------------------------

IInv == TypeInv /\ Balance /\ OrderInv /\ DeliveredInv

LEMMA Inductive == Spec => []IInv
<1>1. Init => IInv
  BY InitBalance, InitOrder DEF IInv
<1>2. IInv /\ [Next]_vars => IInv'
  BY NextBalance, NextOrder, NextDelivered DEF IInv
<1> QED BY <1>1, <1>2, PTL DEF Spec

\* The storage stays within its limits for each destination and in all, the ids
\* remembered as delivered too, and the statistics tell what is stored
\* (store_forward.rs: store_message, maintenance, update_stats).
THEOREM StorageBounded == Spec => []TypeOK
<1>1. IInv => TypeOK
  <2> SUFFICES ASSUME IInv PROVE TypeOK
    OBVIOUS
  <2>1. Len(delivered) <= MaxDelivered
    <3>1. PICK ids \in Seq(Nat) : ids = Ids(handed)
      BY IdsType DEF IInv, TypeInv
    <3>2. PICK n \in Nat, w \in Nat \ {0} : n = Len(ids) /\ w = MaxDelivered
      BY StoreAssumption
    <3>3. PICK m \in Nat : (n <= w => m = n) /\ (~(n <= w) => m = w)
      <4>1. CASE n <= w
        BY <4>1
      <4>2. CASE ~(n <= w)
        BY <4>2
      <4> QED BY <4>1, <4>2
    <3>4. EndOf(Ending(w, ids), ids, n, m)
      BY <3>2, <3>3, EndingFacts
    <3>5. m <= w
      BY <3>3
    <3> QED BY <3>1, <3>2, <3>4, <3>5 DEF EndOf, IInv, DeliveredInv
  <2> QED BY <2>1 DEF IInv, TypeInv, Balance, TypeOK
<1> QED BY <1>1, Inductive, PTL

\* Every message stored is waiting, handed out, expired or cleared, counted once;
\* each destination is handed its own in the order they were stored, none twice,
\* and the ids known as delivered are the last ones (store_forward.rs:
\* store_message, retrieve_messages, retrieve_history, maintenance, clear).
THEOREM MessagesHandedOnce == Spec => []HandedOnce
<1>1. IInv => HandedOnce
  <2> SUFFICES ASSUME IInv PROVE HandedOnce
    OBVIOUS
  <2>1. ASSUME NEW i \in DOMAIN handed, NEW k \in DOMAIN Queue(handed[i][1])
        PROVE  handed[i][2] < Queue(handed[i][1])[k]
    BY DEF IInv, OrderInv, Queue
  <2> QED BY <2>1 DEF IInv, Balance, OrderInv, DeliveredInv, HandedOnce, Ids
<1> QED BY <1>1, Inductive, PTL

=============================================================================
