-------------------------- MODULE BufferPoolProofs --------------------------
(***************************************************************************)
(* Proofs about BufferPool for any number of threads and any requested     *)
(* count: the type invariant, and that the bitmap is exact and every       *)
(* buffer has at most one owner.                                           *)
(***************************************************************************)
EXTENDS BufferPool, WellFoundedInduction, TLAPS

\* trailing_zeros of a bitmap that is not zero is the index of one of its bits.
LEMMA FirstIsABit ==
    ASSUME NEW bits \in SUBSET Nat, bits # {}
    PROVE  First(bits) \in bits
<1>1. IsWellFoundedOn(OpToRel(<, Nat), Nat)
  BY NatLessThanWellFounded
<1>2. PICK i \in bits : \A j \in bits : <<j, i>> \notin OpToRel(<, Nat)
  BY <1>1, WFMin
<1>3. \A j \in bits : i <= j
  <2>1. TAKE j \in bits
  <2>2. i \in Nat /\ j \in Nat
    OBVIOUS
  <2>3. ~(j < i)
    BY <1>2, <2>2 DEF OpToRel
  <2> QED  BY <2>2, <2>3
<1> QED  BY <1>3 DEF First

LEMMA BuffersAreNaturals == Buffers \subseteq Nat
  BY PoolAssumption DEF Buffers, Count

\* A thread claims only bits it has seen set: the view of a thread about to
\* exchange is not empty.
ViewNotEmpty == \A t \in Threads : pc[t] = "cas" => view[t] # {}

\* The inductive invariant.
IInv == TypeOK /\ ViewNotEmpty /\ ExclusiveAccess /\ BitmapExact

LEMMA InitEstablishes == Init => IInv
  BY DEF Init, IInv, TypeOK, ViewNotEmpty, ExclusiveAccess, BitmapExact

LEMMA StepPreserves == IInv /\ [Next]_vars => IInv'
<1> SUFFICES ASSUME IInv, [Next]_vars
             PROVE  IInv'
  OBVIOUS
<1> USE DEF IInv, TypeOK, ViewNotEmpty, ExclusiveAccess, BitmapExact
<1>1. ASSUME NEW t \in Threads, NEW wait \in BOOLEAN, Acquire(t, wait)
      PROVE  IInv'
  BY <1>1, PoolAssumption DEF Acquire
<1>2. ASSUME NEW t \in Threads, Load(t)
      PROVE  IInv'
  BY <1>2 DEF Load
<1>3. ASSUME NEW t \in Threads, CasSucceeds(t)
      PROVE  IInv'
  <2> DEFINE i == First(view[t])
  <2>1. i \in view[t] /\ i \in available
    BY <1>3, FirstIsABit, BuffersAreNaturals DEF CasSucceeds
  <2> HIDE DEF i
  <2>2. /\ available' = available \ {i}
        /\ holds' = [holds EXCEPT ![t] = @ \cup {i}]
        /\ pc' = [pc EXCEPT ![t] = "idle"]
        /\ UNCHANGED <<blocking, view, calls>>
    BY <1>3 DEF CasSucceeds, i
  <2>3. TypeOK' /\ ViewNotEmpty'
    BY <2>1, <2>2
  <2>4. \A u \in Threads : i \notin holds[u]
    BY <2>1
  <2>5. ExclusiveAccess'
    BY <2>2, <2>4
  <2>6. BitmapExact'
    BY <2>1, <2>2
  <2> QED  BY <2>3, <2>5, <2>6
<1>4. ASSUME NEW t \in Threads, CasFails(t)
      PROVE  IInv'
  BY <1>4 DEF CasFails
<1>5. ASSUME NEW t \in Threads, NEW i \in Buffers, Release(t, i)
      PROVE  IInv'
  <2>1. TypeOK' /\ ViewNotEmpty'
    BY <1>5 DEF Release
  <2>2. ExclusiveAccess'
    BY <1>5 DEF Release
  <2>3. \A u \in Threads : u # t => i \notin holds[u]
    BY <1>5 DEF Release
  <2>4. BitmapExact'
    BY <1>5, <2>3 DEF Release
  <2> QED  BY <2>1, <2>2, <2>4
<1>6. ASSUME NEW t \in Threads, NEW u \in Threads, NEW i \in Buffers, Pass(t, u, i)
      PROVE  IInv'
  <2>1. TypeOK' /\ ViewNotEmpty'
    BY <1>6 DEF Pass
  <2>2. /\ t # u
        /\ holds' = [holds EXCEPT ![t] = @ \ {i}, ![u] = @ \cup {i}]
        /\ i \in holds[t]
        /\ available' = available
    BY <1>6 DEF Pass
  <2>3. \A v \in Threads : holds'[v] = IF v = t THEN holds[t] \ {i}
                                       ELSE IF v = u THEN holds[u] \cup {i} ELSE holds[v]
    BY <2>2
  <2>4. ExclusiveAccess'
    BY <2>2, <2>3
  <2>5. UNION {holds'[v] : v \in Threads} = UNION {holds[v] : v \in Threads}
    BY <2>2, <2>3
  <2>6. BitmapExact'
    BY <2>2, <2>5
  <2> QED  BY <2>1, <2>4, <2>6
<1>7. CASE UNCHANGED vars
  BY <1>7 DEF vars
<1> QED
  BY <1>1, <1>2, <1>3, <1>4, <1>5, <1>6, <1>7 DEF Next

\* Type correctness of the pool.
THEOREM PoolTypeCorrect == Spec => []TypeOK
<1>1. IInv => TypeOK
  BY DEF IInv
<1> QED  BY InitEstablishes, StepPreserves, <1>1, PTL DEF Spec

\* "We have exclusive access to this buffer index": at every moment no two
\* threads own a handle of the same buffer.
THEOREM PoolExclusive == Spec => []ExclusiveAccess
<1>1. IInv => ExclusiveAccess
  BY DEF IInv
<1> QED  BY InitEstablishes, StepPreserves, <1>1, PTL DEF Spec

\* The bitmap is the complement of the buffers that are held.
THEOREM PoolBitmapExact == Spec => []BitmapExact
<1>1. IInv => BitmapExact
  BY DEF IInv
<1> QED  BY InitEstablishes, StepPreserves, <1>1, PTL DEF Spec
=============================================================================
