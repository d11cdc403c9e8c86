------------------------ MODULE StreamManagerProofs ------------------------
(***************************************************************************)
(* What TLAPS proves of StreamManager, for every size of its buffers, any  *)
(* number of receivers and batches of any size: one receiver at a time has *)
(* a thread, so none finds the port held by another of this program; the   *)
(* recording and the windows hold exactly what was delivered; the types.   *)
(***************************************************************************)
EXTENDS StreamManager, TLAPS, WellFoundedInduction, SequenceTheorems

Alive == {"binding", "looping", "receiving"}

\* A thread that runs is the receiver's, or the one that is being joined, whose
\* handle is gone by then; who holds the port runs its loop.
SInv ==
    /\ thread \in [Receivers -> {"unborn", "ended"} \cup Alive]
    /\ receiver \in Receivers \cup {NoOne} /\ joining \in Receivers \cup {NoOne}
    /\ owner \in Receivers \cup {NoOne, Other}
    /\ refusedBy \subseteq {Other}
    /\ \A r \in Receivers : thread[r] \in Alive => r \in {receiver, joining}
    /\ joining # NoOne => receiver = NoOne
    /\ source = "Udp" => receiver # NoOne
    /\ \A r \in Receivers : owner = r => thread[r] \in {"looping", "receiving"}

LEMMA NamesApart == NoOne \notin Receivers /\ Other \notin Receivers /\ NoOne # Other
  BY StreamAssumption DEF NoOne, Other, Receivers

\* The operations of the user that stop a receiver, start one or do neither.
LEMMA UserSInv ==
    ASSUME SInv, User
    PROVE  SInv'
<1>1. joining = NoOne
  BY DEF User
<1>2. ASSUME receiver # NoOne, StopReceiver, receiver' = NoOne, source' # "Udp",
             UNCHANGED threads
      PROVE  SInv'
  BY <1>1, <1>2 DEF SInv, StopReceiver, threads
<1>3. ASSUME NEW r \in Unborn, receiver = NoOne, Launch(r), UNCHANGED <<joining, owner, refusedBy>>
      PROVE  SInv'
  BY <1>1, <1>3, NamesApart DEF SInv, Launch, Unborn, Alive
<1>4. CASE source' # "Udp" /\ UNCHANGED <<handle, threads>>
  BY <1>4 DEF SInv, handle, threads
<1>5. CASE UNCHANGED <<source, handle, threads>>
  BY <1>5 DEF SInv, handle, threads
<1>6. CASE source = "Udp" /\ StopUdp
  <2>1. receiver # NoOne
    BY <1>6 DEF SInv
  <2> QED BY <1>2, <1>6, <2>1 DEF StopUdp
<1>7. CASE Stop
  <2>1. CASE source # "Udp"
    BY <1>4, <1>7, <2>1 DEF Stop
  <2>2. CASE source = "Udp"
    <3>1. receiver # NoOne
      BY <2>2 DEF SInv
    <3> QED BY <1>2, <1>7, <2>2, <3>1 DEF Stop
  <2> QED BY <2>1, <2>2
<1>8. ASSUME NEW r \in Unborn, source # "Udp", StartUdp(r)
      PROVE  SInv'
  <2>1. CASE receiver = NoOne
    BY <1>3, <1>8, <2>1 DEF StartUdp
  <2>2. CASE receiver # NoOne
    BY <1>2, <1>8, <2>2 DEF StartUdp, play
  <2> QED BY <2>1, <2>2
<1>9. CASE LoadFile \/ (\E kind \in {"Generator", "Simulation"}, known \in BOOLEAN : StartWaveform(kind, known))
  BY <1>4, <1>9 DEF LoadFile, StartWaveform
<1>10. CASE \/ TogglePlay \/ StartRecording \/ StopRecording \/ ClearRecording
            \/ \E to \in 0..FileLen : Seek(to)
  BY <1>5, <1>10 DEF TogglePlay, StartRecording, StopRecording, ClearRecording, Seek, play
<1> QED BY <1>6, <1>7, <1>8, <1>9, <1>10 DEF User

\* The threads of the receivers, and the join.
LEMMA ThreadSInv ==
    ASSUME SInv, NEW r \in Receivers, Thread(r)
    PROVE  SInv'
<1>1. UNCHANGED <<source, handle>>
  BY DEF Thread, Bind, LookAtFlag, Recv, quiet, play
<1>2. CASE Bind(r)
  <2>1. CASE owner = NoOne /\ owner' = r /\ thread' = [thread EXCEPT ![r] = "looping"] /\ UNCHANGED refusedBy
    BY <1>1, <1>2, <2>1, NamesApart DEF Bind, SInv, Alive, handle
  <2>2. CASE owner # NoOne /\ Ends(r) /\ refusedBy' = refusedBy \cup {owner}
    <3>1. thread[r] = "binding" /\ owner # r
      BY <1>2 DEF Bind, SInv
    <3>2. owner = Other
      <4>1. ASSUME NEW s \in Receivers, owner = s PROVE FALSE
        <5>1. thread[s] \in Alive /\ s # r
          BY <3>1, <4>1 DEF SInv, Alive
        <5>2. s \in {receiver, joining} /\ r \in {receiver, joining}
          BY <3>1, <5>1 DEF SInv, Alive
        <5> QED BY <5>1, <5>2, NamesApart DEF SInv
      <4> QED BY <2>2, <4>1 DEF SInv
    <3> QED BY <1>1, <2>2, <3>1, <3>2, NamesApart DEF SInv, Ends, Alive, handle
  <2> QED BY <1>2, <2>1, <2>2 DEF Bind
<1>3. CASE LookAtFlag(r)
  BY <1>1, <1>3, NamesApart DEF LookAtFlag, Ends, SInv, Alive, handle
<1>4. CASE Recv(r)
  BY <1>1, <1>4, NamesApart DEF Recv, SInv, Alive, handle
<1> QED BY <1>2, <1>3, <1>4 DEF Thread

LEMMA NextSInv == SInv /\ [Next]_vars => SInv'
<1> SUFFICES ASSUME SInv, [Next]_vars PROVE SInv'
  OBVIOUS
<1>1. CASE Joined
  <2>1. /\ joining # NoOne /\ thread[joining] = "ended" /\ joining' = NoOne /\ receiver = NoOne
    BY <1>1 DEF Joined, SInv
  <2>2. \A s \in Receivers : thread[s] \notin Alive
    BY <2>1, NamesApart DEF SInv, Alive
  <2>3. ASSUME NEW r \in Unborn, Launch(r), UNCHANGED <<owner, refusedBy>>
        PROVE  SInv'
    BY <2>1, <2>2, <2>3, NamesApart DEF SInv, Launch, Unborn, Alive
  <2>4. CASE UNCHANGED <<play, receiver, threads>>
    BY <2>1, <2>2, <2>4 DEF SInv, play, threads
  <2> QED BY <1>1, <2>3, <2>4 DEF Joined
<1>2. CASE Frame
  <2>1. UNCHANGED <<source, handle, thread, owner, refusedBy>>
    BY <1>2 DEF Frame, Tick
  <2> QED BY <2>1 DEF SInv, handle
<1>3. CASE Elsewhere
  BY <1>3, NamesApart DEF Elsewhere, SInv, quiet, play, handle
<1>4. CASE UNCHANGED vars
  BY <1>4 DEF vars, SInv, play, handle, threads
<1> QED BY <1>1, <1>2, <1>3, <1>4, UserSInv, ThreadSInv DEF Next

\* A receiver fails to bind only when another application holds the port
\* (manager.rs: start_udp; udp.rs: stop, which waits for the thread), however
\* often sources are changed while threads start, run and end.
THEOREM PortIsOurs == Spec => []BindsUnlessTaken
<1>1. Init => SInv
  BY NamesApart DEF Init, SInv, Alive
<1>2. SInv => BindsUnlessTaken
  BY DEF SInv, BindsUnlessTaken
<1> QED BY <1>1, <1>2, NextSInv, PTL DEF Spec

-----------------------------------------------------------------------------
(* Induction: the library's theorems take the property as an operator, here  *)
(* it is a set of numbers.                                                   *)

\* A set of numbers that has a member has a smallest one.
LEMMA SmallestMember ==
    ASSUME NEW T \in SUBSET Nat, T # {}
    PROVE  \E x \in T : \A y \in T : ~(y < x)
<1>1. \E x \in T : \A y \in T : <<y, x>> \notin OpToRel(<, Nat)
  BY NatLessThanWellFounded, WFMin, Zenon
<1>2. \A x, y \in T : y < x => <<y, x>> \in OpToRel(<, Nat)
  BY Zenon DEF OpToRel
<1> QED BY <1>1, <1>2, Zenon

\* Induction, with the property as the set of numbers that have it.
LEMMA SetInduction ==
    ASSUME NEW T \in SUBSET Nat, 0 \in T, \A i \in T : i + 1 \in T
    PROVE  T = Nat
<1> SUFFICES ASSUME Nat \ T # {} PROVE FALSE
  OBVIOUS
<1>1. PICK x \in Nat \ T : \A y \in Nat \ T : ~(y < x)
  BY SmallestMember
<1>2. x - 1 \in T
  BY <1>1
<1> QED BY <1>1, <1>2

\* f is built from start by the steps.
Built(f, S, n, start, step) ==
    f \in [0..n -> S] /\ f[0] = start /\ \A i \in 1..n : f[i] = step[i][f[i - 1]]

\* A function that is defined from one number to the next exists.
LEMMA FiniteRecursion ==
    ASSUME NEW S, NEW n \in Nat, NEW start \in S, NEW step \in [1..n -> [S -> S]]
    PROVE  \E f : Built(f, S, n, start, step)
<1> DEFINE T == {k \in Nat : k <= n => \E f : Built(f, S, k, start, step)}
<1>1. 0 \in T
  <2>1. Built([i \in 0..0 |-> start], S, 0, start, step)
    BY DEF Built
  <2> QED BY <2>1
<1>2. ASSUME NEW k \in T PROVE k + 1 \in T
  <2> SUFFICES ASSUME k + 1 <= n PROVE \E f : Built(f, S, k + 1, start, step)
    OBVIOUS
  <2>1. PICK f : Built(f, S, k, start, step)
    OBVIOUS
  <2>2. PICK next \in S : next = step[k + 1][f[k]]
    BY <2>1 DEF Built
  <2> DEFINE g == [i \in 0..(k + 1) |-> IF i <= k THEN f[i] ELSE next]
  <2>3. g \in [0..(k + 1) -> S] /\ g[0] = start
    BY <2>1 DEF Built
  <2>4. ASSUME NEW i \in 1..(k + 1) PROVE g[i] = step[i][g[i - 1]]
    <3>1. CASE i <= k
      BY <2>1, <3>1 DEF Built
    <3>2. CASE i = k + 1
      BY <2>1, <2>2, <3>2
    <3> QED BY <3>1, <3>2
  <2>5. Built(g, S, k + 1, start, step)
    BY <2>3, <2>4 DEF Built
  <2> QED BY <2>5
<1>3. T = Nat
  <2> HIDE DEF T
  <2>1. T \in SUBSET Nat
    BY DEF T
  <2> QED BY <1>1, <1>2, <2>1, SetInduction
<1> QED BY <1>3

-----------------------------------------------------------------------------
(* The data: samples are numbers *)

LEMMA MinOfTwo ==
    ASSUME NEW a \in Nat, NEW b \in Nat
    PROVE  Min({a, b}) = IF a <= b THEN a ELSE b
<1>1. CASE a <= b
  BY <1>1 DEF Min
<1>2. CASE ~(a <= b)
  BY <1>2 DEF Min
<1> QED BY <1>1, <1>2

\* The buffer of the generators, with its position.
Buffers == {b \in [len : Nat, at : Nat] : b.at <= b.len /\ (b.len % Block) = 0}

LEMMA NextBlock ==
    ASSUME NEW n \in Nat, n % Block = 0
    PROVE  (n + Block) % Block = 0
<1>1. Block \in Nat \ {0}
  BY StreamAssumption
<1>2. ASSUME NEW k \in Nat PROVE (k * Block) % Block = 0
  BY <1>1
<1>3. n = Block * (n \div Block) + (n % Block) /\ n \div Block \in Nat
  BY <1>1
<1>4. n + Block = (n \div Block + 1) * Block
  BY <1>1, <1>3
<1> QED BY <1>2, <1>3, <1>4

LEMMA AdvanceType ==
    ASSUME NEW b \in Buffers
    PROVE  Advance(b) \in Buffers /\ Advance(b).at \in Nat
<1>1. Block \in Nat \ {0}
  BY StreamAssumption
<1>2. CASE b.at >= b.len
  BY <1>1, <1>2, NextBlock DEF Advance, Buffers
<1>3. CASE ~(b.at >= b.len)
  BY <1>1, <1>3 DEF Advance, Buffers
<1> QED BY <1>2, <1>3

LEMMA AdvancesType ==
    ASSUME NEW n \in Nat, ready \in Buffers
    PROVE  \A i \in 0..n : Advances(n)[i] \in Buffers
<1> DEFINE Equation(f) == f = [i \in 0..n |-> IF i = 0 THEN ready ELSE Advance(f[i - 1])]
<1>1. PICK step : step = [i \in 1..n |-> [b \in Buffers |-> Advance(b)]]
  OBVIOUS
<1>2. step \in [1..n -> [Buffers -> Buffers]]
  BY <1>1, AdvanceType
<1>3. PICK f : Built(f, Buffers, n, ready, step)
  BY <1>2, FiniteRecursion
<1>4. Equation(f)
  <2>1. ASSUME NEW i \in 1..n PROVE f[i] = Advance(f[i - 1])
    BY <1>1, <1>3 DEF Built
  <2> QED BY <1>3, <2>1 DEF Built
<1>5. Equation(Advances(n))
  BY <1>4 DEF Advances
<1>6. PICK a : /\ a = Advances(n) /\ a[0] = ready
               /\ \A i \in 1..n : a[i] = Advance(a[i - 1])
  BY <1>5
<1> DEFINE T == {i \in Nat : i <= n => a[i] \in Buffers}
<1>7. 0 \in T
  BY <1>6
<1>8. ASSUME NEW i \in T PROVE i + 1 \in T
  <2> SUFFICES ASSUME i + 1 <= n PROVE a[i + 1] \in Buffers
    OBVIOUS
  <2>1. a[i] \in Buffers /\ a[i + 1] = Advance(a[i])
    BY <1>6
  <2> QED BY <2>1, AdvanceType
<1>9. T = Nat
  <2> HIDE DEF T
  <2>1. T \in SUBSET Nat
    BY DEF T
  <2> QED BY <1>7, <1>8, <2>1, SetInduction
<1>10. \A i \in 0..n : a[i] \in Buffers
  BY <1>9
<1> QED BY <1>6, <1>10

LEMMA FoundType ==
    ASSUME NEW messages \in Seq(Nat)
    PROVE  Found(messages)[Len(messages)] \in Seq(Nat)
<1> DEFINE Equation(f) == f = [i \in 0..Len(messages) |->
               IF i = 0 THEN <<>> ELSE f[i - 1] \o SampleOf(messages[i])]
<1>1. PICK n \in Nat : n = Len(messages)
  OBVIOUS
<1>2. \A i \in 1..n : SampleOf(messages[i]) \in Seq(Nat)
  BY <1>1 DEF SampleOf
<1>3. PICK step : step = [i \in 1..n |-> [s \in Seq(Nat) |-> s \o SampleOf(messages[i])]]
  OBVIOUS
<1>4. step \in [1..n -> [Seq(Nat) -> Seq(Nat)]] /\ <<>> \in Seq(Nat)
  BY <1>2, <1>3
<1>5. PICK f : Built(f, Seq(Nat), n, <<>>, step)
  BY <1>4, FiniteRecursion
<1>6. Equation(f)
  <2>1. ASSUME NEW i \in 1..n PROVE f[i] = f[i - 1] \o SampleOf(messages[i])
    <3>1. f[i - 1] \in Seq(Nat) /\ f[i] = step[i][f[i - 1]]
      BY <1>5 DEF Built
    <3> QED BY <1>3, <3>1
  <2>2. f = [i \in 0..n |-> f[i]] /\ f[0] = <<>>
    BY <1>5 DEF Built
  <2> QED BY <1>1, <2>1, <2>2
<1>7. Equation(Found(messages))
  BY <1>6 DEF Found
<1>8. PICK a : /\ a = Found(messages) /\ a[0] = <<>>
               /\ \A i \in 1..n : a[i] = a[i - 1] \o SampleOf(messages[i])
  BY <1>1, <1>7
<1> DEFINE T == {i \in Nat : i <= n => a[i] \in Seq(Nat)}
<1>9. 0 \in T
  BY <1>4, <1>8
<1>10. ASSUME NEW i \in T PROVE i + 1 \in T
  <2> SUFFICES ASSUME i + 1 <= n PROVE a[i + 1] \in Seq(Nat)
    OBVIOUS
  <2>1. i \in Nat /\ i + 1 \in 1..n /\ (i + 1) - 1 = i /\ a[i] \in Seq(Nat)
    OBVIOUS
  <2>2. a[i + 1] = a[i] \o SampleOf(messages[i + 1])
    BY <1>8, <2>1
  <2> QED BY <1>2, <2>1, <2>2
<1>11. T = Nat
  <2> HIDE DEF T
  <2>1. T \in SUBSET Nat
    BY DEF T
  <2> QED BY <1>9, <1>10, <2>1, SetInduction
<1>12. a[n] \in Seq(Nat)
  BY <1>11
<1> QED BY <1>1, <1>8, <1>12

-----------------------------------------------------------------------------
(* The windows *)

\* While a ring is not full its next slot is the first that was not written.
Rings == {r \in [buffer : [0..(Window - 1) -> Nat], head : 0..(Window - 1), len : 0..Window] :
              r.len < Window => r.head = r.len}

LEMMA Wraps ==
    ASSUME NEW w \in Nat \ {0}, NEW x \in 0..(2 * w - 1)
    PROVE  x % w = IF x < w THEN x ELSE x - w
  OBVIOUS

LEMMA EndingFacts ==
    ASSUME NEW s \in Seq(Nat)
    PROVE  /\ Ending(Window, s) \in Seq(Nat)
           /\ Len(Ending(Window, s)) = IF Len(s) <= Window THEN Len(s) ELSE Window
           /\ \A i \in 1..Len(Ending(Window, s)) :
                  Ending(Window, s)[i] = s[Len(s) - Len(Ending(Window, s)) + i]
<1>1. Window \in Nat \ {0} /\ Len(s) \in Nat
  BY StreamAssumption
<1>2. CASE Len(s) <= Window
  BY <1>1, <1>2 DEF Ending
<1>3. CASE ~(Len(s) <= Window)
  <2>1. Ending(Window, s) = SubSeq(s, Len(s) - Window + 1, Len(s))
    BY <1>3 DEF Ending
  <2> QED BY <1>1, <1>3, <2>1, SMTT(30)
<1> QED BY <1>2, <1>3

\* The end of a sequence and one more sample tell the end of both.
LEMMA EndingGoesOn ==
    ASSUME NEW s \in Seq(Nat), NEW x \in Nat
    PROVE  Ending(Window, Append(Ending(Window, s), x)) = Ending(Window, Append(s, x))
<1>1. Window \in Nat \ {0} /\ Len(s) \in Nat
  BY StreamAssumption
<1>2. PICK t : t = Ending(Window, s)
  OBVIOUS
<1>3. /\ t \in Seq(Nat) /\ Len(t) = IF Len(s) <= Window THEN Len(s) ELSE Window
      /\ \A i \in 1..Len(t) : t[i] = s[Len(s) - Len(t) + i]
  BY <1>2, EndingFacts
<1>4. PICK sx : sx = Append(s, x)
  OBVIOUS
<1>5. PICK tx1 : tx1 = Append(t, x)
  OBVIOUS
<1>6. PICK a : a = Ending(Window, tx1)
  OBVIOUS
<1>7. PICK b : b = Ending(Window, sx)
  OBVIOUS
<1>8. /\ sx \in Seq(Nat) /\ Len(sx) = Len(s) + 1 /\ sx[Len(s) + 1] = x
      /\ \A i \in 1..Len(s) : sx[i] = s[i]
  BY <1>4
<1>9. /\ tx1 \in Seq(Nat) /\ Len(tx1) = Len(t) + 1 /\ tx1[Len(t) + 1] = x
      /\ \A i \in 1..Len(t) : tx1[i] = t[i]
  BY <1>3, <1>5
<1>10. /\ a \in Seq(Nat) /\ Len(a) = IF Len(tx1) <= Window THEN Len(tx1) ELSE Window
       /\ \A i \in 1..Len(a) : a[i] = tx1[Len(tx1) - Len(a) + i]
  BY <1>6, <1>9, EndingFacts
<1>11. /\ b \in Seq(Nat) /\ Len(b) = IF Len(sx) <= Window THEN Len(sx) ELSE Window
       /\ \A i \in 1..Len(b) : b[i] = sx[Len(sx) - Len(b) + i]
  BY <1>7, <1>8, EndingFacts
<1>12. /\ Len(a) = Len(b) /\ Len(a) \in Nat /\ Len(t) \in Nat
       /\ Len(a) <= Len(t) + 1 /\ Len(t) <= Len(s)
  <2>1. Len(t) \in Nat /\ Len(t) <= Len(s)
    BY <1>1, <1>3
  <2>2. Len(a) \in Nat /\ Len(a) <= Len(t) + 1
    BY <1>1, <1>9, <1>10, <2>1
  <2>3. Len(a) = Len(b)
    BY <1>1, <1>3, <1>8, <1>9, <1>10, <1>11
  <2> QED BY <2>1, <2>2, <2>3
<1>13. ASSUME NEW i \in 1..Len(a) PROVE a[i] = b[i]
  <2>1. a[i] = tx1[Len(tx1) - Len(a) + i] /\ b[i] = sx[Len(sx) - Len(b) + i]
    BY <1>10, <1>11, <1>12
  <2>2. CASE i = Len(a)
    BY <1>1, <1>8, <1>9, <1>12, <2>1, <2>2
  <2>3. CASE i < Len(a)
    <3>1. PICK j \in 1..Len(t) : j = Len(tx1) - Len(a) + i
      <4>1. i \in Nat /\ 1 <= i /\ i < Len(a)
        BY <1>12, <2>3
      <4>2. Len(tx1) - Len(a) + i \in 1..Len(t)
        BY <1>9, <1>12, <4>1, SMTT(30)
      <4> QED BY <4>2
    <3>2. tx1[j] = s[Len(s) - Len(t) + j]
      BY <1>3, <1>9
    <3>3. PICK k \in 1..Len(s) : k = Len(s) - Len(t) + j
      <4>1. Len(s) - Len(t) + j \in 1..Len(s)
        BY <1>1, <1>12
      <4> QED BY <4>1
    <3>4. k = Len(sx) - Len(b) + i
      BY <1>1, <1>8, <1>9, <1>12, <3>1, <3>3
    <3> QED BY <1>8, <2>1, <3>1, <3>2, <3>3, <3>4
  <2> QED BY <1>12, <2>2, <2>3
<1>14. a = b
  BY <1>10, <1>11, <1>12, <1>13, SeqEqual
<1> QED BY <1>2, <1>4, <1>5, <1>6, <1>7, <1>14

LEMMA OrderedType ==
    ASSUME NEW r \in Rings
    PROVE  /\ Ordered(r) \in Seq(Nat) /\ Len(Ordered(r)) = r.len
           /\ \A i \in 1..r.len : Ordered(r)[i] =
                  IF r.len < Window THEN r.buffer[i - 1] ELSE r.buffer[(r.head + i - 1) % Window]
<1>1. Window \in Nat \ {0} /\ r.len \in 0..Window /\ r.head \in 0..(Window - 1)
  BY StreamAssumption DEF Rings
<1>2. CASE r.len < Window
  <2>1. Ordered(r) = [i \in 1..r.len |-> r.buffer[i - 1]]
    BY <1>2 DEF Ordered
  <2>2. \A i \in 1..r.len : r.buffer[i - 1] \in Nat
    BY <1>1, <1>2 DEF Rings
  <2> QED BY <1>1, <1>2, <2>1, <2>2
<1>3. CASE ~(r.len < Window)
  <2>1. Ordered(r) = [i \in 1..Window |-> r.buffer[(r.head + i - 1) % Window]] /\ r.len = Window
    BY <1>1, <1>3 DEF Ordered
  <2>2. \A i \in 1..Window : (r.head + i - 1) % Window \in 0..(Window - 1)
    BY <1>1
  <2>3. \A i \in 1..Window : r.buffer[(r.head + i - 1) % Window] \in Nat
    BY <2>2 DEF Rings
  <2> QED BY <1>1, <1>3, <2>1, <2>3
<1> QED BY <1>2, <1>3

LEMMA PushRing ==
    ASSUME NEW r \in Rings, NEW x \in Nat
    PROVE  /\ Push(r, x) \in Rings
           /\ Ordered(Push(r, x)) = Ending(Window, Append(Ordered(r), x))
<1>1. PICK w \in Nat \ {0} : w = Window
  BY StreamAssumption
<1>2. PICK h \in 0..(w - 1) : h = r.head
  BY <1>1 DEF Rings
<1>3. PICK l \in 0..w : l = r.len /\ (l < w => h = l)
  BY <1>1, <1>2 DEF Rings
<1>4. PICK b \in [0..(w - 1) -> Nat] : b = r.buffer
  BY <1>1 DEF Rings
<1>5. PICK q : q = Push(r, x)
  OBVIOUS
<1>6. PICK qh \in 0..(w - 1) : qh = IF h + 1 < w THEN h + 1 ELSE 0
  OBVIOUS
<1>7. PICK ql \in 0..w : ql = IF l < w THEN l + 1 ELSE l
  OBVIOUS
<1>8. PICK qb \in [0..(w - 1) -> Nat] : qb = [b EXCEPT ![h] = x]
  OBVIOUS
<1>9. q = [buffer |-> qb, head |-> qh, len |-> ql]
  <2>1. (h + 1) % w = qh
    <3>1. PICK y \in 0..(2 * w - 1) : y = h + 1
      OBVIOUS
    <3>2. y % w = IF y < w THEN y ELSE y - w
      BY Wraps
    <3> QED BY <1>6, <3>1, <3>2
  <2> QED BY <1>1, <1>2, <1>3, <1>4, <1>5, <1>7, <1>8, <2>1 DEF Push
<1>10. q \in Rings
  <2>1. ql < w => qh = ql
    BY <1>3, <1>6, <1>7
  <2> QED BY <1>1, <1>9, <2>1 DEF Rings
<1>11. PICK o \in Seq(Nat) : /\ o = Ordered(r) /\ Len(o) = l
           /\ \A i \in 1..l : o[i] = IF l < w THEN b[i - 1] ELSE b[(h + i - 1) % w]
  BY <1>1, <1>2, <1>3, <1>4, OrderedType
<1>12. PICK p \in Seq(Nat) : /\ p = Ordered(q) /\ Len(p) = ql
           /\ \A i \in 1..ql : p[i] = IF ql < w THEN qb[i - 1] ELSE qb[(qh + i - 1) % w]
  BY <1>1, <1>9, <1>10, OrderedType
<1>13. PICK ox \in Seq(Nat) : /\ ox = Append(o, x) /\ Len(ox) = l + 1 /\ ox[l + 1] = x
                              /\ \A i \in 1..l : ox[i] = o[i]
  <2>1. Append(o, x) \in Seq(Nat) /\ Len(Append(o, x)) = Len(o) + 1
    OBVIOUS
  <2>2. Append(o, x)[Len(o) + 1] = x /\ \A i \in 1..Len(o) : Append(o, x)[i] = o[i]
    OBVIOUS
  <2> QED BY <1>11, <2>1, <2>2
<1>14. PICK e \in Seq(Nat) : /\ e = Ending(Window, ox) /\ Len(e) = ql
                             /\ \A i \in 1..ql : e[i] = ox[l + 1 - ql + i]
  <2>1. Len(Ending(Window, ox)) = IF l + 1 <= w THEN l + 1 ELSE w
    BY <1>1, <1>13, EndingFacts
  <2>2. Len(Ending(Window, ox)) = ql
    BY <1>3, <1>7, <2>1
  <2>3. PICK e \in Seq(Nat) : e = Ending(Window, ox)
    BY EndingFacts
  <2>4. Len(e) = ql /\ Len(ox) = l + 1
    BY <1>13, <2>2, <2>3
  <2>5. \A i \in 1..Len(e) : e[i] = ox[Len(ox) - Len(e) + i]
    BY <2>3, EndingFacts
  <2>6. \A i \in 1..ql : e[i] = ox[l + 1 - ql + i]
    BY <2>4, <2>5
  <2> QED BY <2>3, <2>4, <2>6
<1>15. ASSUME NEW i \in 1..ql PROVE p[i] = e[i]
  <2>1. CASE l < w
    <3>1. ql = l + 1 /\ h = l
      BY <1>3, <1>7, <2>1
    <3>6. i - 1 \in 0..(w - 1)
      BY <2>1, <3>1
    <3>2. e[i] = ox[i]
      BY <1>14, <3>1
    <3>3. p[i] = qb[i - 1]
      <4>1. CASE ql < w
        BY <1>12, <4>1
      <4>2. CASE ~(ql < w)
        <5>1. qh + i - 1 = i - 1
          BY <1>6, <3>1, <4>2
        <5>2. (i - 1) % w = i - 1
          <6>1. PICK y \in 0..(2 * w - 1) : y = i - 1 /\ y < w
            BY <3>6
          <6> QED BY <6>1, Wraps
        <5>3. p[i] = qb[(qh + i - 1) % w]
          BY <1>12, <4>2
        <5> QED BY <5>1, <5>2, <5>3
      <4> QED BY <4>1, <4>2
    <3>4. CASE i = l + 1
      BY <1>8, <1>13, <3>1, <3>2, <3>3, <3>4, <3>6
    <3>5. CASE i # l + 1
      <4>1. i \in 1..l /\ i - 1 # h /\ i - 1 \in 0..(w - 1)
        BY <3>1, <3>5, <3>6
      <4>2. o[i] = b[i - 1] /\ qb[i - 1] = b[i - 1]
        BY <1>8, <1>11, <2>1, <4>1
      <4> QED BY <1>13, <3>2, <3>3, <4>1, <4>2
    <3> QED BY <3>4, <3>5
  <2>2. CASE ~(l < w)
    <3>1. l = w /\ ql = w /\ i \in 1..w
      BY <1>7, <2>2
    <3>2. p[i] = qb[(qh + i - 1) % w] /\ e[i] = ox[i + 1]
      <4>1. l + 1 - ql + i = i + 1
        BY <3>1
      <4>2. e[i] = ox[l + 1 - ql + i] /\ ~(ql < w)
        BY <1>14, <3>1, SMTT(30)
      <4> QED BY <1>12, <4>1, <4>2
    <3>3. PICK z \in 0..(2 * w - 1) : z = qh + i - 1
      OBVIOUS
    <3>4. z % w = IF z < w THEN z ELSE z - w
      BY Wraps
    <3>5. CASE i = w
      <4>1. z % w = h
        BY <1>6, <3>3, <3>4, <3>5
      <4> QED BY <1>8, <1>13, <3>1, <3>2, <3>3, <3>5, <4>1
    <3>6. CASE i # w
      <4>1. PICK y \in 0..(2 * w - 1) : y = h + (i + 1) - 1
        BY <3>1
      <4>2. y % w = IF y < w THEN y ELSE y - w
        BY Wraps
      <4>3. PICK k \in 0..(w - 1) : k = y % w
        BY <4>2
      <4>4. k # h /\ z % w = k
        <5>1. i < w /\ y = h + i
          BY <3>1, <3>6, <4>1
        <5>2. CASE h + 1 < w
          <6>1. z = y
            BY <1>6, <3>3, <5>1, <5>2
          <6>2. y # h /\ y - w # h
            BY <3>1, <5>1
          <6> QED BY <4>2, <4>3, <6>1, <6>2
        <5>3. CASE ~(h + 1 < w)
          <6>1. h = w - 1 /\ z = i - 1
            BY <1>6, <3>3, <5>3
          <6>2. ~(y < w) /\ y - w = i - 1
            BY <5>1, <6>1
          <6> QED BY <3>1, <3>4, <4>2, <4>3, <5>1, <6>1, <6>2
        <5> QED BY <5>2, <5>3
      <4>5. ox[i + 1] = b[k]
        <5>1. i + 1 \in 1..l
          BY <3>1, <3>6
        <5> QED BY <1>11, <1>13, <2>2, <4>1, <4>3, <5>1
      <4>6. qb[k] = b[k]
        BY <1>8, <4>3, <4>4
      <4> QED BY <3>2, <3>3, <4>4, <4>5, <4>6
    <3> QED BY <3>5, <3>6
  <2> QED BY <2>1, <2>2
<1>16. p = e
  BY <1>12, <1>14, <1>15, SeqEqual
<1> QED BY <1>5, <1>10, <1>11, <1>12, <1>13, <1>14, <1>16

LEMMA NewRingType == NewRing \in Rings /\ Ordered(NewRing) = <<>>
<1>1. PICK w \in Nat \ {0} : w = Window
  BY StreamAssumption
<1>2. PICK b \in [0..(w - 1) -> Nat] : b = [i \in 0..(w - 1) |-> Blank]
  BY DEF Blank
<1>3. NewRing = [buffer |-> b, head |-> 0, len |-> 0]
  BY <1>1, <1>2 DEF NewRing
<1>4. NewRing \in Rings
  BY <1>1, <1>3 DEF Rings
<1>5. Len(Ordered(NewRing)) = 0 /\ Ordered(NewRing) \in Seq(Nat)
  BY <1>3, <1>4, OrderedType
<1> QED BY <1>4, <1>5

\* A window that shows the end of what was delivered shows, after a batch, the
\* end of that and the batch.
LEMMA PushBatchShows ==
    ASSUME NEW r \in Rings, NEW samples \in Seq(Nat), NEW shown \in Seq(Nat),
           Ordered(r) = Ending(Window, shown)
    PROVE  /\ PushBatch(r, samples) \in Rings
           /\ Ordered(PushBatch(r, samples)) = Ending(Window, shown \o samples)
<1> DEFINE Equation(f) == f = [i \in 0..Len(samples) |-> IF i = 0 THEN r ELSE Push(f[i - 1], samples[i])]
<1>1. PICK n \in Nat : n = Len(samples)
  OBVIOUS
<1>2. \A i \in 1..n : samples[i] \in Nat
  BY <1>1
<1>3. PICK step : step = [i \in 1..n |-> [s \in Rings |-> Push(s, samples[i])]]
  OBVIOUS
<1>4. step \in [1..n -> [Rings -> Rings]]
  BY <1>2, <1>3, PushRing
<1>5. PICK f : Built(f, Rings, n, r, step)
  BY <1>4, FiniteRecursion
<1>6. Equation(f)
  <2>1. ASSUME NEW i \in 1..n PROVE f[i] = Push(f[i - 1], samples[i])
    <3>1. f[i - 1] \in Rings /\ f[i] = step[i][f[i - 1]]
      BY <1>5 DEF Built
    <3> QED BY <1>3, <3>1
  <2>2. f = [i \in 0..n |-> f[i]] /\ f[0] = r
    BY <1>5 DEF Built
  <2>3. ASSUME NEW i \in 0..n PROVE f[i] = IF i = 0 THEN r ELSE Push(f[i - 1], samples[i])
    <3>1. i = 0 \/ i \in 1..n
      OBVIOUS
    <3> QED BY <2>1, <2>2, <3>1
  <2> QED BY <1>1, <2>2, <2>3
<1>7. Equation(Pushes(r, samples))
  BY <1>6 DEF Pushes
<1>8. PICK a : /\ a = Pushes(r, samples) /\ a[0] = r
               /\ \A i \in 1..n : a[i] = Push(a[i - 1], samples[i])
  BY <1>1, <1>7, SMTT(30)
<1> DEFINE Part(i) == shown \o SubSeq(samples, 1, i)
           T == {i \in Nat : i <= n => a[i] \in Rings /\ Ordered(a[i]) = Ending(Window, Part(i))}
<1>9. Part(0) = shown /\ Part(n) = shown \o samples
  <2>1. SubSeq(samples, 1, 0) = <<>> /\ shown \o <<>> = shown
    BY ConcatEmptySeq
  <2>2. SubSeq(samples, 1, n) = samples
    BY <1>1, SubSeqFull
  <2> QED BY <2>1, <2>2
<1>10. 0 \in T
  BY <1>8, <1>9
<1>11. ASSUME NEW i \in Nat, i + 1 <= n
       PROVE  Part(i) \in Seq(Nat) /\ Part(i + 1) = Append(Part(i), samples[i + 1])
  <2>1. SubSeq(samples, 1, i) \in Seq(Nat) /\ samples[i + 1] \in Nat
    BY <1>1, <1>2, <1>11
  <2>2. SubSeq(samples, 1, i + 1) = Append(SubSeq(samples, 1, i), samples[i + 1])
    BY <1>1, <1>11
  <2>3. PICK t \in Seq(Nat) : t = SubSeq(samples, 1, i)
    BY <2>1
  <2>4. PICK x \in Nat : x = samples[i + 1]
    BY <2>1
  <2>5. shown \o (t \o <<x>>) = (shown \o t) \o <<x>>
    BY ConcatAssociative
  <2>6. PICK st \in Seq(Nat) : st = shown \o t
    BY ConcatProperties
  <2>7. Append(st, x) = st \o <<x>> /\ Append(t, x) = t \o <<x>>
    BY AppendIsConcat
  <2> QED BY <2>2, <2>3, <2>4, <2>5, <2>6, <2>7
<1>12. ASSUME NEW i \in T PROVE i + 1 \in T
  <2> SUFFICES ASSUME i + 1 <= n
               PROVE  a[i + 1] \in Rings /\ Ordered(a[i + 1]) = Ending(Window, Part(i + 1))
    OBVIOUS
  <2>1. i \in Nat /\ i + 1 \in 1..n /\ (i + 1) - 1 = i
    OBVIOUS
  <2>2. a[i] \in Rings /\ Ordered(a[i]) = Ending(Window, Part(i))
    BY <2>1
  <2>3. a[i + 1] = Push(a[i], samples[i + 1]) /\ samples[i + 1] \in Nat
    BY <1>2, <1>8, <2>1
  <2> HIDE DEF Part
  <2>4. a[i + 1] \in Rings /\ Ordered(a[i + 1]) = Ending(Window, Append(Ending(Window, Part(i)), samples[i + 1]))
    BY <2>2, <2>3, PushRing
  <2>5. Ending(Window, Append(Ending(Window, Part(i)), samples[i + 1])) = Ending(Window, Append(Part(i), samples[i + 1]))
    BY <1>11, <2>1, <2>3, EndingGoesOn
  <2> QED BY <1>11, <2>1, <2>4, <2>5
<1>13. T = Nat
  <2> HIDE DEF T
  <2>1. T \in SUBSET Nat
    BY DEF T
  <2> QED BY <1>10, <1>12, <2>1, SetInduction
<1>14. a[n] \in Rings /\ Ordered(a[n]) = Ending(Window, Part(n))
  BY <1>13
<1> QED BY <1>1, <1>8, <1>9, <1>14 DEF PushBatch

-----------------------------------------------------------------------------
(* What the sources deliver *)

Data ==
    /\ position \in 0..FileLen /\ ready \in Buffers
    /\ channel \in [Receivers -> Seq(Nat)] /\ arrived \in Nat

LEMMA SamplesType ==
    ASSUME SInv, Data, NEW n \in 1..MaxBatch
    PROVE  Samples(n) \in Seq(Nat)
<1>1. n \in Nat /\ FileLen \in Nat \ {0} /\ position \in Nat
  BY StreamAssumption DEF Data
<1>2. CASE source = "File"
  <2>1. \A i \in 1..n : ((position + i - 1) % FileLen) + 1 \in Nat
    BY <1>1
  <2>2. Samples(n) = [i \in 1..n |-> ((position + i - 1) % FileLen) + 1]
    BY <1>2 DEF Samples
  <2> QED BY <1>1, <2>1, <2>2
<1>3. CASE source \in {"Generator", "Simulation"} /\ waveform
  <2>1. Samples(n) = [i \in 1..n |-> Advances(n)[i].at]
    BY <1>3 DEF Samples
  <2>2. \A i \in 1..n : Advances(n)[i].at \in Nat
    BY <1>1, AdvancesType DEF Data, Buffers
  <2> QED BY <1>1, <2>1, <2>2
<1>4. CASE source = "Generator" /\ ~waveform
  <2>1. Samples(n) = [i \in 1..n |-> 1]
    BY <1>4 DEF Samples
  <2> QED BY <1>1, <2>1
<1>5. CASE source = "Udp"
  <2>1. Samples(n) = Found(channel[receiver])[Len(channel[receiver])]
    BY <1>5 DEF Samples, Polled
  <2>2. channel[receiver] \in Seq(Nat)
    BY <1>5 DEF SInv, Data
  <2> QED BY <2>1, <2>2, FoundType
<1>6. CASE /\ ~(source = "File") /\ ~(source \in {"Generator", "Simulation"} /\ waveform)
           /\ ~(source = "Generator" /\ ~waveform) /\ ~(source = "Udp")
  <2>1. Samples(n) = <<>>
    BY <1>6, Zenon DEF Samples
  <2> QED BY <2>1
<1> QED BY <1>2, <1>3, <1>4, <1>5, <1>6

LEMMA NextData == SInv /\ Data /\ [Next]_vars => Data'
<1> SUFFICES ASSUME SInv, Data, [Next]_vars PROVE Data'
  OBVIOUS
<1>1. FileLen \in Nat \ {0} /\ Block \in Nat \ {0} /\ position \in Nat
  BY StreamAssumption DEF Data
<1>2. CASE UNCHANGED <<position, ready, channel, arrived>>
  BY <1>2 DEF Data
<1>3. CASE User
  <2>1. CASE LoadFile \/ Stop
    BY <1>1, <2>1 DEF LoadFile, Stop, Data, threads
  <2>2. ASSUME NEW kind \in {"Generator", "Simulation"}, NEW known \in BOOLEAN, StartWaveform(kind, known)
        PROVE  Data'
    <3>1. Block % Block = 0 /\ 0 % Block = 0
      <4>1. 0 % Block = 0
        BY <1>1
      <4> QED BY <1>1, <4>1, NextBlock
    <3>2. ready' \in Buffers
      BY <1>1, <2>2, <3>1 DEF StartWaveform, Buffers
    <3> QED BY <2>2, <3>2 DEF StartWaveform, Data, threads
  <2>3. ASSUME NEW to \in 0..FileLen, Seek(to) PROVE Data'
    <3>1. to \in Nat /\ position' = Min({to, FileLen})
      BY <2>3 DEF Seek
    <3>2. position' \in 0..FileLen
      BY <1>1, <3>1, MinOfTwo
    <3> QED BY <2>3, <3>2 DEF Seek, Data, threads
  <2>4. CASE TogglePlay \/ StartRecording \/ StopRecording \/ ClearRecording \/ StopUdp \/ \E r \in Unborn : StartUdp(r)
    BY <1>2, <2>4 DEF TogglePlay, StartRecording, StopRecording, ClearRecording, StopUdp, StartUdp, play, threads
  <2> QED BY <1>3, <2>1, <2>2, <2>3, <2>4 DEF User
<1>4. CASE Frame
  <2>1. PICK n \in 1..MaxBatch : Tick(n)
    BY <1>4 DEF Frame
  <2>2. n \in Nat /\ n \in 0..n
    OBVIOUS
  <2>3. position' \in 0..FileLen
    <3>1. (position + n) % FileLen \in 0..FileLen
      BY <1>1, <2>2
    <3> QED BY <2>1, <3>1 DEF Tick, Taken, Data
  <2>4. ready' \in Buffers
    <3>1. Advances(n)[n] \in Buffers
      BY <2>2, AdvancesType DEF Data
    <3> QED BY <2>1, <3>1 DEF Tick, Taken, Data
  <2>5. channel' \in [Receivers -> Seq(Nat)]
    <3>1. channel' = channel \/ channel' = [channel EXCEPT ![receiver] = <<>>]
      BY <2>1 DEF Tick, Taken
    <3>2. <<>> \in Seq(Nat)
      OBVIOUS
    <3> QED BY <3>1, <3>2 DEF Data
  <2> QED BY <2>1, <2>3, <2>4, <2>5 DEF Tick, Data
<1>5. CASE Joined
  BY <1>2, <1>5 DEF Joined, play, threads
<1>6. CASE Elsewhere
  BY <1>2, <1>6 DEF Elsewhere, quiet, play
<1>7. ASSUME NEW r \in Receivers, Thread(r) PROVE Data'
  <2>1. position' = position /\ ready' = ready
    BY <1>7 DEF Thread, Bind, LookAtFlag, Recv, quiet, play
  <2>2. ASSUME NEW message \in Nat, channel' = [channel EXCEPT ![r] = Append(@, message)]
        PROVE  channel' \in [Receivers -> Seq(Nat)]
    <3>1. Append(channel[r], message) \in Seq(Nat)
      BY DEF Data
    <3> QED BY <2>2, <3>1 DEF Data
  <2>3. CASE Bind(r) \/ LookAtFlag(r)
    <3>1. arrived' = arrived /\ (channel' = channel \/ channel' = [channel EXCEPT ![r] = Append(@, Failure)])
      BY <2>3 DEF Bind, LookAtFlag
    <3> QED BY <2>1, <2>2, <3>1 DEF Data, Failure
  <2>4. CASE Recv(r)
    <3>1. CASE UNCHANGED <<channel, arrived>>
      BY <2>1, <3>1 DEF Data
    <3>2. CASE arrived' = arrived + 1 /\ \E message \in {arrived', Failure} : channel' = [channel EXCEPT ![r] = Append(@, message)]
      <4>1. arrived' \in Nat /\ Failure \in Nat
        BY <3>2 DEF Data, Failure
      <4> QED BY <2>1, <2>2, <3>2, <4>1 DEF Data
    <3> QED BY <2>4, <3>1, <3>2 DEF Recv
  <2> QED BY <1>7, <2>3, <2>4 DEF Thread
<1>8. CASE UNCHANGED vars
  BY <1>2, <1>8 DEF vars, play, threads
<1> QED BY <1>3, <1>4, <1>5, <1>6, <1>7, <1>8 DEF Next

LEMMA InitData == Init => SInv /\ Data
<1> SUFFICES ASSUME Init PROVE SInv /\ Data
  OBVIOUS
<1>1. SInv
  BY NamesApart DEF Init, SInv, Alive
<1>2. ready \in Buffers
  <2>1. 0 % Block = 0
    BY StreamAssumption
  <2> QED BY <2>1 DEF Init, Buffers
<1>3. channel \in [Receivers -> Seq(Nat)]
  <2>1. <<>> \in Seq(Nat)
    OBVIOUS
  <2> QED BY <2>1 DEF Init
<1> QED BY <1>1, <1>2, <1>3, StreamAssumption DEF Init, Data

-----------------------------------------------------------------------------
(* The recording *)

TapeInv ==
    /\ recording \in BOOLEAN /\ recorded \in Seq(Nat) /\ heard \in Seq(Nat)
    /\ RecordingExact

\* What a step does to the recording.
LEMMA TapeStep ==
    ASSUME SInv, Data, [Next]_vars
    PROVE  \/ UNCHANGED tape
           \/ StartRecording \/ StopRecording \/ ClearRecording
           \/ \E samples \in Seq(Nat) : Record(samples)
<1>1. CASE User
  BY <1>1 DEF User, LoadFile, Stop, TogglePlay, StartWaveform, Seek, StartUdp, StopUdp
<1>2. CASE Frame
  <2>1. PICK n \in 1..MaxBatch : Tick(n)
    BY <1>2 DEF Frame
  <2>2. UNCHANGED tape \/ Record(Samples(n))
    BY <2>1 DEF Tick
  <2> QED BY <2>2, SamplesType
<1>3. CASE Joined \/ Elsewhere \/ (\E r \in Receivers : Thread(r)) \/ UNCHANGED vars
  BY <1>3 DEF Joined, Elsewhere, Thread, Bind, LookAtFlag, Recv, quiet, vars
<1> QED BY <1>1, <1>2, <1>3 DEF Next

LEMMA Prefix ==
    ASSUME NEW s \in Seq(Nat), NEW k \in 0..Len(s)
    PROVE  /\ SubSeq(s, 1, k) \in Seq(Nat) /\ Len(SubSeq(s, 1, k)) = k
           /\ \A i \in 1..k : SubSeq(s, 1, k)[i] = s[i]
  OBVIOUS

\* The first m of a sequence and as many of the next as are wanted are the first of both.
LEMMA FirstOfBoth ==
    ASSUME NEW s \in Seq(Nat), NEW t \in Seq(Nat), NEW m \in Nat, Len(s) < m
    PROVE  s \o SubSeq(t, 1, Min({Len(t), m - Len(s)})) = SubSeq(s \o t, 1, Min({Len(s \o t), m}))
<1>1. PICK st \in Seq(Nat) : st = s \o t
  BY ConcatProperties
<1>2. PICK ls \in Nat, lt \in Nat : ls = Len(s) /\ lt = Len(t)
  OBVIOUS
<1>3. /\ Len(st) = ls + lt
      /\ \A i \in 1..(ls + lt) : st[i] = IF i <= ls THEN s[i] ELSE t[i - ls]
  BY <1>1, <1>2, ConcatProperties
<1>4. PICK k \in 0..lt : /\ k = Min({Len(t), m - Len(s)}) /\ (k = lt \/ k = m - ls)
                         /\ ls + k = Min({Len(st), m})
  <2>1. m - ls \in Nat
    BY <1>2
  <2>2. Min({lt, m - ls}) = IF lt <= m - ls THEN lt ELSE m - ls
    BY <2>1, MinOfTwo
  <2>3. PICK all \in Nat : all = ls + lt
    OBVIOUS
  <2>4. Min({all, m}) = IF all <= m THEN all ELSE m
    BY MinOfTwo
  <2>5. PICK k \in 0..lt : k = Min({lt, m - ls})
    BY <2>1, <2>2
  <2>6. ls + k = Min({all, m}) /\ (k = lt \/ k = m - ls)
    <3>1. CASE lt <= m - ls
      BY <2>1, <2>2, <2>3, <2>4, <2>5, <3>1
    <3>2. CASE ~(lt <= m - ls)
      BY <2>1, <2>2, <2>3, <2>4, <2>5, <3>2
    <3> QED BY <3>1, <3>2
  <2> QED BY <1>2, <1>3, <2>3, <2>5, <2>6
<1>5. PICK u \in Seq(Nat) : u = SubSeq(t, 1, k) /\ Len(u) = k /\ \A i \in 1..k : u[i] = t[i]
  BY <1>2, Prefix
<1>6. PICK v \in Seq(Nat) : v = SubSeq(st, 1, ls + k) /\ Len(v) = ls + k /\ \A i \in 1..(ls + k) : v[i] = st[i]
  <2>1. PICK n \in 0..Len(st) : n = ls + k
    BY <1>3
  <2> QED BY <2>1, Prefix
<1>7. PICK w \in Seq(Nat) : /\ w = s \o u /\ Len(w) = ls + k
                            /\ \A i \in 1..(ls + k) : w[i] = IF i <= ls THEN s[i] ELSE u[i - ls]
  <2>1. PICK w \in Seq(Nat) : w = s \o u
    BY ConcatProperties
  <2>2. /\ Len(w) = Len(s) + Len(u)
        /\ \A i \in 1..(Len(s) + Len(u)) : w[i] = IF i <= Len(s) THEN s[i] ELSE u[i - Len(s)]
    BY <2>1, ConcatProperties
  <2> QED BY <1>2, <1>5, <2>1, <2>2
<1>8. ASSUME NEW i \in 1..(ls + k) PROVE w[i] = v[i]
  <2>1. CASE i <= ls
    <3>1. st[i] = s[i]
      BY <1>3, <2>1, SMTT(30)
    <3> QED BY <1>6, <1>7, <2>1, <3>1
  <2>2. CASE ~(i <= ls)
    <3>1. PICK j \in 1..k : j = i - ls
      BY <2>2
    <3>2. st[i] = t[j]
      BY <1>3, <2>2, <3>1
    <3>3. w[i] = u[j]
      BY <1>7, <2>2, <3>1
    <3> QED BY <1>5, <1>6, <3>1, <3>2, <3>3
  <2> QED BY <2>1, <2>2
<1>9. w = v
  BY <1>6, <1>7, <1>8, SeqEqual
<1> QED BY <1>1, <1>4, <1>5, <1>6, <1>7, <1>9

LEMMA NothingRecorded ==
    SubSeq(<<>>, 1, Min({Len(<<>>), MaxRecording})) = <<>> /\ Len(<<>>) < MaxRecording
<1>1. MaxRecording \in Nat \ {0}
  BY StreamAssumption
<1>2. Min({0, MaxRecording}) = 0
  BY <1>1, MinOfTwo
<1>3. Len(<<>>) = 0
  OBVIOUS
<1> QED BY <1>1, <1>2, <1>3

LEMMA NextTape == SInv /\ Data /\ TapeInv /\ [Next]_vars => TapeInv'
<1> SUFFICES ASSUME SInv, Data, TapeInv, [Next]_vars PROVE TapeInv'
  OBVIOUS
<1>1. MaxRecording \in Nat \ {0} /\ Len(heard) \in Nat
  BY StreamAssumption DEF TapeInv
<1>2. CASE UNCHANGED tape
  BY <1>2 DEF TapeInv, RecordingExact, tape
<1>3. CASE recorded' = <<>> /\ heard' = <<>> /\ recording' \in BOOLEAN
  <2>1. RecordingExact'
    BY <1>3, NothingRecorded DEF RecordingExact
  <2> QED BY <1>3, <2>1 DEF TapeInv
<1>4. CASE StartRecording \/ ClearRecording
  BY <1>3, <1>4 DEF StartRecording, ClearRecording, TapeInv
<1>5. CASE StopRecording
  BY <1>5 DEF StopRecording, TapeInv, RecordingExact
<1>6. ASSUME NEW samples \in Seq(Nat), recording, Record(samples)
      PROVE  TapeInv'
  <2>1. Len(recorded) < MaxRecording
    BY <1>6 DEF TapeInv, RecordingExact
  <2>2. recorded = heard
    <3>1. Min({Len(heard), MaxRecording}) = IF Len(heard) <= MaxRecording THEN Len(heard) ELSE MaxRecording
      BY <1>1, MinOfTwo
    <3>2. recorded = SubSeq(heard, 1, Min({Len(heard), MaxRecording})) /\ heard \in Seq(Nat)
      BY DEF TapeInv, RecordingExact
    <3>3. CASE Len(heard) <= MaxRecording
      BY <3>1, <3>2, <3>3, SubSeqFull
    <3>4. CASE ~(Len(heard) <= MaxRecording)
      BY <1>1, <2>1, <3>1, <3>2, <3>4
    <3> QED BY <3>3, <3>4
  <2>3. PICK all \in Seq(Nat) : all = heard \o samples
    BY ConcatProperties DEF TapeInv
  <2>4. recorded' = SubSeq(all, 1, Min({Len(all), MaxRecording})) /\ heard' = all
    BY <1>1, <1>6, <2>1, <2>2, <2>3, FirstOfBoth, ZenonT(40) DEF Record, Recordable, TapeInv
  <2>5. recorded' \in Seq(Nat)
    <3>1. PICK n \in Nat : n = Len(all)
      OBVIOUS
    <3>2. Min({n, MaxRecording}) \in 0..n
      BY <1>1, MinOfTwo, SMTT(30)
    <3> QED BY <2>4, <3>1, <3>2, Prefix
  <2>6. recording' \in BOOLEAN /\ (recording' => Len(recorded') < MaxRecording)
    <3>1. recording' = (Len(recorded') < MaxRecording)
      BY <1>6 DEF Record
    <3>2. recording' \in BOOLEAN
      <4>1. (Len(recorded') < MaxRecording) \in BOOLEAN
        BY <1>1, <2>5
      <4> QED BY <3>1, <4>1, Zenon
    <3> QED BY <3>1, <3>2, Zenon
  <2> QED BY <2>3, <2>4, <2>5, <2>6 DEF TapeInv, RecordingExact
<1>7. ASSUME NEW samples \in Seq(Nat), Record(samples)
      PROVE  TapeInv'
  BY <1>2, <1>6, <1>7 DEF Record
<1> QED BY <1>2, <1>4, <1>5, <1>7, TapeStep

\* The recording is what was delivered since it was emptied, up to its limit,
\* and it has stopped there (manager.rs: tick, start_recording, stop_recording,
\* clear_recording), for batches of any length.
THEOREM RecordingIsExact == Spec => []RecordingExact
<1>1. Init => SInv /\ Data /\ TapeInv
  <2>1. Init => TapeInv
    <3>1. Init => RecordingExact
      BY NothingRecorded DEF Init, RecordingExact
    <3>2. <<>> \in Seq(Nat)
      OBVIOUS
    <3> QED BY <3>1, <3>2 DEF Init, TapeInv
  <2> QED BY <2>1, InitData
<1>2. TapeInv => RecordingExact
  BY DEF TapeInv
<1> QED BY <1>1, <1>2, NextSInv, NextData, NextTape, PTL DEF Spec

-----------------------------------------------------------------------------
(* What the windows show *)

WindowInv ==
    /\ rx \in Rings /\ tx \in Rings
    /\ latest \in Seq(Nat) /\ Len(latest) <= Window
    /\ ShowsLatest

Delivered(samples) ==
    /\ rx' = PushBatch(rx, samples)
    /\ tx' = IF source = "Simulation" THEN PushBatch(tx, samples) ELSE tx
    /\ latest' = Ending(Window, latest \o samples)

\* What a step does to the windows, and to the source beside them.
LEMMA WindowStep ==
    ASSUME SInv, Data, [Next]_vars
    PROVE  \/ ResetBuffers /\ latest' = <<>>
           \/ UNCHANGED windows /\ (source' = source \/ (source = "Udp" /\ source' = "None"))
           \/ source' = source /\ \E samples \in Seq(Nat) : Delivered(samples)
<1>1. CASE User
  <2>1. CASE LoadFile \/ Stop \/ (\E to \in 0..FileLen : Seek(to))
             \/ (\E kind \in {"Generator", "Simulation"}, known \in BOOLEAN : StartWaveform(kind, known))
    BY <2>1 DEF LoadFile, Stop, Seek, StartWaveform
  <2>2. CASE TogglePlay \/ StartRecording \/ StopRecording \/ ClearRecording
    BY <2>2 DEF TogglePlay, StartRecording, StopRecording, ClearRecording, play
  <2>3. ASSUME NEW r \in Unborn, StartUdp(r)
        PROVE  (ResetBuffers /\ latest' = <<>>) \/ UNCHANGED <<windows, source>>
    BY <2>3 DEF StartUdp, Launch, play
  <2>4. CASE source = "Udp" /\ StopUdp
    BY <2>4 DEF StopUdp
  <2> QED BY <1>1, <2>1, <2>2, <2>3, <2>4 DEF User
<1>2. CASE Frame
  <2>1. PICK n \in 1..MaxBatch : Tick(n)
    BY <1>2 DEF Frame
  <2>2. source' = source /\ (UNCHANGED windows \/ Delivered(Samples(n)))
    BY <2>1 DEF Tick, Delivered
  <2> QED BY <2>2, SamplesType
<1>3. CASE Joined
  BY <1>3 DEF Joined, Launch, play
<1>4. CASE Elsewhere \/ (\E r \in Receivers : Thread(r)) \/ UNCHANGED vars
  BY <1>4 DEF Elsewhere, Thread, Bind, LookAtFlag, Recv, quiet, vars, play
<1> QED BY <1>1, <1>2, <1>3, <1>4 DEF Next

LEMMA NextWindows == SInv /\ Data /\ WindowInv /\ [Next]_vars => WindowInv'
<1> SUFFICES ASSUME SInv, Data, WindowInv, [Next]_vars PROVE WindowInv'
  OBVIOUS
<1>1. Window \in Nat \ {0}
  BY StreamAssumption
<1>2. CASE ResetBuffers /\ latest' = <<>>
  <2>1. ShowsLatest'
    BY <1>2, NewRingType DEF ResetBuffers, ShowsLatest
  <2>2. <<>> \in Seq(Nat) /\ Len(<<>>) <= Window
    BY <1>1
  <2> QED BY <1>2, <2>1, <2>2, NewRingType DEF ResetBuffers, WindowInv
<1>3. CASE UNCHANGED windows /\ (source' = source \/ (source = "Udp" /\ source' = "None"))
  BY <1>3 DEF WindowInv, ShowsLatest, windows
<1>4. ASSUME source' = source, NEW samples \in Seq(Nat), Delivered(samples)
      PROVE  WindowInv'
  <2>1. latest = Ending(Window, latest) /\ latest \in Seq(Nat)
    BY DEF WindowInv, Ending
  <2>2. PICK all \in Seq(Nat) : all = latest \o samples
    BY <2>1, ConcatProperties
  <2>3. latest' \in Seq(Nat) /\ Len(latest') <= Window
    <3>1. latest' = Ending(Window, all)
      BY <1>4, <2>2 DEF Delivered
    <3> QED BY <1>1, <3>1, EndingFacts
  <2>4. rx' \in Rings /\ Ordered(rx') = latest'
    <3>1. rx \in Rings /\ Ordered(rx) = Ending(Window, latest)
      BY <2>1 DEF WindowInv, ShowsLatest
    <3> QED BY <1>4, <2>1, <3>1, PushBatchShows DEF Delivered
  <2>5. tx' \in Rings /\ Ordered(tx') = IF source' = "Simulation" THEN latest' ELSE <<>>
    <3>1. CASE source = "Simulation"
      <4>1. tx \in Rings /\ Ordered(tx) = Ending(Window, latest)
        BY <2>1, <3>1 DEF WindowInv, ShowsLatest
      <4> QED BY <1>4, <2>1, <3>1, <4>1, PushBatchShows DEF Delivered
    <3>2. CASE source # "Simulation"
      BY <1>4, <3>2 DEF Delivered, WindowInv, ShowsLatest
    <3> QED BY <3>1, <3>2
  <2> QED BY <2>3, <2>4, <2>5 DEF WindowInv, ShowsLatest
<1> QED BY <1>2, <1>3, <1>4, WindowStep

LEMMA InitWindows == Init => WindowInv
<1> SUFFICES ASSUME Init PROVE WindowInv
  OBVIOUS
<1>1. Window \in Nat \ {0}
  BY StreamAssumption
<1>2. ShowsLatest
  BY NewRingType DEF Init, ShowsLatest
<1>3. <<>> \in Seq(Nat) /\ Len(<<>>) <= Window
  BY <1>1
<1> QED BY <1>2, <1>3, NewRingType DEF Init, WindowInv

\* The windows show the last samples of the present source in their order
\* (ring_buffer.rs: push_batch, as_slice_ordered; manager.rs: tick,
\* reset_buffers), for windows of any size and batches of any length.
THEOREM WindowsShowLatest == Spec => []ShowsLatest
<1>1. WindowInv => ShowsLatest
  BY DEF WindowInv
<1> QED BY <1>1, InitData, InitWindows, NextSInv, NextData, NextWindows, PTL DEF Spec

-----------------------------------------------------------------------------
(* Types *)

RestInv ==
    /\ source \in Sources /\ playback \in {"Stopped", "Playing", "Paused"}
    /\ total \in {0, FileLen} /\ waveform \in BOOLEAN
    /\ status \in {"Disconnected", "Listening", "Receiving", "Error"} /\ lastError \in BOOLEAN
    /\ afterJoin \in {"nothing", "start"} /\ (afterJoin = "start" => joining # NoOne)
    /\ flag \in [Receivers -> BOOLEAN]

LEMMA NextRest == SInv /\ RestInv /\ [Next]_vars => RestInv'
<1> SUFFICES ASSUME SInv, RestInv, [Next]_vars PROVE RestInv'
  OBVIOUS
<1> DEFINE same == <<source, playback, total, waveform, status, lastError, afterJoin, joining, flag>>
<1>1. CASE UNCHANGED same
  BY <1>1 DEF RestInv
<1>2. CASE User
  <2>1. joining = NoOne /\ afterJoin = "nothing"
    BY <1>2 DEF User, RestInv
  <2>2. ASSUME StopReceiver PROVE flag' \in [Receivers -> BOOLEAN]
    BY <2>2 DEF StopReceiver, RestInv
  <2>3. CASE LoadFile \/ (\E to \in 0..FileLen : Seek(to))
    BY <2>1, <2>3 DEF LoadFile, Seek, RestInv, Sources, udp, handle
  <2>4. ASSUME NEW kind \in {"Generator", "Simulation"}, NEW known \in BOOLEAN, StartWaveform(kind, known)
        PROVE  RestInv'
    BY <2>1, <2>4 DEF StartWaveform, RestInv, Sources, udp, handle
  <2>5. CASE Stop
    <3>1. CASE source # "Udp"
      BY <2>1, <2>5, <3>1 DEF Stop, RestInv, Sources, udp, handle
    <3>2. CASE source = "Udp"
      BY <2>1, <2>2, <2>5, <3>2 DEF Stop, RestInv, Sources, udp
    <3> QED BY <3>1, <3>2
  <2>6. CASE TogglePlay
    BY <2>1, <2>6 DEF TogglePlay, RestInv, udp, handle
  <2>7. CASE StartRecording \/ StopRecording \/ ClearRecording
    BY <1>1, <2>7 DEF StartRecording, StopRecording, ClearRecording, play, udp, handle
  <2>8. ASSUME NEW r \in Unborn, StartUdp(r) PROVE RestInv'
    <3>1. CASE receiver = NoOne
      BY <2>1, <2>8, <3>1 DEF StartUdp, Launch, RestInv, Sources
    <3>2. CASE receiver # NoOne
      BY <2>1, <2>2, <2>8, <3>2 DEF StartUdp, StopReceiver, RestInv, play, udp
    <3> QED BY <3>1, <3>2
  <2>9. CASE source = "Udp" /\ StopUdp
    BY <2>1, <2>2, <2>9 DEF StopUdp, RestInv, Sources, udp
  <2> QED BY <1>2, <2>3, <2>4, <2>5, <2>6, <2>7, <2>8, <2>9 DEF User
<1>3. CASE Frame
  <2>1. PICK n \in 1..MaxBatch : Tick(n)
    BY <1>3 DEF Frame
  <2>2. UNCHANGED <<source, playback, total, waveform, afterJoin, joining, flag>>
    BY <2>1 DEF Tick, handle
  <2>3. lastError' \in BOOLEAN
    <3>1. lastError' = lastError \/ lastError' = (lastError \/ Contains(channel[receiver], Failure))
      BY <2>1 DEF Tick, Taken, udp
    <3> QED BY <3>1, Zenon DEF RestInv, Contains
  <2>4. status' \in {"Disconnected", "Listening", "Receiving", "Error"}
    <3>1. CASE source # "Udp"
      BY <2>1, <3>1 DEF Tick, Taken, udp, RestInv
    <3>2. CASE source = "Udp"
      <4>1. status' = CASE Polled = <<>> -> status
                        [] Polled # <<>> /\ lastError' -> "Error"
                        [] OTHER -> "Receiving"
        BY <2>1, <3>2 DEF Tick, Taken
      <4>2. CASE Polled = <<>>
        BY <4>1, <4>2 DEF RestInv
      <4>3. CASE Polled # <<>> /\ lastError'
        BY <4>1, <4>3
      <4>4. CASE ~(Polled = <<>>) /\ ~lastError'
        BY <4>1, <4>4, Zenon
      <4> QED BY <4>2, <4>3, <4>4
    <3> QED BY <3>1, <3>2
  <2> QED BY <2>2, <2>3, <2>4 DEF RestInv
<1>4. CASE Joined
  <2>1. joining' = NoOne /\ afterJoin' = "nothing" /\ flag' = flag
    BY <1>4 DEF Joined
  <2>2. ASSUME NEW r \in Unborn, Launch(r), UNCHANGED waveform PROVE RestInv'
    BY <2>1, <2>2 DEF Launch, RestInv, Sources
  <2>3. CASE UNCHANGED <<play, udp>>
    BY <2>1, <2>3 DEF RestInv, play, udp
  <2> QED BY <1>4, <2>2, <2>3 DEF Joined
<1>5. CASE Elsewhere \/ (\E r \in Receivers : Thread(r)) \/ UNCHANGED vars
  BY <1>1, <1>5 DEF Elsewhere, Thread, Bind, LookAtFlag, Recv, quiet, vars, play, udp, handle
<1> QED BY <1>2, <1>3, <1>4, <1>5 DEF Next

\* No cursor leaves its buffer: the position of a file, the one of the sample
\* buffer, the head of a window; and a UDP source has a receiver.
THEOREM TypeCorrect == Spec => []TypeOK
<1>1. SInv /\ Data /\ TapeInv /\ WindowInv /\ RestInv => TypeOK
  <2> SUFFICES ASSUME SInv, Data, TapeInv, WindowInv, RestInv PROVE TypeOK
    OBVIOUS
  <2>1. ready.len % Block = 0 /\ ready.at \in 0..ready.len
    BY DEF Data, Buffers
  <2>2. \A ring \in {rx, tx} : ring.head \in 0..(Window - 1) /\ ring.len \in 0..Window
    BY DEF WindowInv, Rings
  <2>3. Len(recorded) <= MaxRecording
    <3>1. MaxRecording \in Nat /\ heard \in Seq(Nat) /\ Len(heard) \in Nat
      BY StreamAssumption DEF TapeInv
    <3>2. PICK k \in 0..Len(heard) : k = Min({Len(heard), MaxRecording}) /\ k <= MaxRecording
      <4>1. PICK n \in Nat : n = Len(heard)
        BY <3>1
      <4> QED BY <3>1, <4>1, MinOfTwo
    <3> QED BY <3>1, <3>2, Prefix DEF TapeInv, RecordingExact
  <2> QED BY <2>1, <2>2, <2>3 DEF SInv, Data, TapeInv, RestInv, Alive, TypeOK
<1>2. Init => RestInv
  BY DEF Init, RestInv, Sources
<1>3. Init => TapeInv
  <2>1. <<>> \in Seq(Nat)
    OBVIOUS
  <2> QED BY <2>1, NothingRecorded DEF Init, TapeInv, RecordingExact
<1> QED BY <1>1, <1>2, <1>3, InitData, InitWindows, NextSInv, NextData, NextTape, NextWindows, NextRest, PTL DEF Spec

=============================================================================
