------------------------- MODULE MeshNetworkProofs -------------------------
(***************************************************************************)
(* What TLAPS proves of MeshNetwork, for every network, whatever is sent   *)
(* in it and lost: a node hands a message to its application once and      *)
(* rebroadcasts it once between two expiries of the duplicate caches,      *)
(* finishes a packet before it transmits another, hears a message only     *)
(* within its hop limit, and gives up a rebroadcast only for another one;  *)
(* and where there are no loops and no faults, a broadcast reaches all it  *)
(* may.  Four inductive invariants, one on the other: MInv (records, air   *)
(* and duplicates), RInv (hops and the types of it all), NInv (who has     *)
(* heard whom), TInv (how far down a tree a broadcast is).                 *)
(***************************************************************************)
EXTENDS MeshNetwork, FiniteSetTheorems, WellFoundedInduction, SequenceTheorems, TLAPS

Packets ==
    {p \in [src : Nodes, dest : Nodes \cup {"all"}, id : Nat, hop : Nat, msg : AllMessages] :
        p.src = p.msg.src /\ p.id = p.msg.id}

Keys == Nodes \X Nat

Macs == [state : MacStates, queue : Seq(Packets), started : BOOLEAN,
         slots : Int, attempts : Int, airtime : Int]

Routers == [seen : SUBSET Keys, pending : Seq(Packets), heard : SUBSET Keys]

Shapes ==
    /\ scenario \in Scenarios /\ unsent \subseteq AllMessages
    /\ mac \in [Nodes -> Macs] /\ router \in [Nodes -> Routers]
    /\ air \in [Nodes -> SUBSET Packets]
    /\ delivered \in [Nodes -> [AllMessages -> Nat]]
    /\ forwarded \in [Nodes -> [AllMessages -> Nat]]
    /\ lapses \in Nat

LEMMA Messages ==
    ASSUME NEW m \in AllMessages
    PROVE  m \in [src : Nodes, dest : Nodes \cup {"all"}, id : Nat, hop : Nat]
  BY MeshAssumption DEF AllMessages

LEMMA PacketIsPacket ==
    ASSUME NEW m \in AllMessages
    PROVE  Packet(m) \in Packets /\ OnWire(Packet(m)) \in Packets
<1>1. Packet(m) \in Packets
  BY Messages DEF Packet, Packets
<1>2. ASSUME NEW p \in Packets PROVE OnWire(p) \in Packets
  BY MeshAssumption DEF OnWire, Packets
<1> QED BY <1>1, <1>2

LEMMA OnWireKeeps ==
    ASSUME NEW p \in Packets
    PROVE  OnWire(p) \in Packets
  BY MeshAssumption DEF OnWire, Packets

LEMMA KeyOfMessage ==
    ASSUME NEW p \in Packets
    PROVE  Key(p) = Key(p.msg) /\ Key(p) \in Keys /\ p.msg \in AllMessages
  BY DEF Packets, Key, Keys

-----------------------------------------------------------------------------
(* The MAC layer                                                           *)

\* The records that the operations make.
LEMMA ResetRecord ==
    ASSUME NEW m \in Macs, NEW started \in BOOLEAN, NEW slots \in Int, NEW attempts \in Int
    PROVE  /\ [m EXCEPT !.started = started, !.slots = slots, !.attempts = attempts] \in Macs
           /\ [m EXCEPT !.started = started, !.slots = slots, !.attempts = attempts].queue = m.queue
           /\ [m EXCEPT !.started = started, !.slots = slots, !.attempts = attempts].state = m.state
  BY DEF Macs

LEMMA BackoffRecord ==
    ASSUME NEW m \in Macs, NEW state \in MacStates, NEW started \in BOOLEAN,
           NEW slots \in Int, NEW attempts \in Int
    PROVE  /\ [m EXCEPT !.state = state, !.started = started, !.slots = slots, !.attempts = attempts] \in Macs
           /\ [m EXCEPT !.state = state, !.started = started, !.slots = slots, !.attempts = attempts].queue = m.queue
           /\ [m EXCEPT !.state = state, !.started = started, !.slots = slots, !.attempts = attempts].state = state
  BY DEF Macs

LEMMA AirtimeRecord ==
    ASSUME NEW m \in Macs, NEW state \in MacStates, NEW airtime \in Int
    PROVE  /\ [m EXCEPT !.state = state, !.airtime = airtime] \in Macs
           /\ [m EXCEPT !.state = state, !.airtime = airtime].state = state
  BY DEF Macs

LEMMA QueueRecord ==
    ASSUME NEW m \in Macs, NEW state \in MacStates, NEW queue \in Seq(Packets)
    PROVE  /\ [m EXCEPT !.state = state, !.queue = queue] \in Macs
           /\ [m EXCEPT !.state = state, !.queue = queue].state = state
  BY DEF Macs

LEMMA BackoffResetKeeps ==
    ASSUME NEW m \in Macs
    PROVE  BackoffReset(m) \in Macs /\ BackoffReset(m).queue = m.queue /\ BackoffReset(m).state = m.state
<1>1. FALSE \in BOOLEAN /\ 0 \in Int
  OBVIOUS
<1>2. [m EXCEPT !.started = FALSE, !.slots = 0, !.attempts = 0] \in Macs
  BY <1>1, ResetRecord, Zenon
<1>3. BackoffReset(m).queue = m.queue /\ BackoffReset(m).state = m.state
  BY DEF BackoffReset, Macs
<1> QED BY <1>2, <1>3 DEF BackoffReset

LEMMA NewMacIsMac == NewMac \in Macs
  BY DEF NewMac, Macs, MacStates

LEMMA QueueTxKeeps ==
    ASSUME NEW m \in Macs, NEW p \in Packets
    PROVE  QueueTx(m, p) \in Macs /\ QueueTx(m, p).state = m.state
  BY AppendProperties DEF QueueTx, Macs

LEMMA MacKept ==
    ASSUME NEW m \in Macs
    PROVE  /\ m.queue # <<>> => StartTx(m) \in Macs /\ StartTx(m).state = "Transmitting"
           /\ TxComplete(m) \in Macs /\ TxComplete(m).state = "Idle"
           /\ Pruned(m) \in Macs /\ Pruned(m).state = m.state
<1>4. ASSUME m.queue # <<>> PROVE StartTx(m) \in Macs /\ StartTx(m).state = "Transmitting"
  <2>1. Tail(m.queue) \in Seq(Packets) /\ "Transmitting" \in MacStates
    BY <1>4, HeadTailProperties DEF Macs, MacStates
  <2>2. StartTx(m) = [BackoffReset(m) EXCEPT !.state = "Transmitting", !.queue = Tail(m.queue)]
    BY BackoffResetKeeps, Zenon DEF StartTx
  <2>3. StartTx(m) \in Macs
    <3>1. BackoffReset(m) \in Macs
      BY BackoffResetKeeps
    <3>2. [BackoffReset(m) EXCEPT !.state = "Transmitting", !.queue = Tail(m.queue)] \in Macs
      BY <2>1, <3>1, QueueRecord, Zenon
    <3> QED BY <2>2, <3>2
  <2>4. StartTx(m).state = "Transmitting"
    BY <2>1, <2>2, BackoffResetKeeps DEF Macs
  <2> QED BY <2>3, <2>4
<1>5. TxComplete(m) \in Macs /\ TxComplete(m).state = "Idle"
  <2>1. m.airtime + 1 \in Int /\ "Idle" \in MacStates
    BY DEF Macs, MacStates
  <2> QED BY <2>1, AirtimeRecord, Zenon DEF TxComplete
<1>6. Pruned(m) \in Macs /\ Pruned(m).state = m.state
  BY DEF Pruned, Macs
<1> QED BY <1>4, <1>5, <1>6

\* What can_transmit decides leaves the queue, and while a transmission goes on
\* everything.
LEMMA CanTransmitKeeps ==
    ASSUME NEW m \in Macs, NEW busy \in BOOLEAN, NEW waited \in BOOLEAN,
           NEW d \in CanTransmit(m, busy, waited)
    PROVE  /\ d.mac \in Macs /\ d.mac.queue = m.queue
           /\ m.state = "Transmitting" => d.decision = "AlreadyTransmitting" /\ d.mac.state = "Transmitting"
           /\ m.state # "Transmitting" => d.mac.state # "Transmitting"
<1> DEFINE s == Sensed(m, busy)
<1>1. /\ s \in Macs /\ s.queue = m.queue
      /\ s.state = "Transmitting" <=> m.state = "Transmitting"
  BY DEF Sensed, Macs, MacStates
<1>2. ASSUME NEW x \in Macs, NEW choice PROVE Decision(x, choice).mac = x /\ Decision(x, choice).decision = choice
  BY DEF Decision
<1> HIDE DEF s
<1>3. CASE s.state = "Idle" /\ d = WhenIdle(s, waited)
  <2>1. d.mac = s
    BY <1>1, <1>2, <1>3 DEF WhenIdle
  <2> QED BY <1>1, <1>3, <2>1
<1>4. CASE s.state = "Busy" /\ d \in WhenBusy(s)
  <2>1. CASE d = Decision(s, "Backoff")
    BY <1>1, <1>2, <1>4, <2>1
  <2>2. ASSUME NEW k \in 0..Slots,
               d = Decision([s EXCEPT !.state = "Backoff", !.started = TRUE, !.slots = k, !.attempts = @ + 1], "Backoff")
        PROVE  d.mac \in Macs /\ d.mac.queue = m.queue /\ d.mac.state = "Backoff"
    <3>1. k \in Int /\ s.attempts + 1 \in Int /\ "Backoff" \in MacStates
      BY <1>1, MacAssumption DEF Macs, MacStates
    <3>9. TRUE \in BOOLEAN
      OBVIOUS
    <3> DEFINE x == [s EXCEPT !.state = "Backoff", !.started = TRUE, !.slots = k, !.attempts = @ + 1]
    <3>2. x \in Macs /\ x.queue = m.queue /\ x.state = "Backoff"
      <4>1. x \in Macs
        BY <1>1, <3>1, <3>9, BackoffRecord, Zenon
      <4>2. x.queue = s.queue /\ x.state = "Backoff"
        BY <1>1 DEF Macs
      <4> QED BY <1>1, <4>1, <4>2
    <3> QED BY <1>2, <2>2, <3>2
  <2> QED BY <1>1, <1>4, <2>1, <2>2 DEF WhenBusy
<1>5. CASE s.state = "Backoff" /\ d \in WhenBackoff(s, waited)
  <2>1. CASE d = BackoffOver(s)
    <3>1. BackoffReset(s) \in Macs /\ BackoffReset(s).queue = m.queue /\ BackoffReset(s).state = "Backoff"
      BY <1>1, <1>5, BackoffResetKeeps
    <3>2. [s EXCEPT !.state = "Idle"] \in Macs /\ [s EXCEPT !.state = "Idle"].queue = m.queue
          /\ [s EXCEPT !.state = "Idle"].state = "Idle"
      BY <1>1 DEF Macs, MacStates
    <3>3. d.mac = BackoffReset(s) \/ d.mac = [s EXCEPT !.state = "Idle"]
      BY <2>1, <3>1, <3>2, <1>2 DEF BackoffOver
    <3> QED BY <1>1, <1>5, <3>1, <3>2, <3>3
  <2>2. ASSUME NEW k \in 1..s.slots, d = Decision([s EXCEPT !.slots = k], "Backoff")
        PROVE  d.mac \in Macs /\ d.mac.queue = m.queue /\ d.mac.state = "Backoff"
    <3>1. [s EXCEPT !.slots = k] \in Macs /\ [s EXCEPT !.slots = k].queue = m.queue
          /\ [s EXCEPT !.slots = k].state = "Backoff"
      BY <1>1, <1>5 DEF Macs
    <3> QED BY <1>2, <2>2, <3>1
  <2> QED BY <1>1, <1>5, <2>1, <2>2 DEF WhenBackoff
<1>6. CASE s.state = "Transmitting" /\ d = Decision(s, "AlreadyTransmitting")
  BY <1>1, <1>2, <1>6
<1>7. s.state \in {"Idle", "Busy", "Backoff", "Transmitting"}
  BY <1>1 DEF Macs, MacStates
<1> QED BY <1>3, <1>4, <1>5, <1>6, <1>7 DEF CanTransmit, s

-----------------------------------------------------------------------------
(* A message is delivered once and rebroadcast once                        *)

InSeen(n, key) == key \in router[n].seen
InPending(n, key) == \E i \in 1..Len(router[n].pending) : Key(router[n].pending[i]) = key

\* What waits to be rebroadcast is known, and no two of it are the same; what
\* is known was delivered once since the last expiry, and rebroadcast once
\* unless it still waits.
Once(n) ==
    /\ \A i \in 1..Len(router[n].pending) : InSeen(n, Key(router[n].pending[i]))
    /\ \A i, j \in 1..Len(router[n].pending) :
          Key(router[n].pending[i]) = Key(router[n].pending[j]) => i = j
    /\ \A m \in AllMessages :
          /\ delivered[n][m] <= lapses + 1 /\ forwarded[n][m] <= lapses + 1
          /\ ~InSeen(n, Key(m)) => delivered[n][m] <= lapses /\ forwarded[n][m] <= lapses
          /\ InPending(n, Key(m)) => forwarded[n][m] <= lapses

\* Where the MAC layer is asked, it knows of the transmission.
AirMac == scenario.driver = "mac" => \A n \in Nodes : air[n] # {} => mac[n].state = "Transmitting"

MInv == Shapes /\ AirMac /\ \A n \in Nodes : Once(n)

LEMMA OneMore ==
    ASSUME NEW f \in [AllMessages -> Nat], NEW k \in AllMessages, NEW g,
           g = f \/ g = [f EXCEPT ![k] = @ + 1]
    PROVE  /\ g \in [AllMessages -> Nat]
           /\ \A m \in AllMessages : g[m] = f[m] \/ (m = k /\ g[m] = f[m] + 1)
  OBVIOUS

\* A router that was not asked is as it was.
LEMMA OnceKept ==
    ASSUME NEW n, Once(n), router'[n] = router[n], delivered'[n] = delivered[n],
           forwarded'[n] = forwarded[n], lapses' = lapses
    PROVE  Once(n)'
  BY DEF Once, InSeen, InPending

\* A poll takes the first pending packet, which may go on once.
LEMMA PollOnce ==
    ASSUME MInv, NEW n \in Nodes, NEW ready \in BOOLEAN, PollRouter(n, ready),
           UNCHANGED <<delivered, lapses>>
    PROVE  /\ router' \in [Nodes -> Routers] /\ forwarded' \in [Nodes -> [AllMessages -> Nat]]
           /\ \A x \in Nodes : Once(x)'
<1>0. /\ router[n] \in Routers /\ router[n].pending \in Seq(Packets) /\ Once(n)
      /\ forwarded[n] \in [AllMessages -> Nat]
  BY DEF MInv, Shapes, Routers
<1>1. CASE ~HandsOut(n, ready)
  <2>1. router' = router /\ forwarded' = forwarded
    BY <1>1 DEF PollRouter, Forwards
  <2> QED BY <2>1, OnceKept DEF MInv, Shapes
<1>2. CASE HandsOut(n, ready)
  <2> DEFINE old == router[n].pending
             new == router'[n].pending
             msg == Head(old).msg
  <2>1. /\ old # <<>> /\ router' = [router EXCEPT ![n] = PopPending(@)]
        /\ forwarded' = forwarded \/ forwarded' = [forwarded EXCEPT ![n][msg] = @ + 1]
    BY <1>2 DEF PollRouter, HandsOut
  <2>2. /\ Head(old) = old[1] /\ Head(old) \in Packets /\ Tail(old) \in Seq(Packets)
        /\ Len(Tail(old)) = Len(old) - 1 /\ Len(old) \in Nat \ {0}
        /\ \A i \in 1..Len(Tail(old)) : Tail(old)[i] = old[i + 1]
    BY <1>0, <2>1, HeadTailProperties, EmptySeq
  <2>3. /\ PopPending(router[n]) \in Routers /\ PopPending(router[n]).pending = Tail(old)
        /\ PopPending(router[n]).seen = router[n].seen
    BY <1>0, <2>2 DEF PopPending, Routers
  <2>4. /\ router' \in [Nodes -> Routers] /\ new = Tail(old) /\ router'[n].seen = router[n].seen
        /\ \A x \in Nodes : x # n => router'[x] = router[x]
    BY <2>1, <2>3 DEF MInv, Shapes
  <2>5. msg \in AllMessages /\ Key(Head(old)) = Key(msg)
    BY <2>2, KeyOfMessage
  <2> HIDE DEF msg
  <2>6. /\ forwarded' \in [Nodes -> [AllMessages -> Nat]]
        /\ \A x \in Nodes : x # n => forwarded'[x] = forwarded[x]
        /\ \A m \in AllMessages :
              forwarded'[n][m] = forwarded[n][m] \/ (m = msg /\ forwarded'[n][m] = forwarded[n][m] + 1)
    <3>1. forwarded \in [Nodes -> [AllMessages -> Nat]]
      BY DEF MInv, Shapes
    <3>2. CASE forwarded' = forwarded
      BY <3>1, <3>2
    <3>3. CASE forwarded' = [forwarded EXCEPT ![n][msg] = @ + 1]
      <4>1. forwarded' = [forwarded EXCEPT ![n] = [forwarded[n] EXCEPT ![msg] = @ + 1]]
        BY <3>1, <3>3
      <4>2. PICK g : g = [forwarded[n] EXCEPT ![msg] = @ + 1]
        OBVIOUS
      <4>3. /\ g \in [AllMessages -> Nat]
            /\ \A m \in AllMessages : g[m] = forwarded[n][m] \/ (m = msg /\ g[m] = forwarded[n][m] + 1)
        BY <1>0, <2>5, <4>2, OneMore
      <4>4. forwarded' = [forwarded EXCEPT ![n] = g]
        BY <4>1, <4>2
      <4> QED BY <3>1, <4>3, <4>4
    <3> QED BY <2>1, <3>2, <3>3
  <2>7. \A i \in 1..Len(new) : i + 1 \in 1..Len(old) /\ new[i] = old[i + 1]
    BY <2>2, <2>4
  <2>8. \A i \in 1..Len(new) : Key(new[i]) # Key(msg)
    <3>1. 1 \in 1..Len(old)
      BY <2>2
    <3>2. \A i \in 1..Len(new) : Key(old[i + 1]) = Key(old[1]) => i + 1 = 1
      BY <1>0, <2>7, <3>1 DEF Once
    <3> QED BY <2>2, <2>5, <2>7, <3>2
  <2>9. \A i, j \in 1..Len(new) : Key(new[i]) = Key(new[j]) => i = j
    <3> SUFFICES ASSUME NEW i \in 1..Len(new), NEW j \in 1..Len(new), Key(new[i]) = Key(new[j])
                 PROVE  i = j
      OBVIOUS
    <3>1. i + 1 = j + 1
      BY <1>0, <2>7 DEF Once
    <3> QED BY <3>1
  <2>10. \A i \in 1..Len(new) : Key(new[i]) \in router'[n].seen
    BY <1>0, <2>4, <2>7 DEF Once, InSeen
  <2>11. Key(msg) \in router[n].seen
    BY <1>0, <2>2, <2>5 DEF Once, InSeen
  <2>12. ASSUME NEW m \in AllMessages
         PROVE  /\ delivered'[n][m] <= lapses' + 1 /\ forwarded'[n][m] <= lapses' + 1
                /\ Key(m) \notin router'[n].seen =>
                     delivered'[n][m] <= lapses' /\ forwarded'[n][m] <= lapses'
                /\ (\E i \in 1..Len(new) : Key(new[i]) = Key(m)) => forwarded'[n][m] <= lapses'
    <3>1. /\ delivered[n][m] <= lapses + 1 /\ forwarded[n][m] <= lapses + 1
          /\ Key(m) \notin router[n].seen => delivered[n][m] <= lapses /\ forwarded[n][m] <= lapses
          /\ (\E i \in 1..Len(old) : Key(old[i]) = Key(m)) => forwarded[n][m] <= lapses
      BY <1>0 DEF Once, InSeen, InPending
    <3>2. forwarded[n][m] \in Nat /\ forwarded'[n][m] \in Nat /\ lapses \in Nat
      BY <2>6 DEF MInv, Shapes
    <3>3. CASE m = msg
      <4>1. forwarded[n][m] <= lapses
        <5>1. \E i \in 1..Len(old) : Key(old[i]) = Key(m)
          BY <2>2, <2>5, <3>3
        <5> QED BY <3>1, <5>1
      <4>2. forwarded'[n][m] <= lapses + 1
        BY <2>6, <3>2, <4>1
      <4>3. ~(\E i \in 1..Len(new) : Key(new[i]) = Key(m)) /\ Key(m) \in router'[n].seen
        BY <2>4, <2>8, <2>11, <3>3
      <4> QED BY <3>1, <4>2, <4>3
    <3>4. CASE m # msg
      <4>1. (\E i \in 1..Len(new) : Key(new[i]) = Key(m)) => \E i \in 1..Len(old) : Key(old[i]) = Key(m)
        BY <2>7
      <4>2. forwarded'[n][m] = forwarded[n][m]
        BY <2>6, <3>4
      <4> QED BY <2>4, <3>1, <4>1, <4>2
    <3> QED BY <3>3, <3>4
  <2>13. Once(n)'
    BY <2>9, <2>10, <2>12 DEF Once, InSeen, InPending
  <2>14. \A x \in Nodes : x # n => Once(x)'
    BY <2>4, <2>6, OnceKept DEF MInv
  <2> QED BY <2>4, <2>6, <2>13, <2>14
<1> QED BY <1>1, <1>2

\* A reception delivers and puts into the queue what the router did not know.
LEMMA ReceiveOnce ==
    ASSUME MInv, NEW R \in SUBSET Nodes, NEW p \in Packets, Receive(R, p),
           UNCHANGED <<forwarded, lapses>>
    PROVE  /\ router' \in [Nodes -> Routers] /\ delivered' \in [Nodes -> [AllMessages -> Nat]]
           /\ \A x \in Nodes : Once(x)'
<1>1. Key(p) = Key(p.msg) /\ Key(p) \in Keys /\ p.msg \in AllMessages
  BY KeyOfMessage
<1>2. ASSUME NEW n \in Nodes
      PROVE  /\ router'[n] \in Routers /\ delivered'[n] \in [AllMessages -> Nat] /\ Once(n)'
  <2> DEFINE old == router[n].pending
             new == router'[n].pending
  <2>0. /\ router[n] \in Routers /\ old \in Seq(Packets) /\ Len(old) \in Nat /\ Once(n)
        /\ delivered[n] \in [AllMessages -> Nat] /\ forwarded[n] \in [AllMessages -> Nat] /\ lapses \in Nat
    BY DEF MInv, Shapes, Routers
  <2>1. CASE n \notin R
    <3>1. router'[n] = router[n] /\ delivered'[n] = delivered[n]
      BY <2>1 DEF Receive
    <3> QED BY <2>0, <3>1, OnceKept
  <2>2. CASE n \in R /\ Key(p) \in router[n].seen
    <3>1. router'[n] = Heard(router[n], p) /\ delivered'[n] = delivered[n]
      BY <2>2 DEF Receive, ProcessIncoming, IsNew
    <3>2. router'[n] \in Routers /\ new = old /\ router'[n].seen = router[n].seen
      BY <1>1, <2>0, <3>1 DEF Heard, Routers
    <3> QED BY <2>0, <3>1, <3>2 DEF Once, InSeen, InPending
  <2>3. CASE n \in R /\ Key(p) \notin router[n].seen
    <3>1. /\ router'[n] = Waiting(Remembered(router[n], p), n, p)
          /\ delivered'[n] = delivered[n] \/ delivered'[n] = [delivered[n] EXCEPT ![p.msg] = @ + 1]
      BY <2>3 DEF Receive, ProcessIncoming, IsNew
    <3>2. /\ Remembered(router[n], p) \in Routers /\ Remembered(router[n], p).pending = old
          /\ Remembered(router[n], p).seen = router[n].seen \cup {Key(p)}
      BY <1>1, <2>0 DEF Remembered, Routers
    <3>3. OneHopLess(p) \in Packets /\ Key(OneHopLess(p)) = Key(p)
      BY DEF OneHopLess, Packets, Key
    <3>4. /\ router'[n] \in Routers
          /\ new = old \/ new = Append(old, OneHopLess(p))
          /\ router'[n].seen = router[n].seen \cup {Key(p)}
      <4>1. Append(old, OneHopLess(p)) \in Seq(Packets)
        BY <2>0, <3>3, AppendProperties
      <4> QED BY <3>1, <3>2, <4>1 DEF Waiting, Routers
    <3>5. /\ delivered'[n] \in [AllMessages -> Nat]
          /\ \A m \in AllMessages :
                delivered'[n][m] = delivered[n][m] \/ (m = p.msg /\ delivered'[n][m] = delivered[n][m] + 1)
      <4>1. PICK f, g, k : f = delivered[n] /\ g = delivered'[n] /\ k = p.msg
        OBVIOUS
      <4>2. /\ f \in [AllMessages -> Nat] /\ k \in AllMessages
            /\ g = f \/ g = [f EXCEPT ![k] = @ + 1]
        BY <1>1, <2>0, <3>1, <4>1
      <4>3. /\ g \in [AllMessages -> Nat]
            /\ \A m \in AllMessages : g[m] = f[m] \/ (m = k /\ g[m] = f[m] + 1)
        BY <4>2, OneMore
      <4> QED BY <4>1, <4>3
    <3>6. \A i \in 1..Len(old) : Key(old[i]) \in router[n].seen /\ Key(old[i]) # Key(p)
      BY <2>0, <2>3 DEF Once, InSeen
    <3>61. ASSUME NEW m \in AllMessages
           PROVE  /\ delivered'[n][m] <= lapses + 1 /\ forwarded[n][m] <= lapses + 1
                  /\ Key(m) \notin router'[n].seen =>
                       delivered'[n][m] <= lapses /\ forwarded[n][m] <= lapses
                  /\ Key(m) = Key(p) => forwarded[n][m] <= lapses
                  /\ (\E i \in 1..Len(old) : Key(old[i]) = Key(m)) => forwarded[n][m] <= lapses
      <4>1. /\ delivered[n][m] <= lapses + 1 /\ forwarded[n][m] <= lapses + 1
            /\ Key(m) \notin router[n].seen => delivered[n][m] <= lapses /\ forwarded[n][m] <= lapses
            /\ (\E i \in 1..Len(old) : Key(old[i]) = Key(m)) => forwarded[n][m] <= lapses
        BY <2>0 DEF Once, InSeen, InPending
      <4>2. delivered[n][m] \in Nat /\ delivered'[n][m] \in Nat /\ forwarded[n][m] \in Nat
        BY <2>0, <3>5
      <4>3. CASE Key(m) = Key(p)
        <5>1. delivered[n][m] <= lapses /\ forwarded[n][m] <= lapses
          BY <2>3, <4>1, <4>3
        <5>2. delivered'[n][m] <= lapses + 1
          BY <2>0, <3>5, <4>2, <5>1, SMTT(30)
        <5>3. Key(m) \in router'[n].seen
          BY <3>4, <4>3
        <5> QED BY <4>1, <5>1, <5>2, <5>3
      <4>4. CASE Key(m) # Key(p)
        <5>1. delivered'[n][m] = delivered[n][m]
          BY <1>1, <3>5, <4>4
        <5>2. Key(m) \in router'[n].seen <=> Key(m) \in router[n].seen
          BY <3>4, <4>4
        <5> QED BY <4>1, <4>4, <5>1, <5>2
      <4> QED BY <4>3, <4>4
    <3>7. CASE new = old
      <4>1. \A i \in 1..Len(new) : Key(new[i]) \in router'[n].seen
        BY <3>4, <3>6, <3>7
      <4>2. \A i, j \in 1..Len(new) : Key(new[i]) = Key(new[j]) => i = j
        BY <2>0, <3>7 DEF Once
      <4> QED BY <3>4, <3>5, <3>61, <3>7, <4>1, <4>2 DEF Once, InSeen, InPending
    <3>8. CASE new = Append(old, OneHopLess(p))
      <4>1. /\ Len(new) = Len(old) + 1 /\ Key(new[Len(old) + 1]) = Key(p)
            /\ \A i \in 1..Len(old) : new[i] = old[i]
        BY <2>0, <3>3, <3>8, AppendProperties
      <4>2. \A i \in 1..Len(new) : i \in 1..Len(old) \/ i = Len(old) + 1
        BY <2>0, <4>1
      <4>3. \A i \in 1..Len(new) : Key(new[i]) \in router'[n].seen
        BY <3>4, <3>6, <4>1, <4>2
      <4>4. \A i, j \in 1..Len(new) : Key(new[i]) = Key(new[j]) => i = j
        BY <2>0, <3>6, <4>1, <4>2 DEF Once
      <4>5. ASSUME NEW m \in AllMessages
            PROVE  (\E i \in 1..Len(new) : Key(new[i]) = Key(m)) <=>
                     (Key(m) = Key(p) \/ \E i \in 1..Len(old) : Key(old[i]) = Key(m))
        <5>1. Len(old) + 1 \in 1..Len(new) /\ \A i \in 1..Len(old) : i \in 1..Len(new)
          BY <2>0, <4>1
        <5> QED BY <4>1, <4>2, <5>1
      <4>6. \A m \in AllMessages :
              (\E i \in 1..Len(new) : Key(new[i]) = Key(m)) => forwarded[n][m] <= lapses
        BY <3>61, <4>5
      <4> QED BY <3>4, <3>5, <3>61, <4>3, <4>4, <4>6 DEF Once, InSeen, InPending
    <3> QED BY <3>4, <3>5, <3>7, <3>8
  <2> QED BY <2>1, <2>2, <2>3
<1>3. /\ router' = [n \in Nodes |-> router'[n]] /\ delivered' = [n \in Nodes |-> delivered'[n]]
  BY DEF Receive
<1> QED BY <1>2, <1>3

-----------------------------------------------------------------------------
(* The steps                                                               *)

LEMMA Mutual ==
    ASSUME scenario \in Scenarios
    PROVE  Members \subseteq Nodes /\ \A n : Hearers(n) \subseteq Nodes
  BY MeshAssumption DEF Members, Hearers

LEMMA InitMInv == Init => MInv
<1> SUFFICES ASSUME Init PROVE MInv
  OBVIOUS
<1>1. NewRouter \in Routers /\ NewRouter.pending = <<>> /\ Len(NewRouter.pending) = 0
  BY DEF NewRouter, Routers
<1>2. None \in [Nodes -> [AllMessages -> Nat]] /\ \A n \in Nodes, m \in AllMessages : None[n][m] = 0
  BY DEF None
<1>3. Shapes
  BY <1>1, <1>2, NewMacIsMac DEF Init, Shapes, AllMessages
<1>4. AirMac
  BY DEF Init, AirMac
<1>5. ASSUME NEW n \in Nodes PROVE Once(n)
  BY <1>1, <1>2 DEF Init, Once, InSeen, InPending
<1> QED BY <1>3, <1>4, <1>5 DEF MInv

\* What stays true when one node queues, transmits or ends.
LEMMA MacStep ==
    ASSUME MInv, NEW n \in Nodes, NEW m \in Macs, mac' = [mac EXCEPT ![n] = m],
           UNCHANGED scenario,
           \/ UNCHANGED air /\ (scenario.driver = "mac" /\ air[n] # {} => m.state = "Transmitting")
           \/ m.state = "Transmitting" /\ \E p \in Packets : air' = [air EXCEPT ![n] = {p}]
           \/ air' = [air EXCEPT ![n] = {}]
    PROVE  mac' \in [Nodes -> Macs] /\ air' \in [Nodes -> SUBSET Packets] /\ AirMac'
  BY DEF MInv, Shapes, AirMac

LEMMA SendStep ==
    ASSUME MInv, NEW m \in unsent, Send(m)
    PROVE  MInv'
<1>1. m \in AllMessages /\ m.src \in Nodes
  BY Messages DEF MInv, Shapes
<1>n. PICK n \in Nodes : n = m.src
  BY <1>1
<1>2. PICK x : x = QueueTx(mac[n], OnWire(Packet(m)))
  OBVIOUS
<1>3. mac[n] \in Macs /\ (scenario.driver = "mac" /\ air[n] # {} => mac[n].state = "Transmitting")
  BY DEF MInv, Shapes, AirMac
<1>4. x \in Macs /\ x.state = mac[n].state
  <2>1. PICK p : p = OnWire(Packet(m))
    OBVIOUS
  <2>2. p \in Packets
    BY <1>1, <2>1, PacketIsPacket
  <2> QED BY <1>2, <1>3, <2>1, <2>2, QueueTxKeeps
<1>5. mac' \in [Nodes -> Macs] /\ air' \in [Nodes -> SUBSET Packets] /\ AirMac'
  <2>1. mac' = [mac EXCEPT ![n] = x] /\ UNCHANGED <<scenario, air>>
    BY <1>2, <1>n DEF Send
  <2> QED BY <1>3, <1>4, <2>1, MacStep
<1>6. Shapes'
  BY <1>5 DEF Send, MInv, Shapes
<1>7. \A y \in Nodes : Once(y)'
  BY OnceKept DEF Send, MInv
<1> QED BY <1>5, <1>6, <1>7 DEF MInv

LEMMA QueuedKeeps ==
    ASSUME MInv, NEW n \in Nodes, NEW ready \in BOOLEAN
    PROVE  Queued(n, ready) \in Macs /\ Queued(n, ready).state = mac[n].state
<1>1. mac[n] \in Macs /\ router[n].pending \in Seq(Packets)
  BY DEF MInv, Shapes, Routers
<1>2. CASE ~Forwards(n, ready)
  BY <1>1, <1>2 DEF Queued
<1>3. CASE Forwards(n, ready)
  <2>1. router[n].pending # <<>>
    BY <1>3 DEF Forwards, HandsOut
  <2>2. PICK p : p = OnWire(Head(router[n].pending))
    OBVIOUS
  <2>3. p \in Packets
    <3>1. Head(router[n].pending) \in Packets
      BY <1>1, <2>1, HeadTailProperties
    <3> QED BY <2>2, <3>1, OnWireKeeps
  <2> QED BY <1>1, <1>3, <2>2, <2>3, QueueTxKeeps DEF Queued
<1> QED BY <1>2, <1>3

LEMMA PolledStep ==
    ASSUME MInv, NEW n \in Nodes, NEW ready \in BOOLEAN, PollRouter(n, ready),
           NEW m \in Macs,
           \/ m.queue # <<>> /\ Transmits(n, m)
           \/ KeepsQuiet(n, m) /\ (scenario.driver = "mac" /\ air[n] # {} => m.state = "Transmitting"),
           UNCHANGED <<scenario, unsent, delivered, missed, lapses>>
    PROVE  MInv'
<1>1. mac' \in [Nodes -> Macs] /\ air' \in [Nodes -> SUBSET Packets] /\ AirMac'
  <2>1. CASE m.queue # <<>> /\ Transmits(n, m)
    <3>1. StartTx(m) \in Macs /\ StartTx(m).state = "Transmitting"
      BY <2>1, MacKept
    <3>2. Head(m.queue) \in Packets
      BY <2>1, HeadTailProperties DEF Macs
    <3> QED BY <2>1, <3>1, <3>2, MacStep DEF Transmits
  <2>2. CASE KeepsQuiet(n, m) /\ (scenario.driver = "mac" /\ air[n] # {} => m.state = "Transmitting")
    BY <2>2, MacStep DEF KeepsQuiet
  <2> QED BY <2>1, <2>2
<1>2. /\ router' \in [Nodes -> Routers] /\ forwarded' \in [Nodes -> [AllMessages -> Nat]]
      /\ \A x \in Nodes : Once(x)'
  BY PollOnce
<1> QED BY <1>1, <1>2 DEF MInv, Shapes

\* The MAC layer lets no node start that transmits.
LEMMA ProcessTxStep ==
    ASSUME MInv, NEW n \in Nodes, NEW busy \in BOOLEAN, NEW ready \in BOOLEAN,
           NEW waited \in BOOLEAN, ProcessTx(n, busy, ready, waited)
    PROVE  MInv' /\ (air[n] # {} => air' = air) /\ \A x \in Nodes : x # n => air'[x] = air[x]
<1>1. PICK q : q = Queued(n, ready)
  OBVIOUS
<1>2. q \in Macs /\ q.state = mac[n].state
  BY <1>1, QueuedKeeps
<1>3. PICK d \in CanTransmit(q, busy, waited) :
        IF d.decision = "TransmitNow" /\ d.mac.queue # <<>>
        THEN Transmits(n, d.mac)
        ELSE KeepsQuiet(n, d.mac)
  BY <1>1 DEF ProcessTx
<1>4. /\ d.mac \in Macs
      /\ q.state = "Transmitting" => d.decision = "AlreadyTransmitting" /\ d.mac.state = "Transmitting"
  BY <1>2, CanTransmitKeeps
<1>5. air[n] # {} => q.state = "Transmitting"
  BY <1>2 DEF ProcessTx, MInv, AirMac
<1>6. MInv'
  <2>1. PICK m : m = d.mac
    OBVIOUS
  <2>2. /\ m \in Macs
        /\ \/ m.queue # <<>> /\ Transmits(n, m)
           \/ KeepsQuiet(n, m) /\ (scenario.driver = "mac" /\ air[n] # {} => m.state = "Transmitting")
    BY <1>3, <1>4, <1>5, <2>1
  <2>3. PollRouter(n, ready) /\ UNCHANGED <<scenario, unsent, delivered, missed, lapses>>
    BY DEF ProcessTx
  <2> QED BY <2>2, <2>3, PolledStep
<1>7. air[n] # {} => air' = air
  BY <1>3, <1>4, <1>5 DEF KeepsQuiet
<1>8. \A x \in Nodes : x # n => air'[x] = air[x]
  BY <1>3 DEF Transmits, KeepsQuiet, MInv, Shapes
<1> QED BY <1>6, <1>7, <1>8

LEMMA ForceTxStep ==
    ASSUME MInv, NEW n \in Nodes, NEW ready \in BOOLEAN, ForceTx(n, ready)
    PROVE  MInv' /\ \A x \in Nodes : x # n => air'[x] = air[x]
<1>1. PICK m : m = Queued(n, ready)
  OBVIOUS
<1>2. m \in Macs
  BY <1>1, QueuedKeeps
<1>3. IF m.queue # <<>> THEN Transmits(n, m) ELSE KeepsQuiet(n, m)
  BY <1>1 DEF ForceTx
<1>4. /\ PollRouter(n, ready) /\ UNCHANGED <<scenario, unsent, delivered, missed, lapses>>
      /\ air[n] = {}
  BY DEF ForceTx
<1>5. MInv'
  BY <1>2, <1>3, <1>4, PolledStep
<1>6. \A x \in Nodes : x # n => air'[x] = air[x]
  BY <1>3 DEF Transmits, KeepsQuiet, MInv, Shapes
<1> QED BY <1>5, <1>6

LEMMA EndOfTxStep ==
    ASSUME MInv, NEW n \in Nodes, EndOfTx(n)
    PROVE  MInv' /\ \A x \in Nodes : air'[x] \in {air[x], {}}
<1>1. PICK p \in air[n], R \in SUBSET Hearers(n) :
        /\ Receive(R, p) /\ air' = [air EXCEPT ![n] = {}]
        /\ mac' = IF scenario.driver = "mac" THEN [mac EXCEPT ![n] = TxComplete(@)] ELSE mac
        /\ UNCHANGED <<scenario, unsent, forwarded, refused, lapses>>
  BY DEF EndOfTx
<1>2. p \in Packets /\ R \in SUBSET Nodes
  BY Mutual DEF MInv, Shapes
<1>3. /\ router' \in [Nodes -> Routers] /\ delivered' \in [Nodes -> [AllMessages -> Nat]]
      /\ \A x \in Nodes : Once(x)'
  BY <1>1, <1>2, ReceiveOnce
<1>4. PICK m \in Macs : mac' = [mac EXCEPT ![n] = m]
  <2>1. mac[n] \in Macs /\ TxComplete(mac[n]) \in Macs /\ mac = [mac EXCEPT ![n] = mac[n]]
    BY MacKept DEF MInv, Shapes
  <2> QED BY <1>1, <2>1
<1>5. mac' \in [Nodes -> Macs] /\ air' \in [Nodes -> SUBSET Packets] /\ AirMac'
  BY <1>1, <1>4, MacStep
<1>6. \A x \in Nodes : air'[x] \in {air[x], {}}
  BY <1>1 DEF MInv, Shapes
<1> QED BY <1>1, <1>3, <1>5, <1>6 DEF MInv, Shapes

\* The caches forget while nothing waits to be rebroadcast.
LEMMA LapseStep ==
    ASSUME MInv, Lapse
    PROVE  MInv'
<1>1. ASSUME NEW n \in Nodes PROVE router'[n] \in Routers /\ Once(n)'
  <2>1. router[n] \in Routers /\ router[n].pending = <<>> /\ router'[n] = Expired(router[n])
    BY DEF MInv, Shapes, Lapse
  <2>2. router'[n] \in Routers /\ Len(router'[n].pending) = 0 /\ router'[n].seen = {}
    BY <2>1 DEF Expired, Routers
  <2>3. \A m \in AllMessages : delivered'[n][m] <= lapses' /\ forwarded'[n][m] <= lapses'
    <3>1. Once(n) /\ lapses' = lapses + 1 /\ delivered' = delivered /\ forwarded' = forwarded
      BY DEF MInv, Lapse, countVars
    <3> QED BY <3>1 DEF Once
  <2>4. lapses' \in Nat /\ delivered' \in [Nodes -> [AllMessages -> Nat]]
        /\ forwarded' \in [Nodes -> [AllMessages -> Nat]]
    BY DEF MInv, Shapes, Lapse, countVars
  <2>5. \A m \in AllMessages : delivered'[n][m] <= lapses' + 1 /\ forwarded'[n][m] <= lapses' + 1
    BY <2>3, <2>4
  <2> QED BY <2>2, <2>3, <2>5 DEF Once, InSeen, InPending
<1>2. router' \in [Nodes -> Routers]
  BY <1>1 DEF Lapse
<1> QED BY <1>1, <1>2 DEF MInv, Shapes, AirMac, Lapse, countVars

LEMMA WindowStep ==
    ASSUME MInv, NEW n \in Nodes, WindowMoves(n)
    PROVE  MInv'
<1>1. mac[n] \in Macs /\ (scenario.driver = "mac" /\ air[n] # {} => mac[n].state = "Transmitting")
  BY DEF MInv, Shapes, AirMac
<1>2. PICK m : m = Pruned(mac[n])
  OBVIOUS
<1>3. m \in Macs /\ m.state = mac[n].state
  BY <1>1, <1>2, MacKept
<1>4. mac' = [mac EXCEPT ![n] = m] /\ UNCHANGED <<scenario, router, air, unsent, countVars, lapses>>
  BY <1>2 DEF WindowMoves
<1>5. mac' \in [Nodes -> Macs] /\ air' \in [Nodes -> SUBSET Packets] /\ AirMac'
  BY <1>1, <1>3, <1>4, MacStep
<1>6. \A x \in Nodes : Once(x)'
  BY <1>4, OnceKept DEF MInv, countVars
<1> QED BY <1>4, <1>5, <1>6 DEF MInv, Shapes, countVars

LEMMA NextMInv ==
    ASSUME MInv, [Next]_vars
    PROVE  /\ MInv'
           /\ \A x \in Nodes : air[x] # {} => air'[x] \in {air[x], {}}
<1>0. Members \subseteq Nodes
  BY Mutual DEF MInv, Shapes
<1>1. CASE \E m \in unsent : Send(m)
  BY <1>1, SendStep DEF Send
<1>2. CASE \E n \in Members, ready \in BOOLEAN, busy \in BOOLEAN, waited \in BOOLEAN :
              ProcessTx(n, busy, ready, waited)
  BY <1>0, <1>2, ProcessTxStep
<1>3. CASE \E n \in Members, ready \in BOOLEAN : ForceTx(n, ready)
  <2>1. PICK n \in Nodes, ready \in BOOLEAN : ForceTx(n, ready)
    BY <1>0, <1>3
  <2>2. air[n] = {}
    BY <2>1 DEF ForceTx
  <2> QED BY <2>1, <2>2, ForceTxStep
<1>4. CASE \E n \in Members : EndOfTx(n)
  BY <1>0, <1>4, EndOfTxStep
<1>5. CASE \E n \in Members : WindowMoves(n)
  BY <1>0, <1>5, WindowStep DEF WindowMoves
<1>6. CASE Lapse
  BY <1>6, LapseStep DEF Lapse
<1>7. CASE UNCHANGED vars
  <2>1. \A x \in Nodes : Once(x)'
    BY <1>7, OnceKept DEF MInv, vars, nodeVars, countVars
  <2> QED BY <1>7, <2>1 DEF MInv, Shapes, AirMac, vars, nodeVars, countVars
<1> QED BY <1>1, <1>2, <1>3, <1>4, <1>5, <1>6, <1>7 DEF Next

-----------------------------------------------------------------------------
(* Induction over the hops; the library's theorems take the property as an  *)
(* operator, here it is a set of numbers.                                   *)

\* A set of numbers that has a member has a smallest one.
LEMMA SmallestMember ==
    ASSUME NEW T \in SUBSET Nat, T # {}
    PROVE  \E x \in T : \A y \in T : ~(y < x)
<1>1. \E x \in T : \A y \in T : <<y, x>> \notin OpToRel(<, Nat)
  BY NatLessThanWellFounded, WFMin, Zenon
<1>2. \A x, y \in T : y < x => <<y, x>> \in OpToRel(<, Nat)
  BY Zenon DEF OpToRel
<1> QED BY <1>1, <1>2, Zenon

\* Induction, with the property as the set of numbers that have it.
LEMMA SetInduction ==
    ASSUME NEW T \in SUBSET Nat, 0 \in T, \A i \in T : i + 1 \in T
    PROVE  T = Nat
<1> SUFFICES ASSUME Nat \ T # {} PROVE FALSE
  OBVIOUS
<1>1. PICK x \in Nat \ T : \A y \in Nat \ T : ~(y < x)
  BY SmallestMember
<1>2. x - 1 \in T
  BY <1>1
<1> QED BY <1>1, <1>2

\* f is built from start by the steps.
Built(f, S, n, start, step) ==
    f \in [0..n -> S] /\ f[0] = start /\ \A i \in 1..n : f[i] = step[i][f[i - 1]]

\* A function that is defined from one number to the value exists.
LEMMA FiniteRecursion ==
    ASSUME NEW S, NEW n \in Nat, NEW start \in S, NEW step \in [1..n -> [S -> S]]
    PROVE  \E f : Built(f, S, n, start, step)
<1> DEFINE T == {k \in Nat : k <= n => \E f : Built(f, S, k, start, step)}
<1>1. 0 \in T
  <2>1. Built([i \in 0..0 |-> start], S, 0, start, step)
    BY DEF Built
  <2> QED BY <2>1
<1>2. ASSUME NEW k \in T PROVE k + 1 \in T
  <2> SUFFICES ASSUME k + 1 <= n PROVE \E f : Built(f, S, k + 1, start, step)
    OBVIOUS
  <2>1. PICK f : Built(f, S, k, start, step)
    OBVIOUS
  <2>2. PICK value \in S : value = step[k + 1][f[k]]
    BY <2>1 DEF Built
  <2> DEFINE g == [i \in 0..(k + 1) |-> IF i <= k THEN f[i] ELSE value]
  <2>3. g \in [0..(k + 1) -> S] /\ g[0] = start
    BY <2>1 DEF Built
  <2>4. ASSUME NEW i \in 1..(k + 1) PROVE g[i] = step[i][g[i - 1]]
    <3>1. CASE i <= k
      BY <2>1, <3>1 DEF Built
    <3>2. CASE i = k + 1
      BY <2>1, <2>2, <3>2
    <3> QED BY <3>1, <3>2
  <2>5. Built(g, S, k + 1, start, step)
    BY <2>3, <2>4 DEF Built
  <2> QED BY <2>5
<1>3. T = Nat
  <2> HIDE DEF T
  <2>1. T \in SUBSET Nat
    BY DEF T
  <2> QED BY <1>1, <1>2, <2>1, SetInduction
<1> QED BY <1>3

-----------------------------------------------------------------------------
(* How far it is from a node *)

LEMMA SpreadType ==
    ASSUME NEW links \in SUBSET (Nodes \X Nodes), NEW s \in SUBSET Nodes
    PROVE  Spread(links, s) \in SUBSET Nodes
  BY DEF Spread

\* What the recursive definition of Balls says.
Hops(f, links, src, k) ==
    f[0] = {src} /\ \A i \in 1..k : f[i] = Spread(links, f[i - 1])

LEMMA BallsFacts ==
    ASSUME NEW links \in SUBSET (Nodes \X Nodes), NEW src \in Nodes, NEW k \in Nat
    PROVE  Hops(Balls(links, src, k), links, src, k)
<1> DEFINE Equation(f) == f = [i \in 0..k |-> IF i = 0 THEN {src} ELSE Spread(links, f[i - 1])]
<1>1. PICK step : step = [i \in 1..k |-> [s \in SUBSET Nodes |-> Spread(links, s)]]
  OBVIOUS
<1>2. step \in [1..k -> [SUBSET Nodes -> SUBSET Nodes]] /\ {src} \in SUBSET Nodes
  BY <1>1, SpreadType
<1>3. PICK f : Built(f, SUBSET Nodes, k, {src}, step)
  BY <1>2, FiniteRecursion
<1>4. Equation(f)
  <2>1. ASSUME NEW i \in 1..k
        PROVE  f[i] = Spread(links, f[i - 1])
    <3>1. f[i - 1] \in SUBSET Nodes /\ f[i] = step[i][f[i - 1]]
      BY <1>3 DEF Built
    <3> QED BY <1>1, <3>1
  <2>2. f = [i \in 0..k |-> f[i]] /\ f[0] = {src}
    BY <1>3 DEF Built
  <2>3. ASSUME NEW i \in 0..k PROVE f[i] = IF i = 0 THEN {src} ELSE Spread(links, f[i - 1])
    <3>1. CASE i = 0
      BY <2>2, <3>1
    <3>2. CASE i # 0
      <4>1. i \in 1..k
        BY <3>2
      <4> QED BY <2>1, <3>2, <4>1
    <3> QED BY <3>1, <3>2
  <2> QED BY <2>2, <2>3, Zenon
<1>5. Equation(Balls(links, src, k))
  BY <1>4 DEF Balls
<1>6. PICK a : a = Balls(links, src, k) /\ Equation(a)
  BY <1>5
<1>7. a[0] = {src}
  BY <1>6
<1>8. ASSUME NEW i \in 1..k PROVE a[i] = Spread(links, a[i - 1])
  <2>1. i \in 0..k /\ i # 0
    OBVIOUS
  <2> QED BY <1>6, <2>1
<1> QED BY <1>6, <1>7, <1>8 DEF Hops

\* The first hops are the same, however many there are.
LEMMA HopsAgree ==
    ASSUME NEW links, NEW src, NEW k \in Nat, NEW f, NEW g,
           Hops(f, links, src, k), Hops(g, links, src, k + 1)
    PROVE  f[k] = g[k]
<1> DEFINE T == {i \in Nat : i <= k => f[i] = g[i]}
<1>1. 0 \in T
  BY DEF Hops
<1>2. ASSUME NEW i \in T PROVE i + 1 \in T
  <2> SUFFICES ASSUME i + 1 <= k PROVE f[i + 1] = g[i + 1]
    OBVIOUS
  <2>1. i \in Nat /\ i + 1 \in 1..k /\ i + 1 \in 1..(k + 1) /\ (i + 1) - 1 = i /\ f[i] = g[i]
    OBVIOUS
  <2>2. f[i + 1] = Spread(links, f[i]) /\ g[i + 1] = Spread(links, g[i])
    BY <2>1 DEF Hops
  <2> QED BY <2>1, <2>2
<1>3. T = Nat
  <2> HIDE DEF T
  <2>1. T \in SUBSET Nat
    BY DEF T
  <2> QED BY <1>1, <1>2, <2>1, SetInduction
<1> QED BY <1>3

LEMMA WithinFacts ==
    ASSUME NEW links \in SUBSET (Nodes \X Nodes), NEW src \in Nodes
    PROVE  /\ src \in Within(links, src, 0)
           /\ \A k \in Nat : Within(links, src, k + 1) = Spread(links, Within(links, src, k))
<1>1. src \in Within(links, src, 0)
  BY BallsFacts DEF Within, Hops
<1>2. ASSUME NEW k \in Nat
      PROVE  Within(links, src, k + 1) = Spread(links, Within(links, src, k))
  <2>1. PICK j \in Nat : j = k + 1
    OBVIOUS
  <2>2. Hops(Balls(links, src, k), links, src, k) /\ Hops(Balls(links, src, j), links, src, j)
    BY BallsFacts
  <2>3. Balls(links, src, k)[k] = Balls(links, src, j)[k]
    BY <2>1, <2>2, HopsAgree
  <2>4. Balls(links, src, j)[j] = Spread(links, Balls(links, src, j)[k])
    BY <2>1, <2>2 DEF Hops
  <2> QED BY <2>1, <2>3, <2>4 DEF Within
<1> QED BY <1>1, <1>2

\* A node is not farther away than it is.
LEMMA WithinMore ==
    ASSUME NEW links \in SUBSET (Nodes \X Nodes), NEW src \in Nodes, NEW k \in Nat, NEW j \in Nat
    PROVE  Within(links, src, k) \subseteq Within(links, src, k + j)
<1> DEFINE T == {i \in Nat : Within(links, src, k) \subseteq Within(links, src, k + i)}
<1>1. 0 \in T
  OBVIOUS
<1>2. ASSUME NEW i \in T PROVE i + 1 \in T
  <2>1. PICK l \in Nat : l = k + i
    OBVIOUS
  <2>2. Within(links, src, l) \subseteq Within(links, src, l + 1)
    <3>1. Within(links, src, l + 1) = Spread(links, Within(links, src, l))
      BY WithinFacts
    <3> QED BY <3>1 DEF Spread
  <2>3. l + 1 = k + (i + 1)
    BY <2>1
  <2> QED BY <2>1, <2>2, <2>3
<1>3. T = Nat
  <2> HIDE DEF T
  <2>1. T \in SUBSET Nat
    BY DEF T
  <2> QED BY <1>1, <1>2, <2>1, SetInduction
<1> QED BY <1>3

-----------------------------------------------------------------------------
(* Where a packet may be, and what else keeps its shape *)

\* The packets that may be at x: as many hops away as they have lost.
FitsIn(links, x) ==
    {p \in Packets :
        /\ p.dest = p.msg.dest /\ p.hop \in 0..MinHop(p.msg)
        /\ x \in Within(links, p.msg.src, MinHop(p.msg) - p.hop)}

\* A back-off was counted when it has started, and never twice.
MacGood(S, m) ==
    /\ m.queue \in Seq(S) /\ Len(m.queue) <= QueueLimit
    /\ m.slots \in 0..Slots /\ m.airtime \in Nat
    /\ m.attempts = IF m.started THEN 1 ELSE 0

AirGood(S, a) == a = {} \/ \E p \in S : a = {p}

NodeGood(S, n) ==
    /\ MacGood(S, mac[n])
    /\ router[n].pending \in Seq(S)
    /\ AirGood(S, air[n])

DeliveredGood(links, n) ==
    \A m \in AllMessages :
        delivered[n][m] > 0 =>
            n \in Within(links, m.src, MinHop(m) + 1) /\ m.dest \in {"all", n}

RInv ==
    /\ unsent \subseteq scenario.messages
    /\ missed \in Nat /\ refused \in Nat /\ lapses \in 0..MaxLapses
    /\ \A n \in Nodes :
          NodeGood(FitsIn(scenario.links, n), n) /\ DeliveredGood(scenario.links, n)

LEMMA MinHopType ==
    ASSUME NEW m \in AllMessages
    PROVE  MinHop(m) \in Nat /\ MinHop(m) <= m.hop /\ MinHop(m) <= MaxHop
  BY Messages, MeshAssumption DEF MinHop

LEMMA FitsAreLinks ==
    ASSUME scenario \in Scenarios
    PROVE  scenario.links \in SUBSET (Nodes \X Nodes)
  BY MeshAssumption

\* The packets of a message start at its source.
LEMMA PacketFits ==
    ASSUME NEW links \in SUBSET (Nodes \X Nodes), NEW m \in AllMessages
    PROVE  OnWire(Packet(m)) \in FitsIn(links, m.src)
<1>1. PICK p : p = OnWire(Packet(m))
  OBVIOUS
<1>2. p \in Packets
  BY <1>1, PacketIsPacket
<1>3. p.msg = m /\ p.dest = m.dest /\ p.hop = MinHop(m)
  BY <1>1, Messages DEF OnWire, Packet, MinHop
<1>4. MinHop(m) \in Nat /\ m.src \in Nodes
  BY MinHopType, Messages
<1>5. m.src \in Within(links, m.src, 0) /\ MinHop(m) - p.hop = 0 /\ p.hop \in 0..MinHop(m)
  BY <1>3, <1>4, WithinFacts
<1> QED BY <1>1, <1>2, <1>3, <1>5 DEF FitsIn

\* What waits fits on the wire.
LEMMA OnWireSame ==
    ASSUME NEW links, NEW x, NEW p \in FitsIn(links, x)
    PROVE  OnWire(p) = p
<1>1. p \in Packets /\ p.hop \in 0..MinHop(p.msg) /\ p.msg \in AllMessages
  BY DEF FitsIn, Packets
<1>2. MinHop(p.msg) \in Nat /\ MinHop(p.msg) <= MaxHop
  BY <1>1, MinHopType
<1>3. ~(p.hop > MaxHop)
  BY <1>1, <1>2, MeshAssumption
<1> QED BY <1>3 DEF OnWire

\* Over one link a packet gets one hop farther, and loses one if it goes on.
LEMMA OneHop ==
    ASSUME NEW links \in SUBSET (Nodes \X Nodes), NEW n, NEW x,
           <<n, x>> \in links, NEW p \in FitsIn(links, n)
    PROVE  /\ p.hop > 0 => OneHopLess(p) \in FitsIn(links, x)
           /\ x \in Within(links, p.msg.src, MinHop(p.msg) + 1)
<1>1. /\ p \in Packets /\ p.msg \in AllMessages /\ p.dest = p.msg.dest /\ p.hop \in 0..MinHop(p.msg)
      /\ n \in Within(links, p.msg.src, MinHop(p.msg) - p.hop)
  BY DEF FitsIn, Packets
<1>2. PICK src \in Nodes, far \in Nat, hop \in Nat :
        src = p.msg.src /\ far = MinHop(p.msg) /\ hop = p.hop /\ hop <= far
  BY <1>1, MinHopType, Messages
<1>3. PICK k \in Nat : k = far - hop
  BY <1>2
<1>4. x \in Within(links, src, k + 1)
  <2>1. Within(links, src, k + 1) = Spread(links, Within(links, src, k))
    BY WithinFacts
  <2>2. n \in Within(links, src, k)
    BY <1>1, <1>2, <1>3
  <2> QED BY <2>1, <2>2 DEF Spread
<1>5. x \in Within(links, src, far + 1)
  <2>1. Within(links, src, k + 1) \subseteq Within(links, src, (k + 1) + hop)
    BY WithinMore
  <2>2. (k + 1) + hop = far + 1
    BY <1>2, <1>3
  <2> QED BY <1>4, <2>1, <2>2
<1>6. ASSUME p.hop > 0 PROVE OneHopLess(p) \in FitsIn(links, x)
  <2>1. PICK q : q = OneHopLess(p)
    OBVIOUS
  <2>2. /\ q \in Packets /\ q.msg = p.msg /\ q.dest = p.dest /\ q.hop = hop - 1
    BY <1>1, <1>2, <1>6, <2>1 DEF OneHopLess, Packets
  <2>3. far - q.hop = k + 1 /\ q.hop \in 0..far
    BY <1>2, <1>3, <1>6, <2>2
  <2> QED BY <1>1, <1>2, <1>4, <2>1, <2>2, <2>3 DEF FitsIn
<1> QED BY <1>2, <1>5, <1>6

LEMMA QueueTxGood ==
    ASSUME NEW S \in SUBSET Packets, NEW m \in Macs, NEW p \in S, MacGood(S, m)
    PROVE  MacGood(S, QueueTx(m, p))
<1>1. CASE ~HasRoom(m)
  BY <1>1 DEF QueueTx
<1>2. CASE HasRoom(m)
  <2>1. PICK x : x = QueueTx(m, p)
    OBVIOUS
  <2>2. /\ x.queue = Append(m.queue, p) /\ x.slots = m.slots /\ x.airtime = m.airtime
        /\ x.attempts = m.attempts /\ x.started = m.started
    BY <1>2, <2>1 DEF QueueTx, Macs
  <2>3. m.queue \in Seq(S) /\ Len(m.queue) < QueueLimit
    BY <1>2 DEF MacGood, HasRoom
  <2>4. x.queue \in Seq(S) /\ Len(x.queue) <= QueueLimit
    BY <2>2, <2>3, AppendProperties, MacAssumption
  <2> QED BY <2>1, <2>2, <2>4 DEF MacGood
<1> QED BY <1>1, <1>2

LEMMA BackoffResetGood ==
    ASSUME NEW S \in SUBSET Packets, NEW m \in Macs, MacGood(S, m)
    PROVE  MacGood(S, BackoffReset(m))
<1>1. PICK x : x = BackoffReset(m)
  OBVIOUS
<1>2. /\ x.queue = m.queue /\ x.slots = 0 /\ x.airtime = m.airtime
      /\ x.attempts = 0 /\ x.started = FALSE
  BY <1>1 DEF BackoffReset, Macs
<1> QED BY <1>1, <1>2, MacAssumption DEF MacGood

\* The first packet goes on the air.
LEMMA StartTxGood ==
    ASSUME NEW S \in SUBSET Packets, NEW m \in Macs, MacGood(S, m), m.queue # <<>>
    PROVE  MacGood(S, StartTx(m)) /\ Head(m.queue) \in S
<1>1. PICK x : x = BackoffReset(m)
  OBVIOUS
<1>2. MacGood(S, x) /\ x \in Macs /\ x.queue = m.queue
  BY <1>1, BackoffResetGood, BackoffResetKeeps
<1>3. PICK y : y = StartTx(m)
  OBVIOUS
<1>4. /\ y.queue = Tail(m.queue) /\ y.slots = x.slots /\ y.airtime = x.airtime
      /\ y.attempts = x.attempts /\ y.started = x.started
  BY <1>1, <1>2, <1>3 DEF StartTx, Macs
<1>5. Tail(m.queue) \in Seq(S) /\ Len(Tail(m.queue)) = Len(m.queue) - 1 /\ Head(m.queue) \in S
  BY HeadTailProperties DEF MacGood
<1>6. Len(y.queue) <= QueueLimit
  <2>1. m.queue \in Seq(S) /\ Len(m.queue) \in Nat /\ Len(m.queue) <= QueueLimit
    BY DEF MacGood
  <2> QED BY <1>4, <1>5, <2>1, MacAssumption
<1> QED BY <1>2, <1>3, <1>4, <1>5, <1>6 DEF MacGood

LEMMA AirtimeGood ==
    ASSUME NEW S \in SUBSET Packets, NEW m \in Macs, MacGood(S, m)
    PROVE  /\ MacGood(S, TxComplete(m))
           /\ m.airtime > 0 => MacGood(S, Pruned(m))
<1>1. MacGood(S, TxComplete(m))
  <2>1. PICK x : x = TxComplete(m)
    OBVIOUS
  <2>2. /\ x.queue = m.queue /\ x.slots = m.slots /\ x.airtime = m.airtime + 1
        /\ x.attempts = m.attempts /\ x.started = m.started
    BY <2>1 DEF TxComplete, Macs
  <2> QED BY <2>1, <2>2 DEF MacGood
<1>2. ASSUME m.airtime > 0 PROVE MacGood(S, Pruned(m))
  <2>1. PICK x : x = Pruned(m)
    OBVIOUS
  <2>2. /\ x.queue = m.queue /\ x.slots = m.slots /\ x.airtime = m.airtime - 1
        /\ x.attempts = m.attempts /\ x.started = m.started
    BY <2>1 DEF Pruned, Macs
  <2> QED BY <1>2, <2>1, <2>2 DEF MacGood
<1> QED BY <1>1, <1>2

\* A decision starts a back-off, lets it run or ends it.
LEMMA CanTransmitGood ==
    ASSUME NEW S \in SUBSET Packets, NEW m \in Macs, MacGood(S, m),
           NEW busy \in BOOLEAN, NEW waited \in BOOLEAN,
           NEW d \in CanTransmit(m, busy, waited)
    PROVE  MacGood(S, d.mac)
<1>1. PICK s : s = Sensed(m, busy)
  OBVIOUS
<1>2. s \in Macs /\ MacGood(S, s)
  <2>1. s = m \/ s = [m EXCEPT !.state = "Busy"]
    BY <1>1 DEF Sensed
  <2>2. [m EXCEPT !.state = "Busy"] \in Macs /\ MacGood(S, [m EXCEPT !.state = "Busy"])
    BY DEF Macs, MacStates, MacGood
  <2> QED BY <2>1, <2>2
<1>3. ASSUME NEW x, NEW choice PROVE Decision(x, choice).mac = x
  BY DEF Decision
<1>4. CASE s.state = "Idle" /\ d = WhenIdle(s, waited)
  <2>1. d.mac = s
    BY <1>2, <1>3, <1>4 DEF WhenIdle
  <2> QED BY <1>2, <2>1
<1>5. CASE s.state = "Busy" /\ d \in WhenBusy(s)
  <2>1. CASE s.started
    <3>1. d.mac = s
      BY <1>3, <1>5, <2>1 DEF WhenBusy
    <3> QED BY <1>2, <3>1
  <2>2. CASE ~s.started
    <3>1. PICK k \in 0..Slots :
            d = Decision([s EXCEPT !.state = "Backoff", !.started = TRUE, !.slots = k, !.attempts = @ + 1], "Backoff")
      BY <1>5, <2>2 DEF WhenBusy
    <3>2. PICK x : x = d.mac
      OBVIOUS
    <3>3. x = [s EXCEPT !.state = "Backoff", !.started = TRUE, !.slots = k, !.attempts = @ + 1]
      BY <1>3, <3>1, <3>2
    <3>4. /\ x.queue = s.queue /\ x.slots = k /\ x.airtime = s.airtime
          /\ x.attempts = s.attempts + 1 /\ x.started = TRUE
      BY <1>2, <3>3 DEF Macs
    <3>5. s.attempts = 0
      BY <1>2, <2>2 DEF MacGood
    <3> QED BY <1>2, <3>2, <3>4, <3>5 DEF MacGood
  <2> QED BY <2>1, <2>2
<1>6. CASE s.state = "Backoff" /\ d \in WhenBackoff(s, waited)
  <2>1. CASE d = BackoffOver(s)
    <3>1. MacGood(S, BackoffReset(s))
      BY <1>2, BackoffResetGood
    <3>2. MacGood(S, [s EXCEPT !.state = "Idle"])
      BY <1>2 DEF Macs, MacGood
    <3>3. d.mac = BackoffReset(s) \/ d.mac = [s EXCEPT !.state = "Idle"]
      BY <1>3, <2>1 DEF BackoffOver
    <3> QED BY <3>1, <3>2, <3>3
  <2>2. ASSUME NEW k \in 1..s.slots, d = Decision([s EXCEPT !.slots = k], "Backoff")
        PROVE  MacGood(S, d.mac)
    <3>1. PICK x : x = d.mac
      OBVIOUS
    <3>2. x = [s EXCEPT !.slots = k]
      BY <1>3, <2>2, <3>1
    <3>3. /\ x.queue = s.queue /\ x.slots = k /\ x.airtime = s.airtime
          /\ x.attempts = s.attempts /\ x.started = s.started
      BY <1>2, <3>2 DEF Macs
    <3>4. k \in 0..Slots
      BY <1>2, MacAssumption DEF MacGood
    <3> QED BY <1>2, <3>1, <3>3, <3>4 DEF MacGood
  <2> QED BY <1>6, <2>1, <2>2 DEF WhenBackoff
<1>7. CASE s.state = "Transmitting" /\ d = Decision(s, "AlreadyTransmitting")
  BY <1>2, <1>3, <1>7
<1>8. s.state \in {"Idle", "Busy", "Backoff", "Transmitting"}
  BY <1>2 DEF Macs, MacStates
<1> QED BY <1>1, <1>4, <1>5, <1>6, <1>7, <1>8 DEF CanTransmit

LEMMA InitRInv == Init => RInv
<1> SUFFICES ASSUME Init PROVE RInv
  OBVIOUS
<1>1. \A n \in Nodes : \A m \in AllMessages : delivered[n][m] = 0
  BY DEF Init, None
<1>2. ASSUME NEW S PROVE MacGood(S, NewMac) /\ NewRouter.pending \in Seq(S) /\ AirGood(S, {})
  BY MacAssumption DEF MacGood, NewMac, NewRouter, AirGood
<1>3. \A n \in Nodes : NodeGood(FitsIn(scenario.links, n), n) /\ DeliveredGood(scenario.links, n)
  BY <1>1, <1>2 DEF Init, NodeGood, DeliveredGood
<1>4. missed \in Nat /\ refused \in Nat /\ lapses \in 0..MaxLapses /\ unsent \subseteq scenario.messages
  BY MeshAssumption DEF Init
<1> QED BY <1>3, <1>4 DEF RInv

\* A node of which nothing changed is as good as it was.
LEMMA NodeSame ==
    ASSUME RInv, NEW n \in Nodes, UNCHANGED scenario,
           mac'[n] = mac[n], router'[n].pending = router[n].pending, air'[n] = air[n]
    PROVE  NodeGood(FitsIn(scenario.links, n), n)'
  BY DEF RInv, NodeGood

LEMMA DeliveredSame ==
    ASSUME RInv, NEW n \in Nodes, UNCHANGED scenario, delivered'[n] = delivered[n]
    PROVE  DeliveredGood(scenario.links, n)'
  BY DEF RInv, DeliveredGood

LEMMA SendR ==
    ASSUME MInv, RInv, NEW m \in unsent, Send(m)
    PROVE  RInv'
<1>1. m \in AllMessages /\ m.src \in Nodes /\ scenario.links \in SUBSET (Nodes \X Nodes)
  BY Messages, FitsAreLinks DEF MInv, Shapes
<1>2. PICK n \in Nodes : n = m.src
  BY <1>1
<1>3. PICK S \in SUBSET Packets : S = FitsIn(scenario.links, n)
  BY DEF FitsIn
<1>4. PICK p \in S : p = OnWire(Packet(m))
  BY <1>1, <1>2, <1>3, PacketFits
<1>5. mac[n] \in Macs /\ MacGood(S, mac[n])
  BY <1>3 DEF MInv, Shapes, RInv, NodeGood
<1>6. MacGood(S, QueueTx(mac[n], p))
  BY <1>5, QueueTxGood
<1>7. mac' = [mac EXCEPT ![n] = QueueTx(mac[n], p)] /\ mac \in [Nodes -> Macs]
  BY <1>2, <1>4 DEF Send, MInv, Shapes
<1>8. UNCHANGED <<scenario, router, air, delivered, missed, lapses>>
  BY DEF Send
<1>9. ASSUME NEW x \in Nodes
      PROVE  NodeGood(FitsIn(scenario.links, x), x)' /\ DeliveredGood(scenario.links, x)'
  <2>1. CASE x # n
    BY <1>7, <1>8, <2>1, NodeSame, DeliveredSame
  <2>2. CASE x = n
    <3>1. MacGood(S, mac'[n])
      BY <1>6, <1>7
    <3>2. router[n].pending \in Seq(S) /\ AirGood(S, air[n])
      BY <1>3 DEF RInv, NodeGood
    <3> QED BY <1>3, <1>8, <2>2, <3>1, <3>2, DeliveredSame DEF NodeGood
  <2> QED BY <2>1, <2>2
<1>10. unsent' \subseteq scenario'.messages /\ refused' \in Nat
  BY DEF Send, RInv
<1> QED BY <1>8, <1>9, <1>10 DEF RInv

\* What leaves the router goes into the queue of the MAC layer.
LEMMA QueuedGood ==
    ASSUME MInv, RInv, NEW n \in Nodes, NEW ready \in BOOLEAN
    PROVE  MacGood(FitsIn(scenario.links, n), Queued(n, ready))
<1>1. PICK S \in SUBSET Packets : S = FitsIn(scenario.links, n)
  BY DEF FitsIn
<1>2. mac[n] \in Macs /\ MacGood(S, mac[n]) /\ router[n].pending \in Seq(S)
  BY <1>1 DEF MInv, Shapes, RInv, NodeGood
<1>3. CASE ~Forwards(n, ready)
  BY <1>1, <1>2, <1>3 DEF Queued
<1>4. CASE Forwards(n, ready)
  <2>1. router[n].pending # <<>>
    BY <1>4 DEF Forwards, HandsOut
  <2>2. PICK p \in S : p = Head(router[n].pending)
    BY <1>2, <2>1, HeadTailProperties
  <2>3. OnWire(p) = p
    BY <1>1, <2>2, OnWireSame
  <2>4. MacGood(S, QueueTx(mac[n], p))
    BY <1>2, QueueTxGood
  <2> QED BY <1>1, <1>4, <2>2, <2>3, <2>4 DEF Queued
<1> QED BY <1>3, <1>4

LEMMA PollGood ==
    ASSUME MInv, RInv, NEW n \in Nodes, NEW ready \in BOOLEAN, PollRouter(n, ready)
    PROVE  /\ router'[n].pending \in Seq(FitsIn(scenario.links, n))
           /\ \A x \in Nodes : x # n => router'[x] = router[x]
           /\ refused' \in Nat
<1>1. refused' \in Nat
  BY DEF PollRouter, RInv
<1>2. PICK S \in SUBSET Packets : S = FitsIn(scenario.links, n)
  BY DEF FitsIn
<1>3. router[n].pending \in Seq(S) /\ router \in [Nodes -> Routers]
  BY <1>2 DEF RInv, NodeGood, MInv, Shapes
<1>4. CASE ~HandsOut(n, ready)
  BY <1>1, <1>2, <1>3, <1>4 DEF PollRouter
<1>5. CASE HandsOut(n, ready)
  <2>1. Tail(router[n].pending) \in Seq(S)
    BY <1>3, <1>5, HeadTailProperties DEF HandsOut
  <2>2. PopPending(router[n]).pending = Tail(router[n].pending)
    BY <1>3 DEF PopPending, Routers
  <2>3. router' = [router EXCEPT ![n] = PopPending(router[n])]
    BY <1>5 DEF PollRouter
  <2>4. router'[n] = PopPending(router[n]) /\ \A x \in Nodes : x # n => router'[x] = router[x]
    BY <1>3, <2>3
  <2> QED BY <1>1, <1>2, <2>1, <2>2, <2>4
<1> QED BY <1>4, <1>5

\* A node sends the first packet of a good queue, or keeps it.
LEMMA PolledR ==
    ASSUME MInv, RInv, NEW n \in Nodes, NEW ready \in BOOLEAN, PollRouter(n, ready),
           NEW m \in Macs, MacGood(FitsIn(scenario.links, n), m),
           \/ m.queue # <<>> /\ Transmits(n, m)
           \/ KeepsQuiet(n, m),
           UNCHANGED <<scenario, unsent, delivered, missed, lapses>>
    PROVE  RInv'
<1>1. PICK S \in SUBSET Packets : S = FitsIn(scenario.links, n)
  BY DEF FitsIn
<1>2. MacGood(S, m) /\ AirGood(S, air[n]) /\ mac \in [Nodes -> Macs] /\ air \in [Nodes -> SUBSET Packets]
  BY <1>1 DEF RInv, NodeGood, MInv, Shapes
<1>3. /\ router'[n].pending \in Seq(S) /\ refused' \in Nat
      /\ \A x \in Nodes : x # n => router'[x] = router[x]
  BY <1>1, PollGood
<1>4. /\ MacGood(S, mac'[n]) /\ AirGood(S, air'[n])
      /\ \A x \in Nodes : x # n => mac'[x] = mac[x] /\ air'[x] = air[x]
  <2>1. CASE m.queue # <<>> /\ Transmits(n, m)
    <3>1. MacGood(S, StartTx(m)) /\ Head(m.queue) \in S
      BY <1>2, <2>1, StartTxGood
    <3>2. mac' = [mac EXCEPT ![n] = StartTx(m)] /\ air' = [air EXCEPT ![n] = {Head(m.queue)}]
      BY <2>1 DEF Transmits
    <3> QED BY <1>2, <3>1, <3>2 DEF AirGood
  <2>2. CASE KeepsQuiet(n, m)
    BY <1>2, <2>2 DEF KeepsQuiet
  <2> QED BY <2>1, <2>2
<1>5. ASSUME NEW x \in Nodes
      PROVE  NodeGood(FitsIn(scenario.links, x), x)' /\ DeliveredGood(scenario.links, x)'
  <2>1. CASE x # n
    BY <1>3, <1>4, <2>1, NodeSame, DeliveredSame
  <2>2. CASE x = n
    BY <1>1, <1>3, <1>4, <2>2, DeliveredSame DEF NodeGood
  <2> QED BY <2>1, <2>2
<1> QED BY <1>3, <1>5 DEF RInv

LEMMA ProcessTxR ==
    ASSUME MInv, RInv, NEW n \in Nodes, NEW busy \in BOOLEAN, NEW ready \in BOOLEAN,
           NEW waited \in BOOLEAN, ProcessTx(n, busy, ready, waited)
    PROVE  RInv'
<1>1. PICK S \in SUBSET Packets : S = FitsIn(scenario.links, n)
  BY DEF FitsIn
<1>2. PICK q \in Macs : q = Queued(n, ready)
  BY QueuedKeeps
<1>3. MacGood(S, q)
  BY <1>1, <1>2, QueuedGood
<1>4. PICK d \in CanTransmit(q, busy, waited) :
        IF d.decision = "TransmitNow" /\ d.mac.queue # <<>>
        THEN Transmits(n, d.mac)
        ELSE KeepsQuiet(n, d.mac)
  BY <1>2 DEF ProcessTx
<1>5. PICK m \in Macs : m = d.mac
  BY <1>4, CanTransmitKeeps
<1>6. MacGood(S, m)
  BY <1>3, <1>4, <1>5, CanTransmitGood
<1>7. (m.queue # <<>> /\ Transmits(n, m)) \/ KeepsQuiet(n, m)
  BY <1>4, <1>5
<1>8. PollRouter(n, ready) /\ UNCHANGED <<scenario, unsent, delivered, missed, lapses>>
  BY DEF ProcessTx
<1> QED BY <1>1, <1>6, <1>7, <1>8, PolledR

LEMMA ForceTxR ==
    ASSUME MInv, RInv, NEW n \in Nodes, NEW ready \in BOOLEAN, ForceTx(n, ready)
    PROVE  RInv'
<1>1. PICK m \in Macs : m = Queued(n, ready)
  BY QueuedKeeps
<1>2. MacGood(FitsIn(scenario.links, n), m)
  BY <1>1, QueuedGood
<1>3. (m.queue # <<>> /\ Transmits(n, m)) \/ KeepsQuiet(n, m)
  BY <1>1 DEF ForceTx
<1>4. PollRouter(n, ready) /\ UNCHANGED <<scenario, unsent, delivered, missed, lapses>>
  BY DEF ForceTx
<1> QED BY <1>2, <1>3, <1>4, PolledR

\* Who hears a packet is one hop farther away than who sent it.
LEMMA ReceiveR ==
    ASSUME MInv, RInv, NEW n \in Nodes, NEW p \in FitsIn(scenario.links, n),
           NEW R \in SUBSET Hearers(n), Receive(R, p), NEW x \in Nodes
    PROVE  /\ router'[x].pending \in Seq(FitsIn(scenario.links, x))
           /\ \A m \in AllMessages :
                 delivered'[x][m] > 0 =>
                     x \in Within(scenario.links, m.src, MinHop(m) + 1) /\ m.dest \in {"all", x}
<1>1. PICK S \in SUBSET Packets : S = FitsIn(scenario.links, x)
  BY DEF FitsIn
<1>2. /\ router[x] \in Routers /\ router[x].pending \in Seq(S)
      /\ delivered[x] \in [AllMessages -> Nat]
      /\ scenario.links \in SUBSET (Nodes \X Nodes)
  BY <1>1, FitsAreLinks DEF MInv, Shapes, RInv, NodeGood
<1>3. \A m \in AllMessages :
        delivered[x][m] > 0 =>
            x \in Within(scenario.links, m.src, MinHop(m) + 1) /\ m.dest \in {"all", x}
  BY DEF RInv, DeliveredGood
<1>4. CASE x \notin R
  BY <1>1, <1>2, <1>3, <1>4 DEF Receive
<1>5. CASE x \in R
  <2>1. <<n, x>> \in scenario.links
    BY <1>5 DEF Hearers
  <2>2. /\ p.hop > 0 => OneHopLess(p) \in S
        /\ x \in Within(scenario.links, p.msg.src, MinHop(p.msg) + 1)
    BY <1>1, <1>2, <2>1, OneHop
  <2>3. p \in Packets /\ p.msg \in AllMessages /\ p.dest = p.msg.dest
    BY DEF FitsIn, Packets
  <2>4. router'[x].pending \in Seq(S)
    <3>1. router'[x] = ProcessIncoming(router[x], x, p)
      BY <1>5 DEF Receive
    <3>2. /\ Heard(router[x], p).pending = router[x].pending
          /\ Remembered(router[x], p).pending = router[x].pending
          /\ Remembered(router[x], p) \in Routers
      <4>1. Key(p) \in Keys
        BY <2>3, KeyOfMessage
      <4> QED BY <1>2, <4>1 DEF Heard, Remembered, Routers
    <3>3. \/ router'[x].pending = router[x].pending
          \/ p.hop > 0 /\ router'[x].pending = Append(router[x].pending, OneHopLess(p))
      <4>1. PICK r \in Routers : r = Remembered(router[x], p)
        BY <3>2
      <4>2. \/ Waiting(r, x, p).pending = r.pending
            \/ p.hop > 0 /\ Waiting(r, x, p).pending = Append(r.pending, OneHopLess(p))
        BY DEF Waiting, Rebroadcasts, Routers
      <4> QED BY <3>1, <3>2, <4>1, <4>2 DEF ProcessIncoming
    <3>4. CASE p.hop > 0 /\ router'[x].pending = Append(router[x].pending, OneHopLess(p))
      <4>1. PICK q \in S : q = OneHopLess(p)
        BY <2>2, <3>4
      <4>2. Append(router[x].pending, q) \in Seq(S)
        BY <1>2, AppendProperties
      <4> QED BY <3>4, <4>1, <4>2
    <3> QED BY <1>2, <3>3, <3>4
  <2>5. \/ delivered'[x] = delivered[x]
        \/ /\ p.msg.dest \in {"all", x}
           /\ delivered'[x] = [delivered[x] EXCEPT ![p.msg] = @ + 1]
    BY <1>5, <2>3 DEF Receive, Delivers
  <2>6. ASSUME NEW m \in AllMessages, delivered'[x][m] > 0
        PROVE  x \in Within(scenario.links, m.src, MinHop(m) + 1) /\ m.dest \in {"all", x}
    <3>1. CASE delivered'[x][m] = delivered[x][m]
      BY <1>3, <2>6, <3>1
    <3>2. CASE delivered'[x][m] # delivered[x][m]
      <4>1. m = p.msg /\ p.msg.dest \in {"all", x}
        BY <1>2, <2>3, <2>5, <3>2
      <4> QED BY <2>2, <4>1
    <3> QED BY <3>1, <3>2
  <2> QED BY <1>1, <2>4, <2>6
<1> QED BY <1>4, <1>5

LEMMA EndOfTxR ==
    ASSUME MInv, RInv, NEW n \in Nodes, EndOfTx(n)
    PROVE  RInv'
<1>1. PICK p \in air[n], R \in SUBSET Hearers(n) :
        /\ missed' = missed + Cardinality(Hearers(n) \ R)
        /\ Receive(R, p) /\ air' = [air EXCEPT ![n] = {}]
        /\ mac' = IF scenario.driver = "mac" THEN [mac EXCEPT ![n] = TxComplete(@)] ELSE mac
        /\ UNCHANGED <<scenario, unsent, forwarded, refused, lapses>>
  BY DEF EndOfTx
<1>2. mac \in [Nodes -> Macs] /\ air \in [Nodes -> SUBSET Packets]
  BY DEF MInv, Shapes
<1>3. p \in FitsIn(scenario.links, n)
  BY <1>1 DEF RInv, NodeGood, AirGood
<1>4. missed' \in Nat
  <2>1. IsFiniteSet(Hearers(n) \ R)
    <3>1. Hearers(n) \ R \in SUBSET Nodes
      BY Mutual DEF MInv, Shapes
    <3> QED BY <3>1, FS_Subset, MeshAssumption
  <2>2. Cardinality(Hearers(n) \ R) \in Nat /\ missed \in Nat
    BY <2>1, FS_CardinalityType DEF RInv
  <2> QED BY <1>1, <2>2
<1>5. ASSUME NEW x \in Nodes
      PROVE  NodeGood(FitsIn(scenario.links, x), x)' /\ DeliveredGood(scenario.links, x)'
  <2>1. PICK S \in SUBSET Packets : S = FitsIn(scenario.links, x)
    BY DEF FitsIn
  <2>2. router'[x].pending \in Seq(S)
    BY <1>1, <1>3, <2>1, ReceiveR
  <2>3. \A m \in AllMessages :
          delivered'[x][m] > 0 =>
              x \in Within(scenario.links, m.src, MinHop(m) + 1) /\ m.dest \in {"all", x}
    BY <1>1, <1>3, ReceiveR
  <2>4. MacGood(S, mac'[x])
    <3>1. mac[x] \in Macs /\ MacGood(S, mac[x])
      BY <1>2, <2>1 DEF RInv, NodeGood
    <3>2. MacGood(S, TxComplete(mac[x]))
      BY <3>1, AirtimeGood
    <3>3. mac'[x] = mac[x] \/ mac'[x] = TxComplete(mac[x])
      BY <1>1, <1>2
    <3> QED BY <3>1, <3>2, <3>3
  <2>5. AirGood(S, air'[x])
    BY <1>1, <1>2, <2>1 DEF RInv, NodeGood, AirGood
  <2>6. scenario' = scenario
    BY <1>1
  <2> QED BY <2>1, <2>2, <2>3, <2>4, <2>5, <2>6 DEF NodeGood, DeliveredGood
<1> QED BY <1>1, <1>4, <1>5 DEF RInv

LEMMA LapseR ==
    ASSUME MInv, RInv, Lapse
    PROVE  RInv'
<1>1. UNCHANGED <<scenario, mac, air, unsent, delivered, missed, refused>>
  BY DEF Lapse, countVars
<1>2. lapses' \in 0..MaxLapses
  BY MeshAssumption DEF Lapse, RInv
<1>3. ASSUME NEW x \in Nodes
      PROVE  NodeGood(FitsIn(scenario.links, x), x)' /\ DeliveredGood(scenario.links, x)'
  <2>1. router[x] \in Routers /\ router'[x] = Expired(router[x])
    BY DEF Lapse, MInv, Shapes
  <2>2. router'[x].pending = router[x].pending
    BY <2>1 DEF Expired, Routers
  <2> QED BY <1>1, <2>2, NodeSame, DeliveredSame
<1> QED BY <1>1, <1>2, <1>3 DEF RInv

LEMMA WindowR ==
    ASSUME MInv, RInv, NEW n \in Nodes, WindowMoves(n)
    PROVE  RInv'
<1>1. UNCHANGED <<scenario, router, air, unsent, delivered, missed, refused, lapses>>
  BY DEF WindowMoves, countVars
<1>2. PICK S \in SUBSET Packets : S = FitsIn(scenario.links, n)
  BY DEF FitsIn
<1>3. mac \in [Nodes -> Macs] /\ mac[n] \in Macs /\ MacGood(S, mac[n]) /\ mac[n].airtime > 0
  BY <1>2 DEF MInv, Shapes, RInv, NodeGood, WindowMoves
<1>4. MacGood(S, Pruned(mac[n]))
  BY <1>3, AirtimeGood
<1>5. mac' = [mac EXCEPT ![n] = Pruned(mac[n])]
  BY DEF WindowMoves
<1>6. ASSUME NEW x \in Nodes
      PROVE  NodeGood(FitsIn(scenario.links, x), x)' /\ DeliveredGood(scenario.links, x)'
  <2>1. CASE x # n
    BY <1>1, <1>3, <1>5, <2>1, NodeSame, DeliveredSame
  <2>2. CASE x = n
    <3>1. MacGood(S, mac'[n])
      BY <1>3, <1>4, <1>5
    <3>2. router[n].pending \in Seq(S) /\ AirGood(S, air[n])
      BY <1>2 DEF RInv, NodeGood
    <3> QED BY <1>1, <1>2, <2>2, <3>1, <3>2, DeliveredSame DEF NodeGood
  <2> QED BY <2>1, <2>2
<1> QED BY <1>1, <1>6 DEF RInv

LEMMA NextRInv ==
    ASSUME MInv, RInv, [Next]_vars
    PROVE  RInv'
<1>0. Members \subseteq Nodes
  BY Mutual DEF MInv, Shapes
<1>1. CASE \E m \in unsent : Send(m)
  BY <1>1, SendR
<1>2. CASE \E n \in Members, ready \in BOOLEAN, busy \in BOOLEAN, waited \in BOOLEAN :
              ProcessTx(n, busy, ready, waited)
  BY <1>0, <1>2, ProcessTxR
<1>3. CASE \E n \in Members, ready \in BOOLEAN : ForceTx(n, ready)
  BY <1>0, <1>3, ForceTxR
<1>4. CASE \E n \in Members : EndOfTx(n)
  BY <1>0, <1>4, EndOfTxR
<1>5. CASE \E n \in Members : WindowMoves(n)
  BY <1>0, <1>5, WindowR
<1>6. CASE Lapse
  BY <1>6, LapseR
<1>7. CASE UNCHANGED vars
  <2>1. \A x \in Nodes :
          NodeGood(FitsIn(scenario.links, x), x)' /\ DeliveredGood(scenario.links, x)'
    BY <1>7, NodeSame, DeliveredSame DEF vars, nodeVars, countVars
  <2> QED BY <1>7, <2>1 DEF RInv, vars, nodeVars, countVars
<1> QED BY <1>1, <1>2, <1>3, <1>4, <1>5, <1>6, <1>7 DEF Next

LEMMA GoodPacket ==
    ASSUME NEW links, NEW x, NEW p \in FitsIn(links, x)
    PROVE  IsPacket(p)
<1>1. p \in Packets /\ p.msg \in AllMessages /\ p.dest = p.msg.dest /\ p.hop \in 0..MinHop(p.msg)
  BY DEF FitsIn, Packets
<1>2. p.hop \in 0..p.msg.hop
  BY <1>1, MinHopType, Messages
<1> QED BY <1>1, <1>2 DEF IsPacket, Packets

-----------------------------------------------------------------------------
(* A rebroadcast is dropped only for another one *)

\* No two messages of one node have the same id.  The code takes the id from
\* the clock, which makes it likely; where it is not so, one message of a node
\* suppresses another.
IdsTellApart ==
    \A m1, m2 \in scenario.messages : m1.src = m2.src /\ m1.id = m2.id => m1 = m2

Holds(q, m) == \E i \in 1..Len(q) : q[i].msg = m

\* The source of m: what it has not sent, its queue and what it has on the air
\* hold m once at the most; and not at all.
SourceOK(q, a, u, m) ==
    /\ m \in u => ~Holds(q, m) /\ \A p \in a : p.msg # m
    /\ (\E p \in a : p.msg = m) => ~Holds(q, m)
    /\ \A i, j \in 1..Len(q) : q[i].msg = m /\ q[j].msg = m => i = j

Done(q, a, u, m) == m \notin u /\ ~Holds(q, m) /\ \A p \in a : p.msg # m

\* What n may send: messages of its own, and what it counted as rebroadcast.
MaySend(messages, n, forwards) ==
    {p \in Packets :
        /\ p.msg \in messages
        /\ IF n = p.msg.src THEN p.hop = MinHop(p.msg) ELSE forwards[p.msg] > 0}

MayWait(messages, n) == {p \in Packets : p.msg \in messages /\ p.msg.src # n}

CarriedBy(n) ==
    /\ mac[n].queue \in Seq(MaySend(scenario.messages, n, forwarded[n]))
    /\ air[n] \subseteq MaySend(scenario.messages, n, forwarded[n])
    /\ router[n].pending \in Seq(MayWait(scenario.messages, n))
    /\ router[n].heard \subseteq router[n].seen
    /\ \A m \in AllMessages : delivered[n][m] > 0 => m \in scenario.messages

Source(m) == SourceOK(mac[m.src].queue, air[m.src], unsent, m)

Passed(n, m) == \E x \in {n} \cup Hearers(n) : forwarded[x][m] > 0

Awaits(n, m) ==
    /\ Holds(router[n].pending, m) /\ Key(m) \notin router[n].heard
    /\ Done(mac[m.src].queue, air[m.src], unsent, m)

Served(n, m) ==
    delivered[n][m] > 0 /\ m.dest = "all" /\ MinHop(m) > 0 /\ n \in Hearers(m.src) =>
        Passed(n, m) \/ Awaits(n, m)

Calm == refused = 0 /\ lapses = 0

Neighbours ==
    /\ \A n \in Nodes : CarriedBy(n)
    /\ \A m \in scenario.messages : Source(m)
    /\ \A n \in Nodes, m \in scenario.messages : Served(n, m)

NInv == IdsTellApart /\ (Calm => Neighbours)

LEMMA SourceSends ==
    ASSUME NEW q \in Seq(Packets), NEW a, NEW u, NEW m, q # <<>>
    PROVE  /\ SourceOK(q, a, u, m) => SourceOK(Tail(q), {Head(q)}, u, m)
           /\ Done(q, a, u, m) => Done(Tail(q), {Head(q)}, u, m)
<1>1. PICK t \in Seq(Packets), h \in Packets : t = Tail(q) /\ h = Head(q)
  BY HeadTailProperties
<1>2. /\ Len(q) \in Nat \ {0} /\ Len(t) = Len(q) - 1 /\ h = q[1]
      /\ \A i \in 1..Len(t) : i + 1 \in 1..Len(q) /\ t[i] = q[i + 1]
  BY <1>1, HeadTailProperties, EmptySeq
<1>3. 1 \in 1..Len(q)
  BY <1>2
<1>4. Holds(t, m) => Holds(q, m)
  BY <1>2 DEF Holds
<1>5. h.msg = m => Holds(q, m)
  BY <1>2, <1>3 DEF Holds
<1>6. ASSUME SourceOK(q, a, u, m) PROVE SourceOK(t, {h}, u, m)
  <2>1. m \in u => ~Holds(t, m) /\ h.msg # m
    BY <1>4, <1>5, <1>6 DEF SourceOK
  <2>2. ASSUME h.msg = m PROVE ~Holds(t, m)
    <3> SUFFICES ASSUME NEW i \in 1..Len(t), t[i].msg = m PROVE FALSE
      BY DEF Holds
    <3>1. i + 1 \in 1..Len(q) /\ q[i + 1].msg = m /\ q[1].msg = m
      BY <1>2, <2>2
    <3>2. i + 1 = 1
      BY <1>3, <1>6, <3>1 DEF SourceOK
    <3> QED BY <3>2
  <2>3. ASSUME NEW i \in 1..Len(t), NEW j \in 1..Len(t), t[i].msg = m, t[j].msg = m PROVE i = j
    <3>1. i + 1 = j + 1
      BY <1>2, <1>6, <2>3 DEF SourceOK
    <3> QED BY <3>1
  <2> QED BY <2>1, <2>2, <2>3 DEF SourceOK
<1>7. Done(q, a, u, m) => Done(t, {h}, u, m)
  BY <1>4, <1>5 DEF Done
<1> QED BY <1>1, <1>6, <1>7

LEMMA HoldsAppend ==
    ASSUME NEW q \in Seq(Packets), NEW p \in Packets, NEW m
    PROVE  Holds(Append(q, p), m) <=> Holds(q, m) \/ p.msg = m
<1>1. PICK r \in Seq(Packets) : r = Append(q, p)
  BY AppendProperties
<1>2. Len(q) \in Nat /\ Len(r) = Len(q) + 1 /\ r[Len(q) + 1] = p /\ \A i \in 1..Len(q) : r[i] = q[i]
  BY <1>1, AppendProperties
<1>3. /\ \A i \in 1..Len(r) : i \in 1..Len(q) \/ i = Len(q) + 1
      /\ \A i \in 1..Len(q) : i \in 1..Len(r)
      /\ Len(q) + 1 \in 1..Len(r)
  BY <1>2
<1> QED BY <1>1, <1>2, <1>3 DEF Holds

LEMMA SourceForwards ==
    ASSUME NEW q \in Seq(Packets), NEW p \in Packets, NEW a, NEW u, NEW m, p.msg # m
    PROVE  /\ SourceOK(q, a, u, m) => SourceOK(Append(q, p), a, u, m)
           /\ Done(q, a, u, m) => Done(Append(q, p), a, u, m)
<1>1. PICK r \in Seq(Packets) : r = Append(q, p)
  BY AppendProperties
<1>2. Len(q) \in Nat /\ Len(r) = Len(q) + 1 /\ r[Len(q) + 1] = p /\ \A i \in 1..Len(q) : r[i] = q[i]
  BY <1>1, AppendProperties
<1>3. Holds(r, m) <=> Holds(q, m)
  BY <1>1, HoldsAppend
<1>4. ASSUME NEW i \in 1..Len(r), r[i].msg = m PROVE i \in 1..Len(q) /\ q[i].msg = m
  BY <1>2, <1>4
<1>5. SourceOK(q, a, u, m) => SourceOK(r, a, u, m)
  BY <1>3, <1>4 DEF SourceOK
<1>6. Done(q, a, u, m) => Done(r, a, u, m)
  BY <1>3 DEF Done
<1> QED BY <1>1, <1>5, <1>6

\* The application sends m.
LEMMA SourceStarts ==
    ASSUME NEW q \in Seq(Packets), NEW p \in Packets, NEW a, NEW u, NEW m \in u, p.msg = m,
           SourceOK(q, a, u, m)
    PROVE  SourceOK(Append(q, p), a, u \ {m}, m)
<1>1. PICK r \in Seq(Packets) : r = Append(q, p)
  BY AppendProperties
<1>2. Len(q) \in Nat /\ Len(r) = Len(q) + 1 /\ \A i \in 1..Len(q) : r[i] = q[i]
  BY <1>1, AppendProperties
<1>3. ~Holds(q, m) /\ \A x \in a : x.msg # m
  BY DEF SourceOK
<1>4. ASSUME NEW i \in 1..Len(r), r[i].msg = m PROVE i = Len(q) + 1
  <2>1. i \notin 1..Len(q)
    BY <1>2, <1>3, <1>4 DEF Holds
  <2> QED BY <1>2, <2>1
<1> QED BY <1>1, <1>3, <1>4 DEF SourceOK

LEMMA SeqMore ==
    ASSUME NEW S, NEW T, S \subseteq T, NEW q \in Seq(S)
    PROVE  q \in Seq(T)
<1>1. q = [i \in 1..Len(q) |-> q[i]] /\ Len(q) \in Nat /\ \A i \in 1..Len(q) : q[i] \in T
  OBVIOUS
<1> QED BY <1>1

LEMMA MaySendMore ==
    ASSUME NEW messages, NEW n, NEW f, NEW g, \A m \in AllMessages : f[m] > 0 => g[m] > 0
    PROVE  MaySend(messages, n, f) \subseteq MaySend(messages, n, g)
  BY DEF MaySend, Packets

LEMMA MaySendPackets ==
    ASSUME NEW messages, NEW n, NEW f
    PROVE  MaySend(messages, n, f) \in SUBSET Packets /\ MayWait(messages, n) \in SUBSET Packets
  BY DEF MaySend, MayWait

LEMMA ServedStep ==
    ASSUME MInv, NEW n \in Nodes, NEW m, Served(n, m), UNCHANGED scenario,
           delivered'[n][m] = delivered[n][m],
           \A x \in Nodes : forwarded[x][m] > 0 => forwarded'[x][m] > 0,
           Awaits(n, m) => Awaits(n, m)' \/ Passed(n, m)'
    PROVE  Served(n, m)'
<1>1. Hearers(n)' = Hearers(n) /\ Hearers(m.src)' = Hearers(m.src) /\ Hearers(n) \subseteq Nodes
  BY Mutual DEF Hearers, MInv, Shapes
<1>2. Passed(n, m) => Passed(n, m)'
  BY <1>1 DEF Passed
<1> QED BY <1>1, <1>2 DEF Served

\* What a poll takes out of the router.
LEMMA PollN ==
    ASSUME MInv, RInv, Calm, Neighbours, NEW n \in Nodes, NEW ready \in BOOLEAN,
           PollRouter(n, ready), refused' = 0
    PROVE  /\ \A x \in Nodes, m \in AllMessages : forwarded[x][m] > 0 => forwarded'[x][m] > 0
           /\ \/ Queued(n, ready).queue = mac[n].queue
              \/ \E p \in MayWait(scenario.messages, n) :
                    /\ Queued(n, ready).queue = Append(mac[n].queue, p)
                    /\ forwarded'[n][p.msg] > 0
           /\ router'[n].pending \in Seq(MayWait(scenario.messages, n))
           /\ router'[n].heard \subseteq router'[n].seen
           /\ \A x \in Nodes : x # n => router'[x] = router[x]
           /\ \A m \in scenario.messages :
                 Holds(router[n].pending, m) /\ Key(m) \notin router[n].heard =>
                     \/ Holds(router'[n].pending, m) /\ Key(m) \notin router'[n].heard
                     \/ forwarded'[n][m] > 0
<1>1. PICK W \in SUBSET Packets : W = MayWait(scenario.messages, n)
  BY MaySendPackets
<1>2. /\ router \in [Nodes -> Routers] /\ router[n] \in Routers /\ router[n].pending \in Seq(W)
      /\ router[n].heard \subseteq router[n].seen
      /\ mac[n] \in Macs /\ forwarded \in [Nodes -> [AllMessages -> Nat]] /\ refused \in Nat
  BY <1>1 DEF Neighbours, CarriedBy, MInv, Shapes, RInv
<1>3. CASE ~HandsOut(n, ready)
  <2>1. router' = router /\ forwarded' = forwarded /\ Queued(n, ready) = mac[n]
    BY <1>3 DEF PollRouter, Forwards, Queued
  <2> QED BY <1>1, <1>2, <2>1
<1>4. CASE HandsOut(n, ready)
  <2>1. PICK old \in Seq(W) : old = router[n].pending
    BY <1>2
  <2>2. PICK h \in W, t \in Seq(W) : h = Head(old) /\ t = Tail(old)
    BY <1>4, <2>1, HeadTailProperties DEF HandsOut
  <2>3. /\ Len(old) \in Nat \ {0} /\ Len(t) = Len(old) - 1 /\ h = old[1]
        /\ \A i \in 1..Len(t) : t[i] = old[i + 1]
    BY <1>4, <2>1, <2>2, HeadTailProperties, EmptySeq DEF HandsOut
  <2>4. router' = [router EXCEPT ![n] = PopPending(router[n])]
    BY <1>4 DEF PollRouter
  <2>5. /\ router'[n].pending = t /\ router'[n].heard = router[n].heard \ {Key(h)}
        /\ router'[n].seen = router[n].seen
        /\ \A x \in Nodes : x # n => router'[x] = router[x]
    BY <1>2, <2>1, <2>2, <2>4 DEF PopPending, Routers
  <2>6. h.msg \in AllMessages /\ h \in Packets /\ Key(h) = Key(h.msg)
    BY <1>1, KeyOfMessage DEF Packets
  <2>7. CASE Suppressed(router[n])
    <3>1. forwarded' = forwarded /\ Queued(n, ready) = mac[n] /\ Key(h) \in router[n].heard
      BY <2>1, <2>2, <2>7 DEF PollRouter, Forwards, Queued, Suppressed
    <3>2. ASSUME NEW m \in scenario.messages, Holds(old, m), Key(m) \notin router[n].heard
          PROVE  Holds(t, m) /\ Key(m) \notin router'[n].heard
      <4>1. PICK i \in 1..Len(old) : old[i].msg = m
        BY <3>2 DEF Holds
      <4>2. i # 1
        BY <2>3, <2>6, <3>1, <3>2, <4>1
      <4>3. i - 1 \in 1..Len(t) /\ t[i - 1] = old[i]
        BY <2>3, <4>2
      <4> QED BY <2>5, <3>2, <4>1, <4>3 DEF Holds
    <3> QED BY <1>1, <1>2, <2>1, <2>5, <3>1, <3>2
  <2>8. CASE ~Suppressed(router[n])
    <3>1. Forwards(n, ready) /\ HasRoom(mac[n])
      BY <1>2, <1>4, <2>8 DEF Forwards, PollRouter
    <3>2. forwarded' = [forwarded EXCEPT ![n][h.msg] = @ + 1]
      BY <2>1, <2>2, <3>1 DEF PollRouter
    <3>3. PICK k \in AllMessages : k = h.msg
      BY <2>6
    <3>4. /\ forwarded'[n][k] = forwarded[n][k] + 1
          /\ \A x \in Nodes, m \in AllMessages : forwarded'[x][m] >= forwarded[x][m]
      BY <1>2, <3>2, <3>3
    <3>5. forwarded[n][k] \in Nat /\ \A x \in Nodes, m \in AllMessages : forwarded[x][m] \in Nat
      BY <1>2
    <3>6. /\ forwarded'[n][h.msg] > 0
          /\ \A x \in Nodes, m \in AllMessages : forwarded[x][m] > 0 => forwarded'[x][m] > 0
      <4>1. forwarded'[n][k] > 0
        BY <3>4, <3>5
      <4>2. ASSUME NEW x \in Nodes, NEW m \in AllMessages, forwarded[x][m] > 0
            PROVE  forwarded'[x][m] > 0
        <5>1. PICK b \in Nat : b = forwarded[x][m]
          BY <3>5
        <5>2. forwarded'[x][m] \in Nat
          BY <1>2, <3>2, <3>3
        <5> QED BY <3>4, <4>2, <5>1, <5>2
      <4> QED BY <3>3, <4>1, <4>2
    <3>7. Queued(n, ready).queue = Append(mac[n].queue, h)
      <4>1. OnWire(h) = h
        <5>1. router[n].pending \in Seq(FitsIn(scenario.links, n))
          BY DEF RInv, NodeGood
        <5>2. Head(router[n].pending) \in FitsIn(scenario.links, n)
          BY <1>4, <5>1, HeadTailProperties DEF HandsOut
        <5> QED BY <2>1, <2>2, <5>2, OnWireSame
      <4>2. Queued(n, ready) = QueueTx(mac[n], h)
        BY <2>1, <2>2, <3>1, <4>1 DEF Queued
      <4> QED BY <1>2, <3>1, <4>2 DEF QueueTx, Macs
    <3>8. ASSUME NEW m \in scenario.messages, Holds(old, m), Key(m) \notin router[n].heard
          PROVE  (Holds(t, m) /\ Key(m) \notin router'[n].heard) \/ forwarded'[n][m] > 0
      <4>1. PICK i \in 1..Len(old) : old[i].msg = m
        BY <3>8 DEF Holds
      <4>2. CASE i = 1
        BY <2>3, <3>6, <4>1, <4>2
      <4>3. CASE i # 1
        <5>1. i - 1 \in 1..Len(t) /\ t[i - 1] = old[i]
          BY <2>3, <4>3
        <5> QED BY <2>5, <3>8, <4>1, <5>1 DEF Holds
      <4> QED BY <4>2, <4>3
    <3> QED BY <1>1, <1>2, <2>1, <2>5, <3>6, <3>7, <3>8
  <2> QED BY <2>7, <2>8
<1> QED BY <1>3, <1>4

LEMMA StartTxQueue ==
    ASSUME NEW m \in Macs, m.queue # <<>>
    PROVE  StartTx(m).queue = Tail(m.queue)
<1>1. BackoffReset(m) \in Macs /\ BackoffReset(m).queue = m.queue
  BY BackoffResetKeeps
<1> QED BY <1>1 DEF StartTx, Macs

LEMMA PolledN ==
    ASSUME MInv, RInv, Calm, Neighbours, NEW n \in Nodes, NEW ready \in BOOLEAN,
           PollRouter(n, ready), refused' = 0,
           NEW m \in Macs, m.queue = Queued(n, ready).queue,
           \/ m.queue # <<>> /\ Transmits(n, m)
           \/ KeepsQuiet(n, m),
           UNCHANGED <<scenario, unsent, delivered, missed, lapses>>
    PROVE  Neighbours'
<1>1. PICK T \in SUBSET Packets : T = MaySend(scenario.messages, n, forwarded'[n])
  BY MaySendPackets
<1>2. PICK q \in Seq(Packets) : q = mac[n].queue
  BY DEF MInv, Shapes, Macs
<1>3. PICK Q \in Seq(Packets) : Q = m.queue
  BY DEF Macs
<1>4. /\ \A x \in Nodes, k \in AllMessages : forwarded[x][k] > 0 => forwarded'[x][k] > 0
      /\ \/ Q = q
         \/ \E p \in MayWait(scenario.messages, n) : Q = Append(q, p) /\ forwarded'[n][p.msg] > 0
      /\ router'[n].pending \in Seq(MayWait(scenario.messages, n))
      /\ router'[n].heard \subseteq router'[n].seen
      /\ \A x \in Nodes : x # n => router'[x] = router[x]
      /\ \A k \in scenario.messages :
            Holds(router[n].pending, k) /\ Key(k) \notin router[n].heard =>
                \/ Holds(router'[n].pending, k) /\ Key(k) \notin router'[n].heard
                \/ forwarded'[n][k] > 0
  BY <1>2, <1>3, PollN
<1>5. Q \in Seq(T)
  <2>1. q \in Seq(T)
    <3>1. q \in Seq(MaySend(scenario.messages, n, forwarded[n]))
      BY <1>2 DEF Neighbours, CarriedBy
    <3>2. MaySend(scenario.messages, n, forwarded[n]) \subseteq T
      BY <1>1, <1>4, MaySendMore
    <3> QED BY <3>1, <3>2, SeqMore
  <2>2. ASSUME NEW p \in MayWait(scenario.messages, n), Q = Append(q, p), forwarded'[n][p.msg] > 0
        PROVE  Q \in Seq(T)
    <3>1. p \in T
      BY <1>1, <2>2 DEF MayWait, MaySend
    <3> QED BY <2>1, <2>2, <3>1, AppendProperties
  <2> QED BY <1>4, <2>1, <2>2
<1>6. /\ mac \in [Nodes -> Macs] /\ air \in [Nodes -> SUBSET Packets]
      /\ scenario.messages \subseteq AllMessages
      /\ \A k \in AllMessages : k.src \in Nodes
  BY Messages DEF MInv, Shapes, AllMessages
<1>7. /\ \/ Q # <<>> /\ mac'[n].queue = Tail(Q) /\ air'[n] = {Head(Q)}
         \/ mac'[n].queue = Q /\ air'[n] = air[n]
      /\ \A x \in Nodes : x # n => mac'[x] = mac[x] /\ air'[x] = air[x]
  <2>1. CASE m.queue # <<>> /\ Transmits(n, m)
    BY <1>3, <1>6, <2>1, StartTxQueue DEF Transmits
  <2>2. CASE KeepsQuiet(n, m)
    BY <1>3, <1>6, <2>2 DEF KeepsQuiet
  <2> QED BY <2>1, <2>2
<1>8. ASSUME NEW k \in scenario.messages
      PROVE  /\ Source(k)'
             /\ Done(mac[k.src].queue, air[k.src], unsent, k) =>
                    Done(mac'[k.src].queue, air'[k.src], unsent', k)
  <2>0. Source(k) /\ k.src \in Nodes /\ unsent' = unsent
    BY <1>6 DEF Neighbours
  <2>1. CASE k.src # n
    BY <1>7, <2>0, <2>1 DEF Source
  <2>2. CASE k.src = n
    <3>1. SourceOK(q, air[n], unsent, k)
      BY <1>2, <2>0, <2>2 DEF Source
    <3>2. /\ SourceOK(Q, air[n], unsent, k)
          /\ Done(q, air[n], unsent, k) => Done(Q, air[n], unsent, k)
      <4>1. CASE Q = q
        BY <3>1, <4>1
      <4>2. ASSUME NEW p \in MayWait(scenario.messages, n), Q = Append(q, p)
            PROVE  /\ SourceOK(Q, air[n], unsent, k)
                   /\ Done(q, air[n], unsent, k) => Done(Q, air[n], unsent, k)
        <5>1. p \in Packets /\ p.msg # k
          BY <2>2 DEF MayWait
        <5> QED BY <3>1, <4>2, <5>1, SourceForwards
      <4> QED BY <1>4, <4>1, <4>2
    <3>3. CASE Q # <<>> /\ mac'[n].queue = Tail(Q) /\ air'[n] = {Head(Q)}
      <4>1. /\ SourceOK(Tail(Q), {Head(Q)}, unsent, k)
            /\ Done(Q, air[n], unsent, k) => Done(Tail(Q), {Head(Q)}, unsent, k)
        BY <3>2, <3>3, SourceSends
      <4> QED BY <1>2, <2>0, <2>2, <3>2, <3>3, <4>1 DEF Source
    <3>4. CASE mac'[n].queue = Q /\ air'[n] = air[n]
      BY <1>2, <2>0, <2>2, <3>2, <3>4 DEF Source
    <3> QED BY <1>7, <3>3, <3>4
  <2> QED BY <2>1, <2>2
<1>9. ASSUME NEW x \in Nodes PROVE CarriedBy(x)'
  <2>0. CarriedBy(x) /\ scenario' = scenario /\ delivered' = delivered
    BY DEF Neighbours
  <2>1. CASE x # n
    <3>1. PICK U : U = MaySend(scenario.messages, x, forwarded'[x])
      OBVIOUS
    <3>2. MaySend(scenario.messages, x, forwarded[x]) \subseteq U
      BY <1>4, <3>1, MaySendMore
    <3>3. mac[x].queue \in Seq(U) /\ air[x] \subseteq U
      BY <2>0, <3>2, SeqMore DEF CarriedBy
    <3> QED BY <1>4, <1>7, <2>0, <2>1, <3>1, <3>3 DEF CarriedBy
  <2>2. CASE x = n
    <3>1. mac'[n].queue \in Seq(T) /\ air'[n] \subseteq T
      <4>1. CASE Q # <<>> /\ mac'[n].queue = Tail(Q) /\ air'[n] = {Head(Q)}
        BY <1>5, <4>1, HeadTailProperties
      <4>2. CASE mac'[n].queue = Q /\ air'[n] = air[n]
        <5>1. MaySend(scenario.messages, n, forwarded[n]) \subseteq T
          BY <1>1, <1>4, MaySendMore
        <5> QED BY <1>5, <2>0, <2>2, <4>2, <5>1 DEF CarriedBy
      <4> QED BY <1>7, <4>1, <4>2
    <3> QED BY <1>1, <1>4, <2>0, <2>2, <3>1 DEF CarriedBy
  <2> QED BY <2>1, <2>2
<1>10. ASSUME NEW x \in Nodes, NEW k \in scenario.messages PROVE Served(x, k)'
  <2>1. Awaits(x, k) => Awaits(x, k)' \/ Passed(x, k)'
    <3> SUFFICES ASSUME Awaits(x, k) PROVE Awaits(x, k)' \/ Passed(x, k)'
      OBVIOUS
    <3>1. Done(mac'[k.src].queue, air'[k.src], unsent', k)
      BY <1>8 DEF Awaits
    <3>2. CASE x # n
      BY <1>4, <3>1, <3>2 DEF Awaits
    <3>3. CASE x = n
      <4>1. \/ Holds(router'[n].pending, k) /\ Key(k) \notin router'[n].heard
            \/ forwarded'[n][k] > 0
        BY <1>4, <3>3 DEF Awaits
      <4> QED BY <3>1, <3>3, <4>1 DEF Awaits, Passed
    <3> QED BY <3>2, <3>3
  <2>2. Served(x, k) /\ scenario' = scenario /\ delivered'[x][k] = delivered[x][k]
    BY DEF Neighbours
  <2>3. \A y \in Nodes : forwarded[y][k] > 0 => forwarded'[y][k] > 0
    BY <1>4, <1>6
  <2> QED BY <2>1, <2>2, <2>3, ServedStep
<1> QED BY <1>8, <1>9, <1>10 DEF Neighbours

LEMMA SendN ==
    ASSUME MInv, RInv, Calm, Neighbours, NEW m \in unsent, Send(m), refused' = 0
    PROVE  Neighbours'
<1>1. m \in AllMessages /\ m \in scenario.messages /\ m.src \in Nodes
  BY Messages DEF MInv, Shapes, RInv
<1>2. PICK n \in Nodes : n = m.src
  BY <1>1
<1>3. PICK p \in Packets : p = OnWire(Packet(m))
  BY <1>1, PacketIsPacket
<1>4. p.msg = m /\ p.hop = MinHop(m)
  BY <1>1, <1>3, Messages DEF OnWire, Packet, MinHop
<1>5. PICK q \in Seq(Packets) : q = mac[n].queue
  BY DEF MInv, Shapes, Macs
<1>6. /\ mac \in [Nodes -> Macs]
      /\ mac' = [mac EXCEPT ![n] = QueueTx(mac[n], p)]
      /\ unsent' = unsent \ {m}
      /\ UNCHANGED <<scenario, router, air, delivered, forwarded>>
  BY <1>2, <1>3 DEF Send, MInv, Shapes
<1>7. HasRoom(mac[n])
  BY <1>2 DEF Send, RInv, Calm
<1>8. /\ mac'[n].queue = Append(q, p)
      /\ \A x \in Nodes : x # n => mac'[x] = mac[x]
  BY <1>5, <1>6, <1>7 DEF QueueTx, Macs
<1>9. ASSUME NEW k \in scenario.messages
      PROVE  /\ Source(k)'
             /\ Done(mac[k.src].queue, air[k.src], unsent, k) =>
                    Done(mac'[k.src].queue, air'[k.src], unsent', k)
  <2>0. Source(k) /\ k.src \in Nodes
    BY Messages DEF Neighbours, MInv, Shapes, AllMessages
  <2>1. CASE k = m
    <3>1. SourceOK(q, air[n], unsent, m)
      BY <1>2, <1>5, <2>0, <2>1 DEF Source
    <3>2. SourceOK(Append(q, p), air[n], unsent \ {m}, m)
      BY <1>4, <3>1, SourceStarts
    <3> QED BY <1>2, <1>6, <1>8, <2>1, <3>2 DEF Source, Done
  <2>2. CASE k # m /\ k.src # n
    BY <1>6, <1>8, <2>0, <2>2 DEF Source, SourceOK, Done
  <2>3. CASE k # m /\ k.src = n
    <3>1. SourceOK(q, air[n], unsent, k)
      BY <1>5, <2>0, <2>3 DEF Source
    <3>2. /\ SourceOK(Append(q, p), air[n], unsent, k)
          /\ Done(q, air[n], unsent, k) => Done(Append(q, p), air[n], unsent, k)
      BY <1>4, <2>3, <3>1, SourceForwards
    <3>3. PICK r : r = Append(q, p)
      OBVIOUS
    <3>4. /\ SourceOK(r, air[n], unsent \ {m}, k)
          /\ Done(r, air[n], unsent, k) => Done(r, air[n], unsent \ {m}, k)
      BY <3>2, <3>3 DEF SourceOK, Done
    <3> QED BY <1>5, <1>6, <1>8, <2>3, <3>2, <3>3, <3>4 DEF Source
  <2> QED BY <2>1, <2>2, <2>3
<1>10. ASSUME NEW x \in Nodes PROVE CarriedBy(x)'
  <2>0. CarriedBy(x)
    BY DEF Neighbours
  <2>1. CASE x # n
    BY <1>6, <1>8, <2>0, <2>1 DEF CarriedBy
  <2>2. CASE x = n
    <3>1. PICK T : T = MaySend(scenario.messages, n, forwarded[n])
      OBVIOUS
    <3>2. p \in T
      BY <1>1, <1>2, <1>4, <3>1 DEF MaySend
    <3>3. q \in Seq(T)
      BY <1>5, <2>0, <2>2, <3>1 DEF CarriedBy
    <3>4. mac'[n].queue \in Seq(T)
      BY <1>8, <3>2, <3>3, AppendProperties
    <3> QED BY <1>6, <2>0, <2>2, <3>1, <3>4 DEF CarriedBy
  <2> QED BY <2>1, <2>2
<1>11. ASSUME NEW x \in Nodes, NEW k \in scenario.messages PROVE Served(x, k)'
  <2>1. Awaits(x, k) => Awaits(x, k)'
    BY <1>6, <1>9 DEF Awaits
  <2>2. Served(x, k) /\ delivered'[x][k] = delivered[x][k]
    BY <1>6 DEF Neighbours
  <2>3. \A y \in Nodes : forwarded[y][k] > 0 => forwarded'[y][k] > 0
    BY <1>6
  <2> QED BY <1>6, <2>1, <2>2, <2>3, ServedStep
<1> QED BY <1>6, <1>9, <1>10, <1>11 DEF Neighbours

\* Who did not know the packet waits to rebroadcast it; who knew it has heard
\* another node rebroadcast it, for a source sends a message once.
LEMMA EndOfTxN ==
    ASSUME MInv, RInv, Calm, IdsTellApart, Neighbours, NEW n \in Nodes, EndOfTx(n)
    PROVE  Neighbours'
<1>1. PICK p \in air[n], R \in SUBSET Hearers(n) :
        /\ Receive(R, p) /\ air' = [air EXCEPT ![n] = {}]
        /\ mac' = IF scenario.driver = "mac" THEN [mac EXCEPT ![n] = TxComplete(@)] ELSE mac
        /\ UNCHANGED <<scenario, unsent, forwarded, refused, lapses>>
  BY DEF EndOfTx
<1>2. /\ mac \in [Nodes -> Macs] /\ air \in [Nodes -> SUBSET Packets] /\ router \in [Nodes -> Routers]
      /\ delivered \in [Nodes -> [AllMessages -> Nat]]
      /\ scenario.messages \subseteq AllMessages
      /\ \A k \in AllMessages : k.src \in Nodes
  BY Messages DEF MInv, Shapes, AllMessages
<1>3. PICK msg \in scenario.messages : msg = p.msg
  BY <1>1 DEF Neighbours, CarriedBy, MaySend
<1>4. /\ p \in Packets /\ Key(p) = Key(msg) /\ msg \in AllMessages /\ p.src = msg.src
      /\ IF n = msg.src THEN p.hop = MinHop(msg) ELSE forwarded[n][msg] > 0
  BY <1>1, <1>2, <1>3, KeyOfMessage DEF Neighbours, CarriedBy, MaySend, Packets
<1>5. p.dest = msg.dest
  BY <1>1, <1>3 DEF RInv, NodeGood, AirGood, FitsIn
<1>6. /\ air'[n] = {} /\ \A x \in Nodes : x # n => air'[x] = air[x]
      /\ \A x \in Nodes : mac'[x].queue = mac[x].queue
  <2>1. \A x \in Nodes : TxComplete(mac[x]).queue = mac[x].queue
    BY <1>2 DEF TxComplete, Macs
  <2> QED BY <1>1, <1>2, <2>1
<1>7. \A k \in scenario.messages : k # msg => Key(k) # Key(msg)
  BY <1>2, Messages DEF IdsTellApart, Key
<1>8. ASSUME NEW k \in scenario.messages
      PROVE  /\ Source(k)'
             /\ Done(mac[k.src].queue, air[k.src], unsent, k) =>
                    Done(mac'[k.src].queue, air'[k.src], unsent', k)
             /\ k = msg /\ n = k.src => Done(mac'[k.src].queue, air'[k.src], unsent', k)
  <2>1. k.src \in Nodes /\ Source(k) /\ unsent' = unsent
    BY <1>1, <1>2 DEF Neighbours
  <2>2. k.src # n => air'[k.src] = air[k.src]
    BY <1>6, <2>1
  <2>3. Source(k)'
    BY <1>6, <2>1, <2>2 DEF Source, SourceOK
  <2>4. ASSUME Done(mac[k.src].queue, air[k.src], unsent, k)
        PROVE  Done(mac'[k.src].queue, air'[k.src], unsent', k)
    BY <1>6, <2>1, <2>2, <2>4 DEF Done
  <2>5. ASSUME k = msg, n = k.src PROVE Done(mac'[k.src].queue, air'[k.src], unsent', k)
    <3>1. p \in air[k.src] /\ p.msg = k
      BY <1>1, <1>3, <2>5
    <3>2. ~Holds(mac[k.src].queue, k) /\ k \notin unsent
      BY <2>1, <3>1 DEF Source, SourceOK
    <3> QED BY <1>6, <2>1, <2>5, <3>2 DEF Done
  <2> QED BY <2>3, <2>4, <2>5
<1>9. ASSUME NEW x \in Nodes
      PROVE  /\ router'[x] \in Routers
             /\ \A k \in AllMessages : delivered'[x][k] # delivered[x][k] => k = msg
             /\ router'[x].pending \in Seq(MayWait(scenario.messages, x))
             /\ router'[x].heard \subseteq router'[x].seen
             /\ \A k \in scenario.messages : k # msg =>
                   /\ Holds(router[x].pending, k) => Holds(router'[x].pending, k)
                   /\ Key(k) \in router'[x].heard => Key(k) \in router[x].heard
             /\ x \notin R => router'[x] = router[x] /\ delivered'[x] = delivered[x]
             /\ x \in R /\ Key(msg) \in router[x].seen => delivered'[x] = delivered[x]
             /\ x \in R /\ Key(msg) \notin router[x].seen =>
                   /\ Key(msg) \notin router'[x].heard
                   /\ Rebroadcasts(x, p) => Holds(router'[x].pending, msg)
  <2>1. PICK W \in SUBSET Packets : W = MayWait(scenario.messages, x)
    BY MaySendPackets
  <2>2. /\ router[x] \in Routers /\ router[x].pending \in Seq(W) /\ router[x].pending \in Seq(Packets)
        /\ router[x].heard \subseteq router[x].seen /\ delivered[x] \in [AllMessages -> Nat]
        /\ Key(p) \in Keys
    BY <1>2, <1>4, <2>1, KeyOfMessage DEF Neighbours, CarriedBy, Routers
  <2>3. CASE x \notin R
    <3>1. router'[x] = router[x] /\ delivered'[x] = delivered[x]
      BY <1>1, <2>3 DEF Receive
    <3> QED BY <2>1, <2>2, <2>3, <3>1
  <2>4. CASE x \in R /\ Key(msg) \in router[x].seen
    <3>1. router'[x] = Heard(router[x], p) /\ delivered'[x] = delivered[x]
      BY <1>1, <1>4, <2>4 DEF Receive, ProcessIncoming, IsNew
    <3>2. /\ router'[x] \in Routers /\ router'[x].pending = router[x].pending
          /\ router'[x].seen = router[x].seen /\ router'[x].heard = router[x].heard \cup {Key(msg)}
      BY <1>4, <2>2, <3>1 DEF Heard, Routers
    <3> QED BY <1>7, <2>1, <2>2, <2>4, <3>1, <3>2
  <2>5. CASE x \in R /\ Key(msg) \notin router[x].seen
    <3>1. /\ router'[x] = Waiting(Remembered(router[x], p), x, p)
          /\ delivered'[x] = delivered[x] \/ delivered'[x] = [delivered[x] EXCEPT ![msg] = @ + 1]
      BY <1>1, <1>3, <1>4, <2>5 DEF Receive, ProcessIncoming, IsNew
    <3>2. PICK r \in Routers : r = Remembered(router[x], p)
      BY <2>2 DEF Remembered, Routers
    <3>3. /\ r.pending = router[x].pending /\ r.heard = router[x].heard
          /\ r.seen = router[x].seen \cup {Key(p)}
      BY <2>2, <3>2 DEF Remembered, Routers
    <3>4. PICK o \in Packets : o = OneHopLess(p) /\ o.msg = msg
      <4>1. p \in Packets
        BY <1>4
      <4>2. OneHopLess(p) \in Packets /\ OneHopLess(p).msg = p.msg
        BY <4>1 DEF OneHopLess, Packets
      <4> QED BY <1>3, <4>2
    <3>5. Append(r.pending, o) \in Seq(Packets)
      BY <2>2, <3>3, AppendProperties
    <3>6. /\ router'[x] \in Routers /\ router'[x].heard = r.heard /\ router'[x].seen = r.seen
          /\ router'[x].pending = IF Rebroadcasts(x, p) THEN Append(r.pending, o) ELSE r.pending
      BY <3>1, <3>2, <3>4, <3>5 DEF Waiting, Routers
    <3>7. router'[x].pending \in Seq(W)
      <4>1. CASE Rebroadcasts(x, p)
        <5>1. o \in W
          BY <1>4, <2>1, <3>4, <4>1 DEF MayWait, Rebroadcasts
        <5> QED BY <2>2, <3>3, <3>6, <4>1, <5>1, AppendProperties
      <4>2. CASE ~Rebroadcasts(x, p)
        BY <2>2, <3>3, <3>6, <4>2
      <4> QED BY <4>1, <4>2
    <3>8. \A k \in scenario.messages :
            /\ Holds(router[x].pending, k) => Holds(router'[x].pending, k)
            /\ Rebroadcasts(x, p) => Holds(router'[x].pending, msg)
      BY <2>2, <3>3, <3>4, <3>6, HoldsAppend
    <3>9. \A k \in AllMessages : delivered'[x][k] # delivered[x][k] => k = msg
      BY <2>2, <3>1
    <3>10. Key(msg) \notin router'[x].heard /\ router'[x].heard \subseteq router'[x].seen
      BY <2>2, <2>5, <3>3, <3>6
    <3> QED BY <1>3, <2>1, <2>5, <3>3, <3>6, <3>7, <3>8, <3>9, <3>10
  <2> QED BY <2>3, <2>4, <2>5
<1>10. ASSUME NEW x \in Nodes PROVE CarriedBy(x)'
  <2>1. CarriedBy(x)
    BY DEF Neighbours
  <2>2. \A k \in AllMessages : delivered'[x][k] > 0 => k \in scenario.messages
    BY <1>3, <1>9, <2>1 DEF CarriedBy
  <2>3. air'[x] \subseteq air[x]
    BY <1>6
  <2> QED BY <1>1, <1>6, <1>9, <2>1, <2>2, <2>3 DEF CarriedBy
<1>11. ASSUME NEW x \in Nodes, NEW k \in scenario.messages PROVE Served(x, k)'
  <2>0. Served(x, k) /\ k \in AllMessages /\ UNCHANGED <<scenario, forwarded>>
    BY <1>1, <1>2 DEF Neighbours
  <2>1. CASE k # msg \/ x \notin R
    <3>1. delivered'[x][k] = delivered[x][k]
      BY <1>9, <2>0, <2>1
    <3>2. Awaits(x, k) => Awaits(x, k)'
      BY <1>8, <1>9, <2>1 DEF Awaits
    <3> QED BY <2>0, <3>1, <3>2, ServedStep
  <2>2. CASE k = msg /\ x \in R
    <3>0. x \in Hearers(n) /\ n \in Hearers(x)
      <4>1. x \in Hearers(n)
        BY <2>2
      <4>2. <<x, n>> \in scenario.links
        <5>1. <<n, x>> \in scenario.links /\ scenario \in Scenarios
          BY <4>1 DEF Hearers, MInv, Shapes
        <5>2. <<<<n, x>>[2], <<n, x>>[1]>> \in scenario.links
          BY <5>1, MeshAssumption
        <5> QED BY <5>2
      <4> QED BY <4>1, <4>2 DEF Hearers
    <3>1. CASE n # msg.src
      <4>1. forwarded'[n][k] > 0 /\ n \in Hearers(x)'
        BY <1>4, <2>0, <2>2, <3>0, <3>1 DEF Hearers
      <4> QED BY <4>1 DEF Served, Passed
    <3>2. CASE n = msg.src /\ Key(msg) \in router[x].seen
      <4>1. ~Awaits(x, k)
        BY <1>1, <1>3, <2>2, <3>2 DEF Awaits, Done
      <4>2. delivered'[x][k] = delivered[x][k]
        BY <1>9, <2>2, <3>2
      <4> QED BY <2>0, <4>1, <4>2, ServedStep
    <3>3. CASE n = msg.src /\ Key(msg) \notin router[x].seen
      <4> SUFFICES ASSUME k.dest = "all", MinHop(k) > 0 PROVE Awaits(x, k)'
        BY DEF Served
      <4>1. x # msg.src
        <5>1. <<n, x>> \in scenario.links /\ scenario \in Scenarios
          BY <3>0 DEF Hearers, MInv, Shapes
        <5>2. <<n, x>>[1] # <<n, x>>[2]
          BY <5>1, MeshAssumption
        <5> QED BY <3>3, <5>2
      <4>2. Rebroadcasts(x, p)
        BY <1>4, <1>5, <2>2, <3>3, <4>1 DEF Rebroadcasts
      <4>3. Holds(router'[x].pending, k) /\ Key(k) \notin router'[x].heard
        BY <1>9, <2>2, <3>3, <4>2
      <4>4. Done(mac'[k.src].queue, air'[k.src], unsent', k)
        BY <1>8, <2>2, <3>3
      <4> QED BY <4>3, <4>4 DEF Awaits
    <3> QED BY <3>1, <3>2, <3>3
  <2> QED BY <2>1, <2>2
<1> QED BY <1>1, <1>8, <1>10, <1>11 DEF Neighbours

\* Nothing of what counts changed.
LEMMA QuietN ==
    ASSUME MInv, Neighbours, UNCHANGED <<scenario, router, air, unsent, delivered, forwarded>>,
           \A x \in Nodes : mac'[x].queue = mac[x].queue
    PROVE  Neighbours'
<1>1. \A k \in scenario.messages : k.src \in Nodes
  BY Messages DEF MInv, Shapes, AllMessages
<1>2. \A x \in Nodes : CarriedBy(x)'
  BY DEF Neighbours, CarriedBy
<1>3. \A k \in scenario.messages : Source(k)'
  BY <1>1 DEF Neighbours, Source
<1>4. ASSUME NEW x \in Nodes, NEW k \in scenario.messages PROVE Served(x, k)'
  <2>1. Awaits(x, k) => Awaits(x, k)'
    BY <1>1 DEF Awaits
  <2>2. Served(x, k)
    BY DEF Neighbours
  <2> QED BY <2>1, <2>2, ServedStep
<1> QED BY <1>2, <1>3, <1>4 DEF Neighbours

LEMMA CountsGrow ==
    ASSUME RInv, [Next]_vars, Calm'
    PROVE  Calm
<1>1. refused \in Nat /\ lapses \in Nat
  BY DEF RInv
<1>2. refused' \in {refused, refused + 1} /\ lapses' \in {lapses, lapses + 1}
  <2>1. CASE \E m \in unsent : Send(m)
    BY <2>1 DEF Send
  <2>2. CASE \E n \in Members, ready \in BOOLEAN, busy \in BOOLEAN, waited \in BOOLEAN :
                ProcessTx(n, busy, ready, waited)
    BY <2>2 DEF ProcessTx, PollRouter
  <2>3. CASE \E n \in Members, ready \in BOOLEAN : ForceTx(n, ready)
    BY <2>3 DEF ForceTx, PollRouter
  <2>4. CASE \E n \in Members : EndOfTx(n)
    BY <2>4 DEF EndOfTx
  <2>5. CASE \E n \in Members : WindowMoves(n)
    BY <2>5 DEF WindowMoves, countVars
  <2>6. CASE Lapse
    BY <2>6 DEF Lapse, countVars
  <2>7. CASE UNCHANGED vars
    BY <2>7 DEF vars, countVars
  <2> QED BY <2>1, <2>2, <2>3, <2>4, <2>5, <2>6, <2>7 DEF Next
<1> QED BY <1>1, <1>2 DEF Calm

LEMMA ProcessTxN ==
    ASSUME MInv, RInv, Calm, Neighbours, NEW n \in Nodes, NEW busy \in BOOLEAN,
           NEW ready \in BOOLEAN, NEW waited \in BOOLEAN, ProcessTx(n, busy, ready, waited),
           refused' = 0
    PROVE  Neighbours'
<1>1. PICK q \in Macs : q = Queued(n, ready)
  BY QueuedKeeps
<1>2. PICK d \in CanTransmit(q, busy, waited) :
        IF d.decision = "TransmitNow" /\ d.mac.queue # <<>>
        THEN Transmits(n, d.mac)
        ELSE KeepsQuiet(n, d.mac)
  BY <1>1 DEF ProcessTx
<1>3. PICK m \in Macs : m = d.mac /\ m.queue = q.queue
  BY <1>2, CanTransmitKeeps
<1>4. (m.queue # <<>> /\ Transmits(n, m)) \/ KeepsQuiet(n, m)
  BY <1>2, <1>3
<1>5. PollRouter(n, ready) /\ UNCHANGED <<scenario, unsent, delivered, missed, lapses>>
  BY DEF ProcessTx
<1> QED BY <1>1, <1>3, <1>4, <1>5, PolledN

LEMMA ForceTxN ==
    ASSUME MInv, RInv, Calm, Neighbours, NEW n \in Nodes, NEW ready \in BOOLEAN,
           ForceTx(n, ready), refused' = 0
    PROVE  Neighbours'
<1>1. PICK m \in Macs : m = Queued(n, ready) /\ m.queue = Queued(n, ready).queue
  BY QueuedKeeps
<1>2. (m.queue # <<>> /\ Transmits(n, m)) \/ KeepsQuiet(n, m)
  BY <1>1 DEF ForceTx
<1>3. PollRouter(n, ready) /\ UNCHANGED <<scenario, unsent, delivered, missed, lapses>>
  BY DEF ForceTx
<1> QED BY <1>1, <1>2, <1>3, PolledN

LEMMA WindowN ==
    ASSUME MInv, Neighbours, NEW n \in Nodes, WindowMoves(n)
    PROVE  Neighbours'
<1>1. UNCHANGED <<scenario, router, air, unsent, delivered, forwarded>>
  BY DEF WindowMoves, countVars
<1>2. mac \in [Nodes -> Macs] /\ mac' = [mac EXCEPT ![n] = Pruned(mac[n])]
  BY DEF WindowMoves, MInv, Shapes
<1>3. Pruned(mac[n]).queue = mac[n].queue
  BY <1>2 DEF Pruned, Macs
<1>4. \A x \in Nodes : mac'[x].queue = mac[x].queue
  BY <1>2, <1>3
<1> QED BY <1>1, <1>4, QuietN

LEMMA NextNInv ==
    ASSUME MInv, RInv, NInv, [Next]_vars
    PROVE  NInv'
<1>0. Members \subseteq Nodes
  BY Mutual DEF MInv, Shapes
<1>1. IdsTellApart'
  <2>1. scenario' = scenario
    BY DEF Next, Send, ProcessTx, ForceTx, EndOfTx, WindowMoves, Lapse, vars
  <2> QED BY <2>1 DEF NInv, IdsTellApart
<1>2. ASSUME Calm' PROVE Neighbours'
  <2>1. Calm /\ IdsTellApart /\ Neighbours /\ refused' = 0 /\ lapses' = 0
    BY <1>2, CountsGrow DEF NInv, Calm
  <2>2. CASE \E m \in unsent : Send(m)
    BY <2>1, <2>2, SendN
  <2>3. CASE \E n \in Members, ready \in BOOLEAN, busy \in BOOLEAN, waited \in BOOLEAN :
                ProcessTx(n, busy, ready, waited)
    BY <1>0, <2>1, <2>3, ProcessTxN
  <2>4. CASE \E n \in Members, ready \in BOOLEAN : ForceTx(n, ready)
    BY <1>0, <2>1, <2>4, ForceTxN
  <2>5. CASE \E n \in Members : EndOfTx(n)
    BY <1>0, <2>1, <2>5, EndOfTxN
  <2>6. CASE \E n \in Members : WindowMoves(n)
    BY <1>0, <2>1, <2>6, WindowN
  <2>7. CASE Lapse
    BY <2>1, <2>7 DEF Lapse, Calm
  <2>8. CASE UNCHANGED vars
    BY <2>1, <2>8, QuietN DEF vars, nodeVars, countVars
  <2> QED BY <2>2, <2>3, <2>4, <2>5, <2>6, <2>7, <2>8 DEF Next
<1> QED BY <1>1, <1>2 DEF NInv

LEMMA InitNInv == Init /\ IdsTellApart => NInv
<1> SUFFICES ASSUME Init, IdsTellApart PROVE Neighbours
  BY DEF NInv
<1>0. \A k \in scenario.messages : k \in AllMessages /\ k.src \in Nodes
  BY Messages DEF Init, AllMessages
<1>1. \A x \in Nodes : \A k \in AllMessages : delivered[x][k] = 0
  BY DEF Init, None
<1>2. \A x \in Nodes : /\ mac[x].queue = <<>> /\ air[x] = {} /\ router[x].pending = <<>>
                       /\ router[x].heard = {}
  BY DEF Init, NewMac, NewRouter
<1>3. ASSUME NEW x \in Nodes PROVE CarriedBy(x)
  <2>1. PICK S, W : S = MaySend(scenario.messages, x, forwarded[x]) /\ W = MayWait(scenario.messages, x)
    OBVIOUS
  <2>2. <<>> \in Seq(S) /\ <<>> \in Seq(W)
    OBVIOUS
  <2>3. mac[x].queue \in Seq(S) /\ air[x] \subseteq S
    BY <1>2, <2>2
  <2>4. router[x].pending \in Seq(W) /\ router[x].heard \subseteq router[x].seen
    BY <1>2, <2>2
  <2>5. \A m \in AllMessages : ~(delivered[x][m] > 0)
    BY <1>1
  <2> QED BY <2>1, <2>3, <2>4, <2>5, Zenon DEF CarriedBy
<1>4. \A k \in scenario.messages : Source(k)
  BY <1>0, <1>2 DEF Source, SourceOK, Holds
<1>5. \A x \in Nodes, k \in scenario.messages : Served(x, k)
  BY <1>0, <1>1 DEF Served
<1> QED BY <1>3, <1>4, <1>5 DEF Neighbours

-----------------------------------------------------------------------------
(* A network without loops is a tree, whichever node is its root *)

Ends(links) == {l[1] : l \in links}

\* links is a tree with the root s: up leads one link nearer to s, and lev
\* counts the links.
Rooted(links, s, up, lev) ==
    /\ s \in Ends(links) /\ lev \in [Ends(links) -> Nat] /\ lev[s] = 0
    /\ \A n \in Ends(links) \ {s} :
          up[n] \in Ends(links) /\ <<up[n], n>> \in links /\ lev[n] = lev[up[n]] + 1
    /\ \A x, y : <<x, y>> \in links =>
          /\ x \in Ends(links) /\ y \in Ends(links)
          /\ (y # s /\ up[y] = x) \/ (x # s /\ up[x] = y)
    /\ \A k \in Nat : \A n \in Within(links, s, k) : n \in Ends(links) /\ lev[n] <= k

Mirrored(links) ==
    links \in SUBSET (Nodes \X Nodes) /\ \A l \in links : <<l[2], l[1]>> \in links /\ l[1] # l[2]

LEMMA EndsFacts ==
    ASSUME NEW links, Mirrored(links)
    PROVE  /\ Ends(links) \in SUBSET Nodes /\ IsFiniteSet(Ends(links)) /\ IsFiniteSet(links)
           /\ \A x, y : <<x, y>> \in links =>
                 <<y, x>> \in links /\ x # y /\ x \in Ends(links) /\ y \in Ends(links)
<1>1. Ends(links) \in SUBSET Nodes
  BY DEF Ends, Mirrored
<1>2. IsFiniteSet(Ends(links)) /\ IsFiniteSet(links)
  <2>1. IsFiniteSet(Nodes) /\ IsFiniteSet(Nodes \X Nodes)
    BY MeshAssumption, FS_Product
  <2> QED BY <1>1, <2>1, FS_Subset DEF Mirrored
<1>3. ASSUME NEW x, NEW y, <<x, y>> \in links
      PROVE  <<y, x>> \in links /\ x # y /\ x \in Ends(links) /\ y \in Ends(links)
  <2>1. <<y, x>> \in links /\ x # y
    <3>1. PICK l \in links : l = <<x, y>>
      BY <1>3
    <3>2. <<l[2], l[1]>> \in links /\ l[1] # l[2]
      BY DEF Mirrored
    <3> QED BY <3>1, <3>2
  <2>2. \A l \in links : l[1] \in Ends(links)
    BY DEF Ends
  <2>3. <<x, y>>[1] = x /\ <<y, x>>[1] = y
    OBVIOUS
  <2> QED BY <1>3, <2>1, <2>2, <2>3
<1> QED BY <1>1, <1>2, <1>3

\* Nearest to the source is the source.
LEMMA WithinNone ==
    ASSUME NEW links \in SUBSET (Nodes \X Nodes), NEW src \in Nodes
    PROVE  Within(links, src, 0) = {src}
<1>1. Hops(Balls(links, src, 0), links, src, 0)
  BY BallsFacts
<1> QED BY <1>1 DEF Within, Hops

\* What is at a distance is an end of a link.
LEMMA WithinEnds ==
    ASSUME NEW links, Mirrored(links), NEW s \in Ends(links), NEW k \in Nat
    PROVE  Within(links, s, k) \subseteq Ends(links)
<1>1. s \in Nodes /\ links \in SUBSET (Nodes \X Nodes)
  BY EndsFacts DEF Mirrored
<1> DEFINE T == {i \in Nat : Within(links, s, i) \subseteq Ends(links)}
<1>2. 0 \in T
  BY <1>1, WithinNone
<1>3. ASSUME NEW i \in T PROVE i + 1 \in T
  <2>1. Within(links, s, i + 1) = Spread(links, Within(links, s, i))
    BY <1>1, WithinFacts
  <2>2. ASSUME NEW l \in links PROVE l[2] \in Ends(links)
    <3>1. <<l[1], l[2]>> \in links
      <4>1. l \in Nodes \X Nodes
        BY <1>1
      <4> QED BY <4>1
    <3> QED BY <3>1, EndsFacts
  <2> QED BY <2>1, <2>2 DEF Spread
<1>4. T = Nat
  <2> HIDE DEF T
  <2>1. T \in SUBSET Nat
    BY DEF T
  <2> QED BY <1>2, <1>3, <2>1, SetInduction
<1> QED BY <1>4

\* Where every node is reached, there is a shortest way to each.
LEMMA Distances ==
    ASSUME NEW links, Mirrored(links), NEW s \in Ends(links), NEW far \in Nat,
           Ends(links) \subseteq Within(links, s, far)
    PROVE  \E lev \in [Ends(links) -> Nat] :
              \A n \in Ends(links), k \in Nat :
                  (n \in Within(links, s, lev[n])) /\ (n \in Within(links, s, k) => lev[n] <= k)
<1> DEFINE At(n) == {k \in Nat : n \in Within(links, s, k)}
           lev == [n \in Ends(links) |-> CHOOSE k \in At(n) : \A j \in At(n) : ~(j < k)]
<1>1. ASSUME NEW n \in Ends(links)
      PROVE  lev[n] \in At(n) /\ \A j \in At(n) : ~(j < lev[n])
  <2>1. At(n) \in SUBSET Nat /\ At(n) # {}
    OBVIOUS
  <2> HIDE DEF At
  <2>2. \E k \in At(n) : \A j \in At(n) : ~(j < k)
    BY <2>1, SmallestMember
  <2> QED BY <2>2
<1>2. lev \in [Ends(links) -> Nat]
  BY <1>1
<1>3. ASSUME NEW n \in Ends(links), NEW k \in Nat
      PROVE  (n \in Within(links, s, lev[n])) /\ (n \in Within(links, s, k) => lev[n] <= k)
  <2>1. PICK d \in Nat : d = lev[n]
    BY <1>2
  <2>2. d \in At(n) /\ \A j \in At(n) : ~(j < d)
    BY <1>1, <2>1
  <2> QED BY <2>1, <2>2
<1> HIDE DEF lev
<1> QED BY <1>2, <1>3

\* With twice as many pairs as nodes but one, the ways to the source are all
\* the links there are.
LEMMA TreeRooted ==
    ASSUME NEW links, Mirrored(links), NEW s \in Ends(links),
           Cardinality(links) = 2 * (Cardinality(Ends(links)) - 1),
           Ends(links) \subseteq Within(links, s, Cardinality(Ends(links)))
    PROVE  \E lev, up : Rooted(links, s, up, lev)
<1>1. PICK M \in SUBSET Nodes : M = Ends(links) /\ IsFiniteSet(M)
  BY EndsFacts
<1>2. PICK size \in Nat : size = Cardinality(M)
  BY <1>1, FS_CardinalityType
<1>3. PICK lev \in [M -> Nat] :
        \A n \in M, k \in Nat :
            (n \in Within(links, s, lev[n])) /\ (n \in Within(links, s, k) => lev[n] <= k)
  BY <1>1, <1>2, Distances
<1>4. links \in SUBSET (Nodes \X Nodes) /\ s \in Nodes /\ s \in M /\ IsFiniteSet(links)
  BY <1>1, EndsFacts DEF Mirrored
<1>5. lev[s] = 0
  <2>1. s \in Within(links, s, 0)
    BY <1>4, WithinNone
  <2>2. PICK d \in Nat : d = lev[s]
    BY <1>3, <1>4
  <2> QED BY <1>3, <1>4, <2>1, <2>2
<1>6. ASSUME NEW n \in M \ {s}
      PROVE  \E y \in M : <<y, n>> \in links /\ lev[n] = lev[y] + 1
  <2>1. PICK d \in Nat : d = lev[n]
    BY <1>3
  <2>2. n \in Within(links, s, d) /\ d # 0
    <3>1. n \in Within(links, s, d)
      BY <1>3, <2>1
    <3> QED BY <1>4, <3>1, WithinNone
  <2>3. PICK k \in Nat : d = k + 1
    BY <2>2
  <2>4. n \in Spread(links, Within(links, s, k)) /\ n \notin Within(links, s, k)
    <3>1. Within(links, s, k + 1) = Spread(links, Within(links, s, k))
      BY <1>4, WithinFacts
    <3>2. n \notin Within(links, s, k)
      <4> SUFFICES ASSUME n \in Within(links, s, k) PROVE FALSE
        OBVIOUS
      <4>1. lev[n] <= k
        BY <1>3
      <4> QED BY <2>1, <2>3, <4>1
    <3> QED BY <2>2, <2>3, <3>1, <3>2
  <2>5. PICK y : y \in Within(links, s, k) /\ <<y, n>> \in links
    <3>1. PICK l \in links : l[1] \in Within(links, s, k) /\ l[2] = n
      BY <2>4 DEF Spread
    <3>2. l = <<l[1], l[2]>>
      <4>1. l \in Nodes \X Nodes
        BY <1>4
      <4> QED BY <4>1
    <3> QED BY <3>1, <3>2
  <2>6. y \in M
    BY <1>1, <2>5, EndsFacts
  <2>7. PICK e \in Nat : e = lev[y] /\ e <= k
    BY <1>3, <2>5, <2>6
  <2>8. ~(e < k)
    <3> SUFFICES ASSUME e + 1 <= k PROVE FALSE
      OBVIOUS
    <3>1. Within(links, s, e + 1) = Spread(links, Within(links, s, e))
      BY <1>4, WithinFacts
    <3>2. y \in Within(links, s, e)
      BY <1>3, <2>6, <2>7
    <3>3. n \in Within(links, s, e + 1)
      BY <2>5, <3>1, <3>2 DEF Spread
    <3>4. d <= e + 1
      BY <1>3, <2>1, <3>3
    <3> QED BY <2>3, <3>4
  <2>9. e = k
    BY <2>7, <2>8
  <2>10. lev[n] = lev[y] + 1
    BY <2>1, <2>3, <2>7, <2>9
  <2> QED BY <2>5, <2>6, <2>10
<1>7. PICK up \in [M \ {s} -> M] :
        \A n \in M \ {s} : <<up[n], n>> \in links /\ lev[n] = lev[up[n]] + 1
  <2>1. PICK up : up = [n \in M \ {s} |->
                         CHOOSE y \in M : <<y, n>> \in links /\ lev[n] = lev[y] + 1]
    OBVIOUS
  <2>2. ASSUME NEW n \in M \ {s}
        PROVE  up[n] \in M /\ <<up[n], n>> \in links /\ lev[n] = lev[up[n]] + 1
    BY <1>6, <2>1
  <2> QED BY <2>1, <2>2
<1> DEFINE Down == {<<up[n], n>> : n \in M \ {s}}
           Back == {<<n, up[n]>> : n \in M \ {s}}
<1>8. /\ IsFiniteSet(Down) /\ Cardinality(Down) = size - 1
      /\ IsFiniteSet(Back) /\ Cardinality(Back) = size - 1
  <2>1. IsFiniteSet(M \ {s}) /\ Cardinality(M \ {s}) = size - 1
    BY <1>1, <1>2, <1>4, FS_RemoveElement
  <2>2. ExistsBijection(M \ {s}, Down)
    <3>1. PICK f : f = [n \in M \ {s} |-> <<up[n], n>>]
      OBVIOUS
    <3>2. f \in [M \ {s} -> Down] /\ IsInjective(f)
      BY <3>1 DEF IsInjective
    <3>3. \A l \in Down : \E n \in M \ {s} : f[n] = l
      BY <3>1
    <3> QED BY <3>2, <3>3 DEF ExistsBijection, Bijection, Injection, Surjection
  <2>3. ExistsBijection(M \ {s}, Back)
    <3>1. PICK f : f = [n \in M \ {s} |-> <<n, up[n]>>]
      OBVIOUS
    <3>2. f \in [M \ {s} -> Back] /\ IsInjective(f)
      BY <3>1 DEF IsInjective
    <3>3. \A l \in Back : \E n \in M \ {s} : f[n] = l
      BY <3>1
    <3> QED BY <3>2, <3>3 DEF ExistsBijection, Bijection, Injection, Surjection
  <2> QED BY <2>1, <2>2, <2>3, FS_Bijection
<1>9. Down \cap Back = {}
  <2> SUFFICES ASSUME NEW x \in M \ {s}, NEW y \in M \ {s}, <<up[x], x>> = <<y, up[y]>>
               PROVE  FALSE
    OBVIOUS
  <2>1. PICK i \in Nat, j \in Nat : i = lev[x] /\ j = lev[y]
    BY <1>3
  <2>2. up[x] = y /\ up[y] = x
    OBVIOUS
  <2>3. i = j + 1 /\ j = i + 1
    BY <1>7, <2>1, <2>2
  <2> QED BY <2>3
<1>10. Down \cup Back = links
  <2>1. Down \cup Back \in SUBSET links
    <3>1. \A n \in M \ {s} : <<up[n], n>> \in links /\ <<n, up[n]>> \in links
      BY <1>7, EndsFacts
    <3> QED BY <3>1
  <2>2. Cardinality(Down \cap Back) = 0
    BY <1>9, FS_EmptySet
  <2>3. Cardinality(Down \cup Back) = 2 * (size - 1)
    <3>1. Cardinality(Down \cup Back) =
            Cardinality(Down) + Cardinality(Back) - Cardinality(Down \cap Back)
      BY <1>8, FS_Union
    <3> QED BY <1>8, <2>2, <3>1
  <2>4. Cardinality(links) = 2 * (size - 1)
    BY <1>1, <1>2
  <2> QED BY <1>4, <2>1, <2>3, <2>4, FS_Subset
<1>11. ASSUME NEW x, NEW y, <<x, y>> \in links
       PROVE  x \in M /\ y \in M /\ ((y # s /\ up[y] = x) \/ (x # s /\ up[x] = y))
  BY <1>1, <1>10, <1>11, EndsFacts
<1>12. ASSUME NEW k \in Nat, NEW n \in Within(links, s, k) PROVE n \in M /\ lev[n] <= k
  BY <1>1, <1>3, WithinEnds
<1> QED BY <1>1, <1>3, <1>4, <1>5, <1>7, <1>11, <1>12 DEF Rooted

-----------------------------------------------------------------------------
(* A broadcast in a network without loops *)

\* The packets of m have as many hops left as it takes, d links from the source.
Enough(m, d) == {p \in Packets : p.msg = m => p.hop + d >= MinHop(m)}

Got(n, m) == IF n = m.src THEN m \notin unsent ELSE Key(m) \in router[n].seen

\* m itself until it is with the MAC layer of n.
Early(n, m) == {x \in {m} : ~Got(n, m) \/ Holds(router[n].pending, m)}

Finished(n, m) == Done(mac[n].queue, air[n], Early(n, m), m)

MacOK(n, m, d) ==
    /\ SourceOK(mac[n].queue, air[n], Early(n, m), m)
    /\ mac[n].queue \in Seq(Enough(m, d)) /\ air[n] \subseteq Enough(m, d)

RouterOK(n, m, d) ==
    /\ router[n].pending \in Seq(Enough(m, d))
    /\ Holds(router[n].pending, m) => Got(n, m) /\ n # m.src /\ Key(m) \notin router[n].heard
    /\ Got(n, m) /\ n # m.src => delivered[n][m] > 0

\* m is on its way from y to n, or it has come.
Edge(y, n, m, k) == IF Finished(y, m) THEN k <= MinHop(m) => Got(n, m) ELSE ~Got(n, m)

TreeOK(m, up, lev) ==
    /\ \A n \in Members : MacOK(n, m, lev[n]) /\ RouterOK(n, m, lev[n])
    /\ \A n \in Members \ {m.src} : Edge(up[n], n, m, lev[up[n]])

Perfect == missed = 0 /\ Calm

TInv ==
    Perfect =>
        \A m \in scenario.messages : \A up, lev :
            m.dest = "all" /\ Rooted(scenario.links, m.src, up, lev) => TreeOK(m, up, lev)

\* For m, nothing changes at n.
Same(n, m, d) ==
    /\ MacOK(n, m, d)' /\ RouterOK(n, m, d)'
    /\ Got(n, m)' <=> Got(n, m)
    /\ Finished(n, m)' <=> Finished(n, m)

LEMMA EndsAreMembers == Members = Ends(scenario.links)
  BY DEF Members, Ends

LEMMA TreeSame ==
    ASSUME UNCHANGED scenario, NEW m, NEW up, NEW lev, Rooted(scenario.links, m.src, up, lev),
           TreeOK(m, up, lev), \A n \in Members : Same(n, m, lev[n])
    PROVE  TreeOK(m, up, lev)'
<1>1. Members' = Members
  BY DEF Members
<1>2. \A n \in Members : (MacOK(n, m, lev[n]) /\ RouterOK(n, m, lev[n]))'
  BY DEF Same
<1>3. ASSUME NEW n \in Members \ {m.src} PROVE Edge(up[n], n, m, lev[up[n]])'
  <2>1. up[n] \in Members
    BY EndsAreMembers DEF Rooted
  <2>2. Edge(up[n], n, m, lev[up[n]])
    BY DEF TreeOK
  <2>3. (Finished(up[n], m)' <=> Finished(up[n], m)) /\ (Got(n, m)' <=> Got(n, m))
    BY <2>1 DEF Same
  <2>4. MinHop(m)' = MinHop(m)
    BY DEF MinHop
  <2> QED BY <2>2, <2>3, <2>4 DEF Edge
<1> QED BY <1>1, <1>2, <1>3 DEF TreeOK

\* Nothing changes at all.
LEMMA NodeStays ==
    ASSUME NEW n, NEW m, NEW d, MacOK(n, m, d), RouterOK(n, m, d),
           mac'[n].queue = mac[n].queue, router'[n] = router[n], air'[n] = air[n],
           n = m.src => (m \in unsent' <=> m \in unsent), delivered'[n][m] = delivered[n][m]
    PROVE  Same(n, m, d)
<1>1. Got(n, m)' <=> Got(n, m)
  BY DEF Got
<1>2. Early(n, m)' = Early(n, m)
  BY <1>1 DEF Early
<1>3. Enough(m, d)' = Enough(m, d)
  BY DEF Enough, MinHop, Packets
<1> QED BY <1>1, <1>2, <1>3 DEF Same, MacOK, RouterOK, Finished

\* The first packet of a queue leaves it for the air.
LEMMA SourceSendsBack ==
    ASSUME NEW q \in Seq(Packets), NEW u, NEW m, q # <<>>,
           Done(Tail(q), {Head(q)}, u, m)
    PROVE  Done(q, {}, u, m)
<1>1. PICK t \in Seq(Packets), h \in Packets : t = Tail(q) /\ h = Head(q)
  BY HeadTailProperties
<1>2. /\ Len(q) \in Nat \ {0} /\ Len(t) = Len(q) - 1 /\ h = q[1]
      /\ \A i \in 1..Len(t) : t[i] = q[i + 1]
  BY <1>1, HeadTailProperties, EmptySeq
<1>3. ASSUME NEW i \in 1..Len(q), q[i].msg = m PROVE FALSE
  <2>1. CASE i = 1
    BY <1>1, <1>2, <1>3, <2>1 DEF Done
  <2>2. CASE i # 1
    <3>1. i - 1 \in 1..Len(t) /\ t[i - 1] = q[i]
      BY <1>2, <2>2
    <3> QED BY <1>1, <1>3, <3>1 DEF Done, Holds
  <2> QED BY <2>1, <2>2
<1> QED BY <1>3 DEF Done, Holds

\* What a poll does to m at n.
LEMMA PollT ==
    ASSUME MInv, RInv, Calm, Neighbours, NEW n \in Nodes, NEW ready \in BOOLEAN,
           PollRouter(n, ready), refused' = 0, UNCHANGED <<unsent, delivered>>,
           NEW m \in scenario.messages, NEW d \in Nat, MacOK(n, m, d), RouterOK(n, m, d)
    PROVE  /\ Queued(n, ready).queue \in Seq(Enough(m, d))
           /\ SourceOK(Queued(n, ready).queue, air[n], Early(n, m)', m)
           /\ Done(Queued(n, ready).queue, air[n], Early(n, m)', m) <=> Finished(n, m)
           /\ Got(n, m)' <=> Got(n, m)
           /\ RouterOK(n, m, d)'
           /\ \A x \in Nodes : x # n => router'[x] = router[x]
<1>1. PICK E \in SUBSET Packets : E = Enough(m, d)
  BY DEF Enough
<1>2. /\ router \in [Nodes -> Routers] /\ router[n] \in Routers /\ router[n].pending \in Seq(E)
      /\ mac[n] \in Macs /\ mac[n].queue \in Seq(E) /\ refused \in Nat
  BY <1>1 DEF MInv, Shapes, RInv, RouterOK, MacOK
<1>3. Enough(m, d)' = E
  BY <1>1 DEF Enough, MinHop, Packets
<1>4. m \in AllMessages
  BY DEF MInv, Shapes, AllMessages
<1>5. CASE ~HandsOut(n, ready)
  <2>1. router' = router /\ Queued(n, ready) = mac[n]
    BY <1>5 DEF PollRouter, Forwards, Queued
  <2>2. (Got(n, m)' <=> Got(n, m)) /\ Early(n, m)' = Early(n, m)
    BY <2>1 DEF Got, Early
  <2> QED BY <1>1, <1>2, <1>3, <2>1, <2>2 DEF RouterOK, MacOK, Finished
<1>6. CASE HandsOut(n, ready)
  <2>1. PICK old \in Seq(E) : old = router[n].pending
    BY <1>2
  <2>2. PICK h \in E, t \in Seq(E) : h = Head(old) /\ t = Tail(old)
    BY <1>6, <2>1, HeadTailProperties DEF HandsOut
  <2>3. /\ Len(old) \in Nat \ {0} /\ Len(t) = Len(old) - 1 /\ h = old[1]
        /\ \A i \in 1..Len(t) : i + 1 \in 1..Len(old) /\ t[i] = old[i + 1]
    BY <1>6, <2>1, <2>2, HeadTailProperties, EmptySeq DEF HandsOut
  <2>4. router' = [router EXCEPT ![n] = PopPending(router[n])]
    BY <1>6 DEF PollRouter
  <2>5. /\ router'[n].pending = t /\ router'[n].heard = router[n].heard \ {Key(h)}
        /\ router'[n].seen = router[n].seen
        /\ \A x \in Nodes : x # n => router'[x] = router[x]
    BY <1>2, <2>1, <2>2, <2>4 DEF PopPending, Routers
  <2>6. h.msg \in AllMessages /\ h \in Packets /\ Key(h) = Key(h.msg)
    BY <1>1, KeyOfMessage DEF Packets
  <2>7. Got(n, m)' <=> Got(n, m)
    BY <2>5 DEF Got
  <2>8. Holds(t, m) => Holds(old, m)
    BY <2>3 DEF Holds
  <2>9. RouterOK(n, m, d)'
    <3>1. Holds(t, m) => Got(n, m) /\ n # m.src /\ Key(m) \notin router[n].heard
      BY <2>1, <2>8 DEF RouterOK
    <3>2. Key(m)' = Key(m)
      BY DEF Key
    <3> QED BY <1>3, <2>5, <2>7, <3>1, <3>2 DEF RouterOK
  <2>10. ~Suppressed(router[n]) => Queued(n, ready).queue = Append(mac[n].queue, h)
    <3> SUFFICES ASSUME ~Suppressed(router[n]) PROVE Queued(n, ready).queue = Append(mac[n].queue, h)
      OBVIOUS
    <3>1. Forwards(n, ready) /\ HasRoom(mac[n])
      BY <1>2, <1>6 DEF Forwards, PollRouter
    <3>2. OnWire(h) = h
      <4>1. router[n].pending \in Seq(FitsIn(scenario.links, n))
        BY DEF RInv, NodeGood
      <4>2. Head(router[n].pending) \in FitsIn(scenario.links, n)
        BY <1>6, <4>1, HeadTailProperties DEF HandsOut
      <4> QED BY <2>1, <2>2, <4>2, OnWireSame
    <3>3. Queued(n, ready) = QueueTx(mac[n], h)
      BY <2>1, <2>2, <3>1, <3>2 DEF Queued
    <3> QED BY <1>2, <3>1, <3>3 DEF QueueTx, Macs
  <2>11. CASE h.msg # m
    <3>1. Holds(old, m) => Holds(t, m)
      <4> SUFFICES ASSUME NEW i \in 1..Len(old), old[i].msg = m PROVE Holds(t, m)
        BY DEF Holds
      <4>1. i # 1
        BY <2>3, <2>11
      <4>2. i - 1 \in 1..Len(t) /\ t[i - 1] = old[i]
        BY <2>3, <4>1
      <4> QED BY <4>2 DEF Holds
    <3>2. Early(n, m)' = Early(n, m)
      BY <2>1, <2>5, <2>7, <2>8, <3>1 DEF Early
    <3>3. CASE Suppressed(router[n])
      <4>1. Queued(n, ready) = mac[n]
        BY <3>3 DEF Queued, Forwards
      <4> QED BY <1>1, <1>2, <2>5, <2>7, <2>9, <3>2, <4>1 DEF MacOK, Finished
    <3>4. CASE ~Suppressed(router[n])
      <4>1. PICK q \in Seq(Packets) : q = mac[n].queue
        BY <1>2 DEF Macs
      <4>2. SourceOK(q, air[n], Early(n, m), m) => SourceOK(Append(q, h), air[n], Early(n, m), m)
        BY <2>6, <2>11, SourceForwards
      <4>3. Holds(Append(q, h), m) <=> Holds(q, m)
        BY <2>6, <2>11, HoldsAppend
      <4>4. Done(Append(q, h), air[n], Early(n, m), m) <=> Done(q, air[n], Early(n, m), m)
        BY <4>3 DEF Done
      <4>5. Append(q, h) \in Seq(E)
        BY <1>2, <4>1, AppendProperties
      <4> QED BY <1>1, <2>5, <2>7, <2>9, <2>10, <3>2, <3>4, <4>1, <4>2, <4>4, <4>5 DEF MacOK, Finished
    <3> QED BY <3>3, <3>4
  <2>12. CASE h.msg = m
    <3>1. Holds(old, m) /\ 1 \in 1..Len(old)
      <4>1. 1 \in 1..Len(old)
        BY <2>3
      <4> QED BY <2>3, <2>12, <4>1 DEF Holds
    <3>2. ~Suppressed(router[n])
      BY <2>1, <2>2, <2>6, <2>12, <3>1 DEF RouterOK, Suppressed
    <3>3. ~Holds(t, m)
      <4> SUFFICES ASSUME NEW i \in 1..Len(t), t[i].msg = m PROVE FALSE
        BY DEF Holds
      <4>1. i + 1 \in 1..Len(old) /\ old[i + 1].msg = m
        BY <2>3
      <4>2. old[i + 1] \in Packets /\ Key(old[i + 1]) = Key(m)
        BY <1>1, <4>1, KeyOfMessage
      <4>3. Key(old[1]) = Key(old[i + 1])
        BY <2>3, <2>6, <2>12, <4>2
      <4>4. i + 1 = 1
        BY <2>1, <3>1, <4>1, <4>3 DEF MInv, Once
      <4> QED BY <4>4
    <3>4. m \in Early(n, m) /\ Early(n, m)' = Early(n, m) \ {m}
      BY <2>1, <2>5, <2>7, <3>1, <3>3 DEF Early, RouterOK
    <3>5. PICK q \in Seq(Packets) : q = mac[n].queue
      BY <1>2 DEF Macs
    <3>6. SourceOK(Append(q, h), air[n], Early(n, m) \ {m}, m)
      BY <2>6, <2>12, <3>4, <3>5, SourceStarts DEF MacOK
    <3>7. Holds(Append(q, h), m)
      BY <2>6, <2>12, HoldsAppend
    <3>8. ~Done(Append(q, h), air[n], Early(n, m)', m) /\ ~Finished(n, m)
      BY <3>4, <3>7 DEF Done, Finished
    <3>9. Append(q, h) \in Seq(E)
      BY <1>2, <3>5, AppendProperties
    <3> QED BY <1>1, <2>5, <2>7, <2>9, <2>10, <3>2, <3>4, <3>5, <3>6, <3>8, <3>9
  <2> QED BY <2>11, <2>12
<1> QED BY <1>5, <1>6

LEMMA PolledT ==
    ASSUME MInv, RInv, Calm, Neighbours, NEW n \in Nodes, NEW ready \in BOOLEAN,
           PollRouter(n, ready), refused' = 0,
           NEW mm \in Macs, mm.queue = Queued(n, ready).queue,
           \/ mm.queue # <<>> /\ air[n] = {} /\ Transmits(n, mm)
           \/ KeepsQuiet(n, mm),
           UNCHANGED <<scenario, unsent, delivered>>,
           NEW m \in scenario.messages, NEW x \in Nodes, NEW d \in Nat,
           MacOK(x, m, d), RouterOK(x, m, d)
    PROVE  Same(x, m, d)
<1>1. /\ mac \in [Nodes -> Macs] /\ air \in [Nodes -> SUBSET Packets]
      /\ Enough(m, d) \in SUBSET Packets /\ Enough(m, d)' = Enough(m, d)
  BY DEF MInv, Shapes, Enough, MinHop, Packets
<1>2. PICK Q \in Seq(Packets) : Q = mm.queue
  BY DEF Macs
<1>3. CASE x # n
  <2>1. mac'[x] = mac[x] /\ air'[x] = air[x]
    BY <1>1, <1>3 DEF Transmits, KeepsQuiet
  <2>2. router'[x] = router[x]
    BY <1>3 DEF PollRouter, MInv, Shapes
  <2> QED BY <2>1, <2>2, NodeStays
<1>4. CASE x = n
  <2>1. /\ Q \in Seq(Enough(m, d))
        /\ SourceOK(Q, air[n], Early(n, m)', m)
        /\ Done(Q, air[n], Early(n, m)', m) <=> Finished(n, m)
        /\ Got(n, m)' <=> Got(n, m)
        /\ RouterOK(n, m, d)'
    BY <1>2, <1>4, PollT
  <2>2. CASE KeepsQuiet(n, mm)
    <3>1. mac'[n].queue = Q /\ air'[n] = air[n]
      BY <1>1, <1>2, <2>2 DEF KeepsQuiet
    <3> QED BY <1>1, <1>4, <2>1, <3>1 DEF Same, MacOK, Finished
  <2>3. CASE mm.queue # <<>> /\ air[n] = {} /\ Transmits(n, mm)
    <3>1. mac'[n].queue = Tail(Q) /\ air'[n] = {Head(Q)}
      BY <1>1, <1>2, <2>3, StartTxQueue DEF Transmits
    <3>2. Tail(Q) \in Seq(Enough(m, d)) /\ {Head(Q)} \subseteq Enough(m, d)
      BY <1>2, <2>1, <2>3, HeadTailProperties
    <3>3. SourceOK(Tail(Q), {Head(Q)}, Early(n, m)', m)
      BY <1>2, <2>1, <2>3, SourceSends
    <3>4. Done(Tail(Q), {Head(Q)}, Early(n, m)', m) <=> Done(Q, {}, Early(n, m)', m)
      BY <1>2, <2>3, SourceSends, SourceSendsBack
    <3> QED BY <1>1, <1>4, <2>1, <2>3, <3>1, <3>2, <3>3, <3>4 DEF Same, MacOK, Finished
  <2> QED BY <2>2, <2>3
<1> QED BY <1>3, <1>4

LEMMA ProcessTxT ==
    ASSUME MInv, RInv, Calm, Neighbours, NEW n \in Nodes, NEW busy \in BOOLEAN,
           NEW ready \in BOOLEAN, NEW waited \in BOOLEAN, ProcessTx(n, busy, ready, waited),
           refused' = 0, NEW m \in scenario.messages, NEW x \in Nodes, NEW d \in Nat,
           MacOK(x, m, d), RouterOK(x, m, d)
    PROVE  Same(x, m, d)
<1>1. PICK q \in Macs : q = Queued(n, ready) /\ q.state = mac[n].state
  BY QueuedKeeps
<1>2. PICK e \in CanTransmit(q, busy, waited) :
        IF e.decision = "TransmitNow" /\ e.mac.queue # <<>>
        THEN Transmits(n, e.mac)
        ELSE KeepsQuiet(n, e.mac)
  BY <1>1 DEF ProcessTx
<1>3. PICK mm \in Macs : mm = e.mac /\ mm.queue = q.queue
  BY <1>2, CanTransmitKeeps
<1>4. e.decision = "TransmitNow" => air[n] = {}
  <2> SUFFICES ASSUME air[n] # {} PROVE e.decision # "TransmitNow"
    OBVIOUS
  <2>1. q.state = "Transmitting"
    BY <1>1 DEF MInv, AirMac, ProcessTx
  <2> QED BY <1>1, <1>2, <2>1, CanTransmitKeeps
<1>5. (mm.queue # <<>> /\ air[n] = {} /\ Transmits(n, mm)) \/ KeepsQuiet(n, mm)
  BY <1>2, <1>3, <1>4
<1>6. PollRouter(n, ready) /\ UNCHANGED <<scenario, unsent, delivered>>
  BY DEF ProcessTx
<1> QED BY <1>1, <1>3, <1>5, <1>6, PolledT

LEMMA ForceTxT ==
    ASSUME MInv, RInv, Calm, Neighbours, NEW n \in Nodes, NEW ready \in BOOLEAN,
           ForceTx(n, ready), refused' = 0,
           NEW m \in scenario.messages, NEW x \in Nodes, NEW d \in Nat,
           MacOK(x, m, d), RouterOK(x, m, d)
    PROVE  Same(x, m, d)
<1>1. PICK mm \in Macs : mm = Queued(n, ready) /\ mm.queue = Queued(n, ready).queue
  BY QueuedKeeps
<1>2. (mm.queue # <<>> /\ air[n] = {} /\ Transmits(n, mm)) \/ KeepsQuiet(n, mm)
  BY <1>1 DEF ForceTx
<1>3. PollRouter(n, ready) /\ UNCHANGED <<scenario, unsent, delivered>>
  BY DEF ForceTx
<1> QED BY <1>1, <1>2, <1>3, PolledT

\* The application of the source sends m, or another message.
LEMMA SendT ==
    ASSUME MInv, RInv, Calm, Neighbours, NEW k \in unsent, Send(k), refused' = 0,
           NEW m \in scenario.messages, NEW x \in Nodes, NEW d \in Nat, x = m.src => d = 0,
           MacOK(x, m, d), RouterOK(x, m, d)
    PROVE  /\ MacOK(x, m, d)' /\ RouterOK(x, m, d)'
           /\ x # m.src => Same(x, m, d)
           /\ Finished(x, m)' <=> Finished(x, m)
<1>1. k \in AllMessages /\ m \in AllMessages /\ k.src \in Nodes /\ MinHop(m) \in Nat
  BY Messages, MinHopType DEF MInv, Shapes, AllMessages
<1>2. PICK p \in Packets : p = OnWire(Packet(k))
  BY <1>1, PacketIsPacket
<1>3. p.msg = k /\ p.hop = MinHop(k)
  BY <1>1, <1>2, Messages DEF OnWire, Packet, MinHop
<1>4. /\ mac \in [Nodes -> Macs] /\ refused \in Nat
      /\ Enough(m, d) \in SUBSET Packets /\ Enough(m, d)' = Enough(m, d)
  BY DEF MInv, Shapes, RInv, Enough, MinHop, Packets
<1>5. /\ unsent' = unsent \ {k} /\ HasRoom(mac[k.src])
      /\ mac' = [mac EXCEPT ![k.src] = QueueTx(mac[k.src], p)]
      /\ UNCHANGED <<router, air, delivered>>
  BY <1>2, <1>4 DEF Send
<1>6. CASE x # k.src
  <2>1. mac'[x] = mac[x] /\ (x = m.src => (m \in unsent' <=> m \in unsent))
    BY <1>4, <1>5, <1>6
  <2> QED BY <1>5, <2>1, NodeStays DEF Same
<1>7. CASE x = k.src
  <2>1. PICK q \in Seq(Packets) : q = mac[x].queue
    BY <1>4 DEF Macs
  <2>2. mac'[x].queue = Append(q, p)
    BY <1>1, <1>4, <1>5, <1>7, <2>1 DEF QueueTx, Macs
  <2>3. CASE k # m
    <3>1. (Got(x, m)' <=> Got(x, m)) /\ Early(x, m)' = Early(x, m)
      BY <1>5, <2>3 DEF Got, Early
    <3>2. p \in Enough(m, d)
      BY <1>3, <2>3 DEF Enough
    <3>3. Append(q, p) \in Seq(Enough(m, d))
      BY <1>4, <2>1, <3>2, AppendProperties DEF MacOK
    <3>4. SourceOK(Append(q, p), air[x], Early(x, m), m)
      BY <1>3, <2>1, <2>3, SourceForwards DEF MacOK
    <3>5. Holds(Append(q, p), m) <=> Holds(q, m)
      BY <1>3, <2>3, HoldsAppend
    <3> QED BY <1>4, <1>5, <2>1, <2>2, <3>1, <3>3, <3>4, <3>5 DEF Same, MacOK, RouterOK, Finished, Done
  <2>4. CASE k = m
    <3>1. m \in unsent /\ m \notin unsent' /\ d = 0 /\ x = m.src
      BY <1>5, <1>7, <2>4
    <3>2. ~Holds(router[x].pending, m)
      BY <3>1 DEF RouterOK
    <3>3. m \in Early(x, m) /\ Early(x, m)' = Early(x, m) \ {m}
      BY <1>5, <3>1, <3>2 DEF Early, Got
    <3>4. SourceOK(Append(q, p), air[x], Early(x, m) \ {m}, m)
      BY <1>3, <2>1, <2>4, <3>3, SourceStarts DEF MacOK
    <3>5. Holds(Append(q, p), m)
      BY <1>3, <2>4, HoldsAppend
    <3>6. p \in Enough(m, d)
      BY <1>1, <1>3, <2>4, <3>1 DEF Enough
    <3>7. Append(q, p) \in Seq(Enough(m, d))
      BY <1>4, <2>1, <3>6, AppendProperties DEF MacOK
    <3>8. MacOK(x, m, d)'
      BY <1>4, <1>5, <2>2, <3>3, <3>4, <3>7 DEF MacOK
    <3>9. RouterOK(x, m, d)'
      BY <1>4, <1>5, <3>1, <3>2 DEF RouterOK, Got
    <3>10. ~Finished(x, m)' /\ ~Finished(x, m)
      BY <2>2, <3>3, <3>5 DEF Finished, Done
    <3> QED BY <3>1, <3>8, <3>9, <3>10
  <2> QED BY <2>3, <2>4
<1> QED BY <1>6, <1>7

LEMMA SendTree ==
    ASSUME MInv, RInv, Calm, Neighbours, NEW k \in unsent, Send(k), refused' = 0,
           NEW m \in scenario.messages, NEW up, NEW lev,
           Rooted(scenario.links, m.src, up, lev), TreeOK(m, up, lev)
    PROVE  TreeOK(m, up, lev)'
<1>1. Members' = Members /\ Members \subseteq Nodes /\ m.src \in Members
  BY Mutual, EndsAreMembers DEF Send, Members, MInv, Shapes, Rooted
<1>2. \A n \in Members : lev[n] \in Nat /\ (n = m.src => lev[n] = 0)
  BY EndsAreMembers DEF Rooted
<1>3. ASSUME NEW n \in Members
      PROVE  /\ MacOK(n, m, lev[n])' /\ RouterOK(n, m, lev[n])'
             /\ n # m.src => Same(n, m, lev[n])
             /\ Finished(n, m)' <=> Finished(n, m)
  BY <1>1, <1>2, SendT DEF TreeOK
<1>4. ASSUME NEW n \in Members \ {m.src} PROVE Edge(up[n], n, m, lev[up[n]])'
  <2>1. up[n] \in Members
    BY EndsAreMembers DEF Rooted
  <2>2. Edge(up[n], n, m, lev[up[n]])
    BY DEF TreeOK
  <2>3. (Finished(up[n], m)' <=> Finished(up[n], m)) /\ (Got(n, m)' <=> Got(n, m))
    BY <1>3, <2>1 DEF Same
  <2>4. MinHop(m)' = MinHop(m)
    BY DEF MinHop
  <2> QED BY <2>2, <2>3, <2>4 DEF Edge
<1> QED BY <1>1, <1>3, <1>4 DEF TreeOK

\* p of n is over and has come to the nodes of R.
Over(n, p, R) ==
    /\ Receive(R, p) /\ air' = [air EXCEPT ![n] = {}]
    /\ mac' = IF scenario.driver = "mac" THEN [mac EXCEPT ![n] = TxComplete(@)] ELSE mac
    /\ UNCHANGED <<scenario, unsent>>

\* What p does to a node that does not hear it, to one that knows its message,
\* and to one that does not.
Untouched(x) == router'[x] = router[x] /\ delivered'[x] = delivered[x]

Repeated(x, p) ==
    /\ router'[x].pending = router[x].pending /\ router'[x].seen = router[x].seen
    /\ router'[x].heard = router[x].heard \cup {Key(p)}
    /\ delivered'[x] = delivered[x]

Learnt(x, p) ==
    /\ router'[x].seen = router[x].seen \cup {Key(p)}
    /\ router'[x].heard = router[x].heard
    /\ Rebroadcasts(x, p) => router'[x].pending = Append(router[x].pending, OneHopLess(p))
    /\ ~Rebroadcasts(x, p) => router'[x].pending = router[x].pending
    /\ Delivers(x, p) => delivered'[x] = [delivered[x] EXCEPT ![p.msg] = @ + 1]
    /\ ~Delivers(x, p) => delivered'[x] = delivered[x]

LEMMA ReceivedAt ==
    ASSUME MInv, NEW n \in Nodes, NEW p \in air[n], NEW R \in SUBSET Nodes, Over(n, p, R),
           NEW x \in Nodes
    PROVE  /\ mac'[x].queue = mac[x].queue /\ air'[x] = IF x = n THEN {} ELSE air[x]
           /\ x \notin R => Untouched(x)
           /\ x \in R /\ Key(p) \in router[x].seen => Repeated(x, p)
           /\ x \in R /\ Key(p) \notin router[x].seen => Learnt(x, p)
<1>1. /\ mac \in [Nodes -> Macs] /\ air \in [Nodes -> SUBSET Packets] /\ router[x] \in Routers
      /\ p \in Packets /\ Key(p) \in Keys
  BY KeyOfMessage DEF MInv, Shapes
<1>2. mac'[x].queue = mac[x].queue /\ air'[x] = IF x = n THEN {} ELSE air[x]
  <2>1. TxComplete(mac[x]).queue = mac[x].queue
    BY <1>1 DEF TxComplete, Macs
  <2> QED BY <1>1, <2>1 DEF Over
<1>3. ASSUME x \notin R PROVE Untouched(x)
  BY <1>3 DEF Over, Receive, Untouched
<1>4. ASSUME x \in R, Key(p) \in router[x].seen PROVE Repeated(x, p)
  <2>1. router'[x] = Heard(router[x], p) /\ delivered'[x] = delivered[x]
    BY <1>4 DEF Over, Receive, ProcessIncoming, IsNew
  <2> QED BY <1>1, <2>1 DEF Heard, Routers, Repeated
<1>5. ASSUME x \in R, Key(p) \notin router[x].seen PROVE Learnt(x, p)
  <2>1. router'[x] = Waiting(Remembered(router[x], p), x, p)
    BY <1>5 DEF Over, Receive, ProcessIncoming, IsNew
  <2>2. PICK r \in Routers : r = Remembered(router[x], p)
    BY <1>1 DEF Remembered, Routers
  <2>3. /\ r.pending = router[x].pending /\ r.heard = router[x].heard
        /\ r.seen = router[x].seen \cup {Key(p)}
    BY <1>1, <2>2 DEF Remembered, Routers
  <2>4. /\ router'[x].seen = r.seen /\ router'[x].heard = r.heard
        /\ Rebroadcasts(x, p) => router'[x].pending = Append(r.pending, OneHopLess(p))
        /\ ~Rebroadcasts(x, p) => router'[x].pending = r.pending
    BY <2>1, <2>2 DEF Waiting, Routers
  <2>5. /\ Delivers(x, p) => delivered'[x] = [delivered[x] EXCEPT ![p.msg] = @ + 1]
        /\ ~Delivers(x, p) => delivered'[x] = delivered[x]
    BY <1>5 DEF Over, Receive, IsNew
  <2> QED BY <2>3, <2>4, <2>5 DEF Learnt
<1> QED BY <1>2, <1>3, <1>4, <1>5

LEMMA OneHopPacket ==
    ASSUME NEW p \in Packets
    PROVE  /\ OneHopLess(p) \in Packets /\ OneHopLess(p).msg = p.msg
           /\ p.hop > 0 => OneHopLess(p).hop = p.hop - 1
  BY SMTT(30) DEF OneHopLess, Packets

\* Another message changes nothing for m: its key is another.
LEMMA EndOfOther ==
    ASSUME MInv, RInv, IdsTellApart, Neighbours, NEW n \in Nodes, NEW p \in air[n],
           NEW R \in SUBSET Nodes, Over(n, p, R),
           NEW m \in scenario.messages, p.msg # m, NEW x \in Nodes, NEW d \in Nat,
           MacOK(x, m, d), RouterOK(x, m, d)
    PROVE  Same(x, m, d)
<1>1. /\ p \in Packets /\ p.msg \in scenario.messages /\ p.msg \in AllMessages /\ m \in AllMessages
      /\ Key(p) = Key(p.msg) /\ delivered[x] \in [AllMessages -> Nat]
  <2>1. p \in Packets /\ p.msg \in scenario.messages
    BY DEF Neighbours, CarriedBy, MaySend
  <2>2. scenario.messages \subseteq AllMessages /\ delivered[x] \in [AllMessages -> Nat]
    BY DEF MInv, Shapes, AllMessages
  <2> QED BY <2>1, <2>2, KeyOfMessage
<1>2. Key(p) # Key(m)
  BY <1>1, Messages DEF IdsTellApart, Key
<1>3. /\ Enough(m, d) \in SUBSET Packets /\ Enough(m, d)' = Enough(m, d)
      /\ Key(m)' = Key(m) /\ unsent' = unsent
  BY DEF Enough, MinHop, Packets, Key, Over
<1>4. PICK old \in Seq(Packets) : old = router[x].pending /\ old \in Seq(Enough(m, d))
  BY DEF RouterOK, MInv, Shapes, Routers
<1>5. PICK o \in Packets : o = OneHopLess(p) /\ o.msg # m
  <2>1. OneHopLess(p) \in Packets /\ OneHopLess(p).msg = p.msg
    BY <1>1, OneHopPacket
  <2> QED BY <2>1
<1>6. o \in Enough(m, d) /\ Append(old, o) \in Seq(Enough(m, d)) /\ (Holds(Append(old, o), m) <=> Holds(old, m))
  <2>1. o \in Enough(m, d)
    BY <1>5 DEF Enough
  <2> QED BY <1>3, <1>4, <1>5, <2>1, HoldsAppend, AppendProperties
<1>7. /\ router'[x].pending \in {old, Append(old, o)}
      /\ Key(m) \in router'[x].seen <=> Key(m) \in router[x].seen
      /\ Key(m) \in router'[x].heard <=> Key(m) \in router[x].heard
      /\ delivered'[x][m] = delivered[x][m]
  <2>1. CASE Untouched(x)
    BY <1>4, <2>1 DEF Untouched
  <2>2. CASE Repeated(x, p)
    BY <1>2, <1>4, <2>2 DEF Repeated
  <2>3. CASE Learnt(x, p)
    <3>1. router'[x].pending \in {old, Append(old, o)}
      BY <1>4, <1>5, <2>3 DEF Learnt
    <3>2. delivered'[x] = delivered[x] \/ delivered'[x] = [delivered[x] EXCEPT ![p.msg] = @ + 1]
      BY <2>3 DEF Learnt
    <3>3. delivered'[x][m] = delivered[x][m]
      BY <1>1, <3>2
    <3> QED BY <1>2, <2>3, <3>1, <3>3 DEF Learnt
  <2> QED BY <2>1, <2>2, <2>3, ReceivedAt
<1>8. /\ router'[x].pending \in Seq(Enough(m, d))
      /\ Holds(router'[x].pending, m) <=> Holds(router[x].pending, m)
  BY <1>4, <1>6, <1>7
<1>9. (Got(x, m)' <=> Got(x, m)) /\ Early(x, m)' = Early(x, m)
  BY <1>3, <1>7, <1>8 DEF Got, Early
<1>10. RouterOK(x, m, d)'
  BY <1>3, <1>7, <1>8, <1>9 DEF RouterOK
<1>11. /\ mac'[x].queue = mac[x].queue /\ air'[x] \subseteq air[x]
       /\ (\A a \in air'[x] : a.msg # m) <=> (\A a \in air[x] : a.msg # m)
  <2>1. x = n => air[x] = {p}
    BY DEF RInv, NodeGood, AirGood
  <2> QED BY <2>1, ReceivedAt
<1>12. MacOK(x, m, d)'
  BY <1>3, <1>9, <1>11 DEF MacOK, SourceOK
<1>13. Finished(x, m)' <=> Finished(x, m)
  BY <1>9, <1>11 DEF Finished, Done
<1> QED BY <1>9, <1>10, <1>12, <1>13 DEF Same

\* m is over at n, which is finished with it.
LEMMA SenderDone ==
    ASSUME MInv, NEW n \in Nodes, NEW p \in air[n], Over(n, p, Hearers(n)), n \notin Hearers(n),
           NEW m, p.msg = m, NEW d, MacOK(n, m, d), RouterOK(n, m, d)
    PROVE  /\ MacOK(n, m, d)' /\ RouterOK(n, m, d)'
           /\ Got(n, m)' /\ Got(n, m) /\ Finished(n, m)'
<1>1. /\ mac'[n].queue = mac[n].queue /\ air'[n] = {} /\ router'[n] = router[n]
      /\ delivered'[n] = delivered[n] /\ unsent' = unsent
  <2>1. Hearers(n) \in SUBSET Nodes /\ unsent' = unsent
    BY Mutual DEF MInv, Shapes, Over
  <2> QED BY <2>1, ReceivedAt DEF Untouched
<1>2. /\ Enough(m, d)' = Enough(m, d) /\ Early(n, m)' = Early(n, m)
      /\ Got(n, m)' <=> Got(n, m)
  BY <1>1 DEF Enough, MinHop, Packets, Early, Got, Key
<1>3. m \notin Early(n, m) /\ ~Holds(mac[n].queue, m)
  BY DEF MacOK, SourceOK
<1>4. Got(n, m)
  BY <1>3 DEF Early
<1>5. MacOK(n, m, d)'
  BY <1>1, <1>2 DEF MacOK, SourceOK
<1>6. RouterOK(n, m, d)'
  <2>1. Key(m)' = Key(m)
    BY DEF Key
  <2> QED BY <1>1, <1>2, <2>1 DEF RouterOK
<1>7. Finished(n, m)'
  BY <1>1, <1>2, <1>3 DEF Finished, Done
<1> QED BY <1>2, <1>4, <1>5, <1>6, <1>7

\* A node that is finished with m hears it once more.
LEMMA FinishedHears ==
    ASSUME MInv, NEW n \in Nodes, NEW p \in air[n], NEW R \in SUBSET Nodes, Over(n, p, R),
           NEW m \in AllMessages, p.msg = m, p.src = m.src,
           NEW x \in Nodes, x # n, NEW d \in Nat,
           MacOK(x, m, d), RouterOK(x, m, d), Finished(x, m)
    PROVE  Same(x, m, d)
<1>1. p \in Packets /\ Key(p) = Key(m) /\ delivered[x] \in [AllMessages -> Nat]
  BY KeyOfMessage DEF MInv, Shapes
<1>2. /\ mac'[x].queue = mac[x].queue /\ air'[x] = air[x] /\ unsent' = unsent
  BY ReceivedAt DEF Over
<1>3. Got(x, m) /\ ~Holds(router[x].pending, m)
  BY DEF Finished, Done, Early
<1>4. /\ router'[x].pending = router[x].pending /\ Got(x, m)'
      /\ x # m.src => delivered'[x] = delivered[x]
  <2>1. CASE Untouched(x)
    BY <1>2, <1>3, <2>1 DEF Untouched, Got, Key
  <2>2. CASE Repeated(x, p)
    BY <1>2, <1>3, <2>2 DEF Repeated, Got, Key
  <2>3. CASE x \in R /\ Key(p) \notin router[x].seen
    <3>1. x = m.src
      BY <1>1, <1>3, <2>3 DEF Got
    <3>2. ~Rebroadcasts(x, p)
      BY <3>1 DEF Rebroadcasts
    <3>3. Learnt(x, p)
      BY <2>3, ReceivedAt
    <3> QED BY <1>2, <1>3, <3>1, <3>2, <3>3 DEF Learnt, Got
  <2> QED BY <2>1, <2>2, <2>3, ReceivedAt
<1>5. /\ Early(x, m)' = Early(x, m) /\ Enough(m, d)' = Enough(m, d)
  BY <1>3, <1>4 DEF Early, Enough, MinHop, Packets
<1>6. RouterOK(x, m, d)'
  BY <1>3, <1>4, <1>5 DEF RouterOK
<1>7. MacOK(x, m, d)' /\ Finished(x, m)'
  BY <1>2, <1>5 DEF MacOK, Finished
<1> QED BY <1>3, <1>4, <1>6, <1>7 DEF Same

\* A node that does not know m yet learns it, and sends it on unless it lies
\* as far away as m gets.
LEMMA NextLearns ==
    ASSUME MInv, Neighbours, NEW n \in Nodes, NEW p \in air[n], NEW R \in SUBSET Nodes, Over(n, p, R),
           NEW m \in AllMessages, p.msg = m, p.src = m.src, p.dest = "all", p.hop \in Nat,
           NEW x \in R, x # n, x # m.src, NEW d \in Nat, p.hop + d >= MinHop(m),
           ~Got(x, m), MacOK(x, m, d + 1), RouterOK(x, m, d + 1)
    PROVE  /\ MacOK(x, m, d + 1)' /\ RouterOK(x, m, d + 1)' /\ Got(x, m)'
           /\ Finished(x, m)' => ~(d + 1 <= MinHop(m))
<1>1. /\ p \in Packets /\ Key(p) = Key(m) /\ delivered[x] \in [AllMessages -> Nat]
      /\ MinHop(m) \in Nat
  BY KeyOfMessage, MinHopType DEF MInv, Shapes
<1>2. /\ Learnt(x, p) /\ Key(m) \notin router[x].seen
      /\ mac'[x].queue = mac[x].queue /\ air'[x] = air[x] /\ unsent' = unsent
  <2>1. Key(m) \notin router[x].seen
    BY DEF Got
  <2>2. x \in Nodes
    OBVIOUS
  <2>3. Learnt(x, p)
    BY <1>1, <2>1, <2>2, ReceivedAt
  <2>4. mac'[x].queue = mac[x].queue /\ air'[x] = air[x]
    BY <2>2, ReceivedAt
  <2> QED BY <2>1, <2>3, <2>4 DEF Over
<1>3. PICK e \in Nat : e = d + 1
  OBVIOUS
<1>4. Enough(m, e) \in SUBSET Packets /\ Enough(m, e)' = Enough(m, e) /\ Key(m)' = Key(m)
  BY DEF Enough, MinHop, Packets, Key
<1>5. Got(x, m)' /\ Early(x, m) = {m} /\ ~Holds(router[x].pending, m)
  BY <1>1, <1>2, <1>4 DEF Learnt, Got, Early, RouterOK
<1>6. ~Holds(mac[x].queue, m) /\ \A a \in air[x] : a.msg # m
  BY <1>5 DEF MacOK, SourceOK
<1>7. MacOK(x, m, e)'
  <2>1. SourceOK(mac'[x].queue, air'[x], Early(x, m)', m)
    BY <1>2, <1>6 DEF SourceOK, Holds
  <2> QED BY <1>2, <1>3, <1>4, <2>1 DEF MacOK
<1>8. delivered'[x][m] > 0
  <2>1. delivered'[x] = [delivered[x] EXCEPT ![m] = @ + 1]
    BY <1>2 DEF Learnt, Delivers
  <2>2. PICK b \in Nat : b = delivered[x][m]
    BY <1>1
  <2> QED BY <1>1, <2>1, <2>2
<1>9. Key(m) \notin router'[x].heard
  <2>1. router[x].heard \subseteq router[x].seen
    BY DEF Neighbours, CarriedBy, MInv, Shapes
  <2> QED BY <1>2, <2>1 DEF Learnt
<1>10. CASE p.hop > 0
  <2>1. Rebroadcasts(x, p)
    BY <1>10 DEF Rebroadcasts
  <2>2. PICK o \in Packets : o = OneHopLess(p) /\ o.msg = m /\ o.hop = p.hop - 1
    BY <1>1, <1>10, OneHopPacket
  <2>3. PICK old \in Seq(Packets) : old = router[x].pending /\ old \in Seq(Enough(m, e))
    BY <1>3 DEF RouterOK, MInv, Shapes, Routers
  <2>4. o \in Enough(m, e)
    BY <1>1, <1>3, <2>2 DEF Enough
  <2>5. /\ router'[x].pending = Append(old, o) /\ Append(old, o) \in Seq(Enough(m, e))
        /\ Holds(Append(old, o), m)
    BY <1>2, <1>4, <2>1, <2>2, <2>3, <2>4, HoldsAppend, AppendProperties DEF Learnt
  <2>6. RouterOK(x, m, e)'
    BY <1>4, <1>5, <1>8, <1>9, <2>5 DEF RouterOK
  <2>7. ~Finished(x, m)'
    BY <2>5 DEF Finished, Done, Early
  <2> QED BY <1>3, <1>5, <1>7, <2>6, <2>7
<1>11. CASE ~(p.hop > 0)
  <2>1. router'[x].pending = router[x].pending
    BY <1>2, <1>11 DEF Learnt, Rebroadcasts
  <2>2. RouterOK(x, m, e)'
    BY <1>3, <1>4, <1>5, <1>8, <2>1 DEF RouterOK
  <2>3. ~(d + 1 <= MinHop(m))
    BY <1>1, <1>11
  <2> QED BY <1>3, <1>5, <1>7, <2>2, <2>3
<1> QED BY <1>10, <1>11

LEMMA EndOfThis ==
    ASSUME MInv, RInv, Neighbours, NEW n \in Members, NEW p \in air[n],
           NEW m \in scenario.messages, p.msg = m, m.dest = "all",
           Over(n, p, Hearers(n)),
           NEW up, NEW lev, Rooted(scenario.links, m.src, up, lev), TreeOK(m, up, lev)
    PROVE  TreeOK(m, up, lev)'
<1>1. /\ Members' = Members /\ Members \in SUBSET Nodes /\ Hearers(n) \in SUBSET Nodes
      /\ MinHop(m)' = MinHop(m) /\ m \in AllMessages
  BY Mutual DEF Over, Members, MInv, Shapes, MinHop, AllMessages
<1>2. /\ lev \in [Members -> Nat] /\ lev[m.src] = 0
      /\ \A x \in Members \ {m.src} :
            up[x] \in Members /\ <<up[x], x>> \in scenario.links /\ lev[x] = lev[up[x]] + 1
  BY EndsAreMembers DEF Rooted
<1>3. /\ n \notin Hearers(n)
      /\ \A x \in Hearers(n) : (x # m.src /\ up[x] = n) \/ (n # m.src /\ up[n] = x)
      /\ \A x \in Members \ {m.src} : up[x] = n => x \in Hearers(n)
  <2>1. Mirrored(scenario.links)
    BY MeshAssumption DEF Mirrored, MInv, Shapes
  <2>2. n \notin Hearers(n)
    BY <2>1, EndsFacts DEF Hearers
  <2>3. \A x \in Hearers(n) : (x # m.src /\ up[x] = n) \/ (n # m.src /\ up[n] = x)
    BY DEF Hearers, Rooted
  <2>4. \A x \in Members \ {m.src} : up[x] = n => x \in Hearers(n)
    BY <1>1, <1>2 DEF Hearers
  <2> QED BY <2>2, <2>3, <2>4
<1>4. /\ p.src = m.src /\ p.dest = "all" /\ p.hop \in Nat
      /\ \A d : MacOK(n, m, d) => p.hop + d >= MinHop(m)
  <2>1. p \in FitsIn(scenario.links, n)
    BY <1>1 DEF RInv, NodeGood, AirGood
  <2>2. p.src = m.src /\ p.dest = "all" /\ p.hop \in Nat
    BY <2>1 DEF FitsIn, Packets
  <2>3. \A d : MacOK(n, m, d) => p.hop + d >= MinHop(m)
    BY DEF MacOK, Enough
  <2> QED BY <2>2, <2>3
<1>5. PICK d \in Nat : d = lev[n]
  BY <1>2
<1>6. \A x \in Members : MacOK(x, m, lev[x]) /\ RouterOK(x, m, lev[x])
  BY DEF TreeOK
<1>7. \A x \in Members \ {m.src} : Edge(up[x], x, m, lev[up[x]])
  BY DEF TreeOK
<1>8. /\ MacOK(n, m, lev[n])' /\ RouterOK(n, m, lev[n])'
      /\ Got(n, m)' /\ Got(n, m) /\ Finished(n, m)' /\ ~Finished(n, m)
  <2>1. /\ MacOK(n, m, lev[n])' /\ RouterOK(n, m, lev[n])' /\ Got(n, m)' /\ Got(n, m) /\ Finished(n, m)'
    BY <1>1, <1>3, <1>6, SenderDone
  <2>2. ~Finished(n, m)
    BY DEF Finished, Done
  <2> QED BY <2>1, <2>2
<1>9. ASSUME NEW x \in Members \ {m.src}, up[x] = n
      PROVE  /\ MacOK(x, m, lev[x])' /\ RouterOK(x, m, lev[x])' /\ Got(x, m)' /\ ~Finished(x, m)
             /\ Finished(x, m)' => ~(lev[x] <= MinHop(m))
  <2>1. ~Got(x, m)
    BY <1>7, <1>8, <1>9 DEF Edge
  <2>2. lev[x] = d + 1 /\ x # n
    <3>1. PICK e \in Nat : e = lev[x]
      BY <1>2
    <3>2. lev[x] = lev[up[x]] + 1
      BY <1>2
    <3>3. e = d + 1
      BY <1>5, <1>9, <3>1, <3>2
    <3>4. e # d
      BY <3>3
    <3> QED BY <1>5, <3>1, <3>3, <3>4
  <2>3. x \in Hearers(n) /\ MacOK(x, m, d + 1) /\ RouterOK(x, m, d + 1) /\ p.hop + d >= MinHop(m)
    BY <1>3, <1>4, <1>5, <1>6, <1>9, <2>2
  <2>4. /\ MacOK(x, m, d + 1)' /\ RouterOK(x, m, d + 1)' /\ Got(x, m)'
        /\ Finished(x, m)' => ~(d + 1 <= MinHop(m))
    BY <1>1, <1>4, <2>1, <2>2, <2>3, NextLearns
  <2>5. ~Finished(x, m)
    BY <2>1 DEF Finished, Done, Early
  <2> QED BY <2>2, <2>4, <2>5
<1>10. ASSUME NEW x \in Members, x # n, x = m.src \/ up[x] # n
       PROVE  Same(x, m, lev[x])
  <2>1. PICK e \in Nat : e = lev[x]
    BY <1>2
  <2>2. CASE x \in Hearers(n)
    <3>1. n # m.src /\ up[n] = x
      BY <1>3, <1>10, <2>2
    <3>2. Finished(x, m)
      BY <1>7, <1>8, <3>1 DEF Edge
    <3> QED BY <1>1, <1>4, <1>6, <1>10, <2>1, <3>2, FinishedHears
  <2>3. CASE x \notin Hearers(n)
    <3>0. n \in Nodes /\ x \in Nodes
      BY <1>1
    <3>1. /\ mac'[x].queue = mac[x].queue /\ air'[x] = air[x] /\ Untouched(x) /\ unsent' = unsent
      <4>1. Untouched(x)
        BY <1>1, <2>3, <3>0, ReceivedAt
      <4>2. mac'[x].queue = mac[x].queue /\ air'[x] = air[x]
        BY <1>1, <1>10, <3>0, ReceivedAt
      <4> QED BY <4>1, <4>2 DEF Over
    <3> QED BY <1>6, <2>1, <3>1, NodeStays DEF Untouched
  <2> QED BY <2>2, <2>3
<1>11. ASSUME NEW x \in Members
       PROVE  MacOK(x, m, lev[x])' /\ RouterOK(x, m, lev[x])'
  BY <1>8, <1>9, <1>10 DEF Same
<1>12. ASSUME NEW c \in Members \ {m.src} PROVE Edge(up[c], c, m, lev[up[c]])'
  <2>1. PICK y \in Members : y = up[c]
    BY <1>2
  <2>2. CASE y = n
    BY <1>8, <1>9, <2>1, <2>2 DEF Edge
  <2>3. CASE y # m.src /\ up[y] = n
    <3>1. PICK i \in Nat, j \in Nat, k \in Nat : i = lev[n] /\ j = lev[y] /\ k = lev[c]
      BY <1>2
    <3>2. j = i + 1 /\ k = j + 1
      BY <1>2, <2>1, <2>3, <3>1
    <3>3. c # n /\ y # n
      <4>1. j # i /\ k # i
        BY <3>2
      <4> QED BY <3>1, <4>1
    <3>4. Same(c, m, lev[c])
      BY <1>10, <2>1, <3>3
    <3>5. ~Got(c, m)
      BY <1>7, <1>9, <2>1, <2>3 DEF Edge
    <3>6. ~Got(c, m)' /\ (Finished(y, m)' => ~(lev[y] <= MinHop(m)))
      BY <1>9, <2>3, <3>4, <3>5 DEF Same
    <3> QED BY <1>1, <2>1, <3>6 DEF Edge
  <2>4. CASE y # n /\ (y = m.src \/ up[y] # n)
    <3>1. Finished(y, m)' <=> Finished(y, m)
      BY <1>10, <2>4 DEF Same
    <3>2. Got(c, m)' <=> Got(c, m)
      <4>1. CASE c = n
        BY <1>8, <4>1
      <4>2. CASE c # n
        BY <1>10, <2>1, <2>4, <4>2 DEF Same
      <4> QED BY <4>1, <4>2
    <3>3. Edge(y, c, m, lev[y])
      BY <1>7, <2>1
    <3> QED BY <1>1, <2>1, <3>1, <3>2, <3>3 DEF Edge
  <2> QED BY <2>2, <2>3, <2>4
<1> QED BY <1>1, <1>11, <1>12 DEF TreeOK

\* Nothing was lost, so all that hear n have it.
LEMMA EndOfTxTree ==
    ASSUME MInv, RInv, IdsTellApart, Neighbours, NEW n \in Members, EndOfTx(n),
           missed = 0, missed' = 0,
           NEW m \in scenario.messages, m.dest = "all", NEW up, NEW lev,
           Rooted(scenario.links, m.src, up, lev), TreeOK(m, up, lev)
    PROVE  TreeOK(m, up, lev)'
<1>1. PICK p \in air[n], R \in SUBSET Hearers(n) :
        missed' = missed + Cardinality(Hearers(n) \ R) /\ Over(n, p, R)
  BY DEF EndOfTx, Over
<1>2. Members \in SUBSET Nodes /\ Hearers(n) \in SUBSET Nodes
  BY Mutual DEF MInv, Shapes
<1>3. R = Hearers(n)
  <2>1. IsFiniteSet(Hearers(n) \ R)
    <3>1. Hearers(n) \ R \in SUBSET Nodes /\ IsFiniteSet(Nodes)
      BY <1>2, MeshAssumption
    <3> QED BY <3>1, FS_Subset
  <2>2. Cardinality(Hearers(n) \ R) = 0
    <3>1. Cardinality(Hearers(n) \ R) \in Nat
      BY <2>1, FS_CardinalityType
    <3> QED BY <1>1, <3>1
  <2>3. Hearers(n) \ R = {}
    BY <2>1, <2>2, FS_EmptySet
  <2> QED BY <2>3
<1>4. CASE p.msg = m
  BY <1>1, <1>3, <1>4, EndOfThis
<1>5. CASE p.msg # m
  <2>1. ASSUME NEW x \in Members PROVE Same(x, m, lev[x])
    <3>1. lev[x] \in Nat /\ MacOK(x, m, lev[x]) /\ RouterOK(x, m, lev[x])
      BY EndsAreMembers DEF TreeOK, Rooted
    <3>2. R \in SUBSET Nodes /\ x \in Nodes /\ n \in Nodes
      BY <1>2
    <3> QED BY <1>1, <1>5, <3>1, <3>2, EndOfOther
  <2>2. UNCHANGED scenario
    BY <1>1 DEF Over
  <2> QED BY <2>1, <2>2, TreeSame
<1> QED BY <1>4, <1>5

\* Counts of faults never go back.
LEMMA MissedGrows ==
    ASSUME MInv, RInv, [Next]_vars, missed' = 0
    PROVE  missed = 0
<1>0. missed \in Nat
  BY DEF RInv
<1>1. CASE \E m \in unsent : Send(m)
  BY <1>1 DEF Send
<1>2. CASE \E n \in Members, ready \in BOOLEAN, busy \in BOOLEAN, waited \in BOOLEAN :
              ProcessTx(n, busy, ready, waited)
  BY <1>2 DEF ProcessTx
<1>3. CASE \E n \in Members, ready \in BOOLEAN : ForceTx(n, ready)
  BY <1>3 DEF ForceTx
<1>4. ASSUME NEW n \in Members, EndOfTx(n) PROVE missed = 0
  <2>1. PICK R \in SUBSET Hearers(n) : missed' = missed + Cardinality(Hearers(n) \ R)
    BY <1>4 DEF EndOfTx
  <2>2. IsFiniteSet(Hearers(n) \ R)
    <3>1. Hearers(n) \ R \in SUBSET Nodes /\ IsFiniteSet(Nodes)
      BY Mutual, MeshAssumption DEF MInv, Shapes
    <3> QED BY <3>1, FS_Subset
  <2>3. Cardinality(Hearers(n) \ R) \in Nat
    BY <2>2, FS_CardinalityType
  <2> QED BY <1>0, <2>1, <2>3
<1>5. CASE \E n \in Members : WindowMoves(n)
  BY <1>5 DEF WindowMoves, countVars
<1>6. CASE Lapse
  BY <1>6 DEF Lapse, countVars
<1>7. CASE UNCHANGED vars
  BY <1>7 DEF vars, countVars
<1> QED BY <1>1, <1>2, <1>3, <1>4, <1>5, <1>6, <1>7 DEF Next

LEMMA NextTInv ==
    ASSUME MInv, RInv, NInv, TInv, [Next]_vars
    PROVE  TInv'
<1> SUFFICES ASSUME Perfect',
                    NEW m \in scenario'.messages, NEW up, NEW lev, m.dest = "all",
                    Rooted(scenario'.links, m.src, up, lev)
             PROVE  TreeOK(m, up, lev)'
  BY DEF TInv
<1>1. scenario' = scenario
  BY DEF Next, Send, ProcessTx, ForceTx, EndOfTx, WindowMoves, Lapse, vars
<1>2. /\ missed = 0 /\ missed' = 0 /\ Calm /\ refused' = 0 /\ lapses = 0 /\ lapses' = 0
      /\ IdsTellApart /\ Neighbours
  BY CountsGrow, MissedGrows DEF Perfect, NInv, Calm
<1>3. /\ m \in scenario.messages /\ Rooted(scenario.links, m.src, up, lev) /\ TreeOK(m, up, lev)
      /\ Members \in SUBSET Nodes
  BY <1>1, <1>2, Mutual DEF TInv, Perfect, MInv, Shapes
<1>4. \A x \in Members : lev[x] \in Nat /\ MacOK(x, m, lev[x]) /\ RouterOK(x, m, lev[x])
  BY <1>3, EndsAreMembers DEF TreeOK, Rooted
<1>5. (\A x \in Members : Same(x, m, lev[x])) => TreeOK(m, up, lev)'
  BY <1>1, <1>3, TreeSame
<1>6. CASE \E k \in unsent : Send(k)
  BY <1>2, <1>3, <1>6, SendTree
<1>7. ASSUME NEW n \in Members, NEW ready \in BOOLEAN, NEW busy \in BOOLEAN, NEW waited \in BOOLEAN,
             ProcessTx(n, busy, ready, waited)
      PROVE  TreeOK(m, up, lev)'
  <2>1. ASSUME NEW x \in Members PROVE Same(x, m, lev[x])
    BY <1>2, <1>3, <1>4, <1>7, ProcessTxT
  <2> QED BY <1>5, <2>1
<1>8. ASSUME NEW n \in Members, NEW ready \in BOOLEAN, ForceTx(n, ready)
      PROVE  TreeOK(m, up, lev)'
  <2>1. ASSUME NEW x \in Members PROVE Same(x, m, lev[x])
    BY <1>2, <1>3, <1>4, <1>8, ForceTxT
  <2> QED BY <1>5, <2>1
<1>9. CASE \E n \in Members : EndOfTx(n)
  BY <1>2, <1>3, <1>9, EndOfTxTree
<1>10. CASE (\E n \in Members : WindowMoves(n)) \/ UNCHANGED vars
  <2>1. UNCHANGED <<router, air, unsent, delivered>> /\ \A x \in Members : mac'[x].queue = mac[x].queue
    <3>1. ASSUME NEW n \in Members, WindowMoves(n)
          PROVE  UNCHANGED <<router, air, unsent, delivered>> /\ \A x \in Members : mac'[x].queue = mac[x].queue
      <4>1. mac \in [Nodes -> Macs] /\ mac' = [mac EXCEPT ![n] = Pruned(mac[n])] /\ n \in Nodes
        BY <1>3, <3>1 DEF WindowMoves, MInv, Shapes
      <4>2. Pruned(mac[n]).queue = mac[n].queue
        BY <4>1 DEF Pruned, Macs
      <4>3. UNCHANGED <<router, air, unsent, delivered>>
        BY <3>1 DEF WindowMoves, countVars
      <4> QED BY <1>3, <4>1, <4>2, <4>3
    <3>2. CASE UNCHANGED vars
      BY <3>2 DEF vars, nodeVars, countVars
    <3> QED BY <1>10, <3>1, <3>2
  <2>2. ASSUME NEW x \in Members PROVE Same(x, m, lev[x])
    BY <1>4, <2>1, NodeStays
  <2> QED BY <1>5, <2>2
<1>11. CASE Lapse
  BY <1>2, <1>11 DEF Lapse
<1> QED BY <1>6, <1>7, <1>8, <1>9, <1>10, <1>11 DEF Next

LEMMA InitTInv == Init => TInv
<1> SUFFICES ASSUME Init, NEW m \in scenario.messages, NEW up, NEW lev,
                    Rooted(scenario.links, m.src, up, lev)
             PROVE  TreeOK(m, up, lev)
  BY DEF TInv
<1>1. Members \in SUBSET Nodes
  BY Mutual DEF Init
<1>2. ASSUME NEW n \in Members
      PROVE  /\ mac[n].queue = <<>> /\ air[n] = {} /\ router[n].pending = <<>> /\ ~Got(n, m)
             /\ ~Finished(n, m)
  <2>1. mac[n].queue = <<>> /\ air[n] = {} /\ router[n].pending = <<>> /\ ~Got(n, m)
    BY <1>1 DEF Init, NewMac, NewRouter, Got
  <2> QED BY <2>1 DEF Finished, Done, Early
<1>3. ASSUME NEW n \in Members PROVE MacOK(n, m, lev[n]) /\ RouterOK(n, m, lev[n])
  <2>1. PICK E : E = Enough(m, lev[n])
    OBVIOUS
  <2>2. <<>> \in Seq(E) /\ ~Holds(<<>>, m)
    BY DEF Holds
  <2>3. MacOK(n, m, lev[n])
    <3>1. mac[n].queue \in Seq(E) /\ air[n] \subseteq E
      BY <1>2, <2>2
    <3>2. SourceOK(mac[n].queue, air[n], Early(n, m), m)
      <4>1. Len(mac[n].queue) = 0
        BY <1>2
      <4> QED BY <1>2, <2>2, <4>1 DEF SourceOK
    <3> QED BY <2>1, <3>1, <3>2 DEF MacOK
  <2>4. RouterOK(n, m, lev[n])
    <3>1. router[n].pending \in Seq(E) /\ ~Holds(router[n].pending, m)
      BY <1>2, <2>2
    <3> QED BY <1>2, <2>1, <3>1 DEF RouterOK
  <2> QED BY <2>3, <2>4
<1>4. ASSUME NEW n \in Members \ {m.src} PROVE Edge(up[n], n, m, lev[up[n]])
  <2>1. up[n] \in Members
    BY EndsAreMembers DEF Rooted
  <2> QED BY <1>2, <2>1 DEF Edge
<1> QED BY <1>3, <1>4 DEF TreeOK

\* A node without links is alone.
LEMMA WithinAlone ==
    ASSUME NEW links \in SUBSET (Nodes \X Nodes), NEW s \in Nodes \ Ends(links), NEW k \in Nat
    PROVE  Within(links, s, k) = {s}
<1> DEFINE T == {i \in Nat : Within(links, s, i) = {s}}
<1>1. 0 \in T
  BY WithinNone
<1>2. ASSUME NEW i \in T PROVE i + 1 \in T
  <2>1. Within(links, s, i + 1) = Spread(links, Within(links, s, i))
    BY WithinFacts
  <2>2. Spread(links, {s}) = {s}
    BY DEF Spread, Ends
  <2> QED BY <2>1, <2>2
<1>3. T = Nat
  <2> HIDE DEF T
  <2>1. T \in SUBSET Nat
    BY DEF T
  <2> QED BY <1>1, <1>2, <2>1, SetInduction
<1> QED BY <1>3

\* Link by link, what all are finished with has come.
LEMMA QuietTree ==
    ASSUME MInv, \A n \in Nodes : ~Waits(n), NEW m \in scenario.messages, m \notin unsent,
           NEW up, NEW lev, Rooted(scenario.links, m.src, up, lev), TreeOK(m, up, lev),
           NEW n \in Members, lev[n] <= MinHop(m) + 1, n # m.src
    PROVE  delivered[n][m] > 0
<1>1. /\ Members \in SUBSET Nodes /\ m \in AllMessages /\ MinHop(m) \in Nat
  BY Mutual, MinHopType DEF MInv, Shapes, AllMessages
<1>2. /\ lev \in [Members -> Nat]
      /\ \A x \in Members \ {m.src} : up[x] \in Members /\ lev[x] = lev[up[x]] + 1
  BY EndsAreMembers DEF Rooted
<1>3. ASSUME NEW x \in Members PROVE Got(x, m) => Finished(x, m)
  <2>1. mac[x].queue = <<>> /\ router[x].pending = <<>> /\ air[x] = {}
    BY <1>1 DEF Waits
  <2> QED BY <2>1 DEF Finished, Done, Early, Holds
<1> DEFINE T == {k \in Nat : \A x \in Members : lev[x] = k /\ k <= MinHop(m) + 1 => Got(x, m)}
<1>4. ASSUME NEW k \in Nat, NEW x \in Members, lev[x] = k, k <= MinHop(m) + 1,
             k = 0 \/ k - 1 \in T
      PROVE  Got(x, m)
  <2>1. CASE x = m.src
    BY <2>1 DEF Got
  <2>2. CASE x # m.src
    <3>1. PICK y \in Members : y = up[x] /\ lev[x] = lev[y] + 1
      BY <1>2, <2>2
    <3>2. PICK j \in Nat : j = lev[y]
      BY <1>2
    <3>3. k = j + 1 /\ j \in T /\ j <= MinHop(m) /\ j <= MinHop(m) + 1
      BY <1>1, <1>4, <3>1, <3>2
    <3>4. Finished(y, m)
      BY <1>3, <3>2, <3>3
    <3>5. Edge(y, x, m, lev[y])
      BY <2>2, <3>1 DEF TreeOK
    <3> QED BY <3>2, <3>3, <3>4, <3>5 DEF Edge
  <2> QED BY <2>1, <2>2
<1>5. 0 \in T
  BY <1>4
<1>6. ASSUME NEW k \in T PROVE k + 1 \in T
  <2>1. k \in Nat /\ k + 1 \in Nat /\ (k + 1) - 1 = k /\ (k + 1) - 1 \in T
    OBVIOUS
  <2>2. \A x \in Members : lev[x] = k + 1 /\ k + 1 <= MinHop(m) + 1 => Got(x, m)
    BY <1>4, <2>1
  <2> QED BY <2>1, <2>2
<1>7. T = Nat
  <2> HIDE DEF T
  <2>1. T \in SUBSET Nat
    BY DEF T
  <2> QED BY <1>5, <1>6, <2>1, SetInduction
<1>8. PICK k \in Nat : k = lev[n] /\ k <= MinHop(m) + 1
  BY <1>2
<1>9. Got(n, m)
  BY <1>7, <1>8
<1> QED BY <1>9 DEF TreeOK, RouterOK

-----------------------------------------------------------------------------
\* In every network, whatever is lost, refused or heard by several ways and in
\* whatever order, a node hands a message to its application at most once, and
\* rebroadcasts it at most once, between two expiries of its duplicate cache.
THEOREM EachOnce == Spec => []OnceEach
<1>1. MInv => OnceEach
  <2> SUFFICES ASSUME MInv, NEW n \in Nodes, NEW m \in AllMessages
               PROVE  delivered[n][m] <= 1 + lapses /\ forwarded[n][m] <= 1 + lapses
    BY DEF OnceEach
  <2>1. lapses \in Nat
    BY DEF MInv, Shapes
  <2>2. delivered[n][m] <= lapses + 1 /\ forwarded[n][m] <= lapses + 1
    BY DEF MInv, Once
  <2> QED BY <2>1, <2>2
<1> QED BY <1>1, InitMInv, NextMInv, PTL DEF Spec

\* The decisions of the MAC layer, or the polls of the simulator, never start a
\* packet on a node whose last one is still on the air.
THEOREM NeverTwoAtOnce == Spec => OneAtATime
<1>1. MInv /\ [Next]_vars => [\A n \in Nodes : air[n] # {} => air'[n] \in {air[n], {}}]_vars
  BY NextMInv
<1> QED BY <1>1, InitMInv, NextMInv, PTL DEF Spec, OneAtATime

\* Whatever way a message takes and however often it is repeated, it gets no
\* farther than its hop limit on the wire and one hop more, and one that is for
\* a single node is delivered nowhere else: each rebroadcast takes a hop off.
THEOREM HopLimitHolds == Spec => []ReachBounded
<1>1. RInv => ReachBounded
  BY DEF RInv, DeliveredGood, ReachBounded
<1> QED BY <1>1, InitMInv, NextMInv, InitRInv, NextRInv, PTL DEF Spec

\* What is queued, waits or is on the air is a packet of a message that was
\* sent, and the queue and the back-off of a MAC layer keep to their limits.
THEOREM TypeCorrect == Spec => []TypeOK
<1>1. ASSUME MInv, RInv PROVE TypeOK
  <2>1. ASSUME NEW n \in Nodes
        PROVE  /\ mac[n].state \in MacStates /\ mac[n].started \in BOOLEAN
               /\ mac[n].slots \in 0..Slots /\ mac[n].attempts \in 0..MaxAttempts
               /\ mac[n].airtime \in Nat /\ Len(mac[n].queue) <= QueueLimit
               /\ \A i \in 1..Len(mac[n].queue) : IsPacket(mac[n].queue[i])
               /\ \A i \in 1..Len(router[n].pending) : IsPacket(router[n].pending[i])
               /\ \A p \in air[n] : IsPacket(p)
               /\ Cardinality(air[n]) <= 1
    <3>1. PICK S \in SUBSET Packets : S = FitsIn(scenario.links, n)
      BY DEF FitsIn
    <3>2. \A p \in S : IsPacket(p)
      BY <3>1, GoodPacket
    <3>3. mac[n] \in Macs /\ MacGood(S, mac[n]) /\ router[n].pending \in Seq(S) /\ AirGood(S, air[n])
      BY <1>1, <3>1 DEF MInv, Shapes, RInv, NodeGood
    <3>4. /\ mac[n].state \in MacStates /\ mac[n].started \in BOOLEAN
          /\ mac[n].slots \in 0..Slots /\ mac[n].attempts \in 0..MaxAttempts
          /\ mac[n].airtime \in Nat /\ Len(mac[n].queue) <= QueueLimit
      BY <3>3, MacAssumption DEF MacGood, Macs
    <3>5. \A i \in 1..Len(mac[n].queue) : IsPacket(mac[n].queue[i])
      BY <3>2, <3>3 DEF MacGood
    <3>6. \A i \in 1..Len(router[n].pending) : IsPacket(router[n].pending[i])
      BY <3>2, <3>3
    <3>7. Cardinality(air[n]) <= 1 /\ \A p \in air[n] : IsPacket(p)
      <4>1. CASE air[n] = {}
        BY <4>1, FS_EmptySet
      <4>2. ASSUME NEW p \in S, air[n] = {p}
            PROVE  Cardinality(air[n]) <= 1 /\ \A q \in air[n] : IsPacket(q)
        <5>1. Cardinality({p}) = 1
          BY FS_Singleton
        <5> QED BY <3>2, <4>2, <5>1
      <4> QED BY <3>3, <4>1, <4>2 DEF AirGood
    <3> QED BY <3>4, <3>5, <3>6, <3>7
  <2>2. scenario \in Scenarios /\ unsent \subseteq scenario.messages
        /\ missed \in Nat /\ refused \in Nat /\ lapses \in 0..MaxLapses
    BY <1>1 DEF MInv, Shapes, RInv
  <2> QED BY <2>1, <2>2 DEF TypeOK
<1> QED BY <1>1, InitMInv, NextMInv, InitRInv, NextRInv, PTL DEF Spec

\* When all is quiet and nothing was refused or forgotten, each node that has a
\* broadcast next to its source has rebroadcast it or hears a node that has: a
\* rebroadcast is suppressed only by another one.  It takes that the messages of
\* one node have different ids.
THEOREM DropsOnlyForAnother == Spec /\ IdsTellApart => []NeighbourhoodServed
<1>1. ASSUME MInv, NInv PROVE NeighbourhoodServed
  <2> SUFFICES ASSUME Calm, \A n \in Nodes : ~Waits(n),
                      NEW m \in AllMessages, NEW n \in Hearers(m.src),
                      m.dest = "all", MinHop(m) > 0, delivered[n][m] > 0
               PROVE  \E x \in {n} \cup Hearers(n) : forwarded[x][m] > 0
    BY DEF NeighbourhoodServed, Calm
  <2>1. n \in Nodes
    BY <1>1, Mutual DEF MInv, Shapes
  <2>2. m \in scenario.messages
    BY <1>1, <2>1 DEF NInv, Neighbours, CarriedBy
  <2>3. Served(n, m)
    BY <1>1, <2>1, <2>2 DEF NInv, Neighbours
  <2>4. router[n].pending = <<>>
    BY <2>1 DEF Waits
  <2>5. ~Awaits(n, m)
    BY <2>4 DEF Awaits, Holds
  <2> QED BY <2>3, <2>5 DEF Served, Passed
<1> QED BY <1>1, InitMInv, NextMInv, InitRInv, NextRInv, InitNInv, NextNInv, PTL DEF Spec

\* In a network without loops in which no packet is lost, refused or forgotten,
\* each broadcast that was sent has reached, when all is quiet, every node its
\* hop limit allows: no suppression cuts a branch off, whatever the order in
\* which the nodes send and hear.  It takes that the messages of one node have
\* different ids.
THEOREM TreesAreReached == Spec /\ IdsTellApart => []TreeReached
<1>1. ASSUME MInv, TInv PROVE TreeReached
  <2> SUFFICES ASSUME Undisturbed, IsTree, NEW m \in scenario.messages \ unsent, m.dest = "all",
                      NEW n \in Within(scenario.links, m.src, MinHop(m) + 1) \ {m.src}
               PROVE  delivered[n][m] > 0
    BY DEF TreeReached
  <2>1. PICK links : links = scenario.links /\ Mirrored(links)
    BY <1>1, MeshAssumption DEF Mirrored, MInv, Shapes
  <2>2. m \in AllMessages /\ m.src \in Nodes
    BY <1>1, Messages DEF MInv, Shapes, AllMessages
  <2>3. PICK far \in Nat : far = MinHop(m) + 1
    BY <2>2, MinHopType
  <2>4. m.src \in Ends(links)
    <3>1. n \in Within(links, m.src, far) /\ n # m.src
      BY <2>1, <2>3
    <3>2. links \in SUBSET (Nodes \X Nodes)
      BY <2>1 DEF Mirrored
    <3> QED BY <2>2, <3>1, <3>2, WithinAlone
  <2>5. PICK lev, up : Rooted(links, m.src, up, lev)
    BY <2>1, <2>4, EndsAreMembers, TreeRooted DEF IsTree
  <2>6. TreeOK(m, up, lev)
    BY <1>1, <2>1, <2>5 DEF TInv, Perfect, Calm, Undisturbed
  <2>7. n \in Members /\ lev[n] <= MinHop(m) + 1
    BY <2>1, <2>3, <2>5, EndsAreMembers DEF Rooted
  <2> QED BY <1>1, <2>1, <2>5, <2>6, <2>7, QuietTree DEF Undisturbed
<1> QED BY <1>1, InitMInv, NextMInv, InitRInv, NextRInv, InitNInv, NextNInv,
           InitTInv, NextTInv, PTL DEF Spec
=============================================================================
