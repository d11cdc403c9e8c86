---------------------------- MODULE MeshNetwork ----------------------------
(***************************************************************************)
(* A network of MeshtasticNode (r4w-core/src/mesh/meshtastic.rs), each of  *)
(* which composes a FloodRouter and a MacLayer, on a radio channel that    *)
(* loses packets.  A node is driven by polling process_tx with what the    *)
(* receiver says of the channel and reporting tx_complete, or, as the      *)
(* simulator of mesh/simulation.rs does, by polling force_tx.              *)
(***************************************************************************)
EXTENDS Integers, Sequences, FiniteSets, MacLayer, FloodRouter

CONSTANTS
    Nodes,
    Scenarios,  \* networks and what is sent in them, see below
    MaxHop,     \* the largest hop limit the wire header holds
    MaxLapses   \* bound: times the duplicate caches expire

(* A scenario has                                                          *)
(*   driver   "mac" or "simulator"                                         *)
(*   links    the pairs of nodes that hear each other, both ways round     *)
(*   messages the packets the applications send, each at most once         *)
(*   losses   a bound on the receptions that fail for no visible reason    *)

ASSUME MeshAssumption ==
    /\ IsFiniteSet(Nodes) /\ MaxHop \in Nat /\ MaxLapses \in Nat
    /\ \A s \in Scenarios :
        /\ s.links \subseteq Nodes \X Nodes
        /\ s.messages \subseteq [src : Nodes, dest : Nodes \cup {"all"}, id : Nat, hop : Nat]
        /\ \A l \in s.links : <<l[2], l[1]>> \in s.links /\ l[1] # l[2]

VARIABLES
    scenario,
    mac,        \* the MacLayer of each node
    router,     \* the FloodRouter of each node
    air,        \* what a node is transmitting, as a set of at most one packet
    unsent,     \* messages the applications have not sent yet
    delivered,  \* how often a node handed a message to its application
    forwarded,  \* how often a node queued a message to rebroadcast it
    missed,     \* receptions that failed
    refused,    \* packets refused by a full queue
    lapses      \* times the duplicate caches expired

nodeVars  == <<mac, router, air>>
countVars == <<delivered, forwarded, missed, refused>>
vars == <<scenario, nodeVars, unsent, countVars, lapses>>

AllMessages == UNION {s.messages : s \in Scenarios}
None == [n \in Nodes |-> [m \in AllMessages |-> 0]]

Members == {l[1] : l \in scenario.links}

Hearers(n) == {m \in Nodes : <<n, m>> \in scenario.links}

Init ==
    /\ scenario \in Scenarios
    /\ mac = [n \in Nodes |-> NewMac]
    /\ router = [n \in Nodes |-> NewRouter]
    /\ air = [n \in Nodes |-> {}]
    /\ unsent = scenario.messages
    /\ delivered = None /\ forwarded = None
    /\ missed = 0 /\ refused = 0 /\ lapses = 0

\* The hop limit on the wire has three bits.
OnWire(p) == IF p.hop > MaxHop THEN [p EXCEPT !.hop = MaxHop] ELSE p

Packet(m) == [src |-> m.src, dest |-> m.dest, id |-> m.id, hop |-> m.hop, msg |-> m]

\* broadcast or send_direct.  The node's own duplicate cache is not told.
Send(m) ==
    LET n == m.src
    IN  /\ m \in unsent
        /\ unsent' = unsent \ {m}
        /\ mac' = [mac EXCEPT ![n] = QueueTx(@, OnWire(Packet(m)))]
        /\ refused' = IF HasRoom(mac[n]) THEN refused ELSE refused + 1
        /\ UNCHANGED <<scenario, router, air, delivered, forwarded, missed, lapses>>

\* The beginning of process_tx and force_tx: a pending rebroadcast that is
\* ready leaves the router, and unless another one was heard it is queued.
\* A packet the full queue refuses is gone.
HandsOut(n, ready) == ready /\ router[n].pending # <<>>
Forwards(n, ready) == HandsOut(n, ready) /\ ~Suppressed(router[n])

Queued(n, ready) ==
    IF Forwards(n, ready) THEN QueueTx(mac[n], OnWire(Head(router[n].pending))) ELSE mac[n]

PollRouter(n, ready) ==
    /\ router' = IF HandsOut(n, ready) THEN [router EXCEPT ![n] = PopPending(@)] ELSE router
    /\ LET msg == Head(router[n].pending).msg
       IN  IF Forwards(n, ready) /\ HasRoom(mac[n])
           THEN forwarded' = [forwarded EXCEPT ![n][msg] = @ + 1]
           ELSE UNCHANGED forwarded
    /\ refused' = IF Forwards(n, ready) /\ ~HasRoom(mac[n]) THEN refused + 1 ELSE refused

Transmits(n, m) ==
    /\ mac' = [mac EXCEPT ![n] = StartTx(m)]
    /\ air' = [air EXCEPT ![n] = {Head(m.queue)}]

KeepsQuiet(n, m) ==
    /\ mac' = [mac EXCEPT ![n] = m]
    /\ UNCHANGED air

ProcessTx(n, busy, ready, waited) ==
    /\ scenario.driver = "mac"
    /\ PollRouter(n, ready)
    /\ \E d \in CanTransmit(Queued(n, ready), busy, waited) :
          IF d.decision = "TransmitNow" /\ d.mac.queue # <<>>
          THEN Transmits(n, d.mac)
          ELSE KeepsQuiet(n, d.mac)
    /\ UNCHANGED <<scenario, unsent, delivered, missed, lapses>>

\* The simulator polls a node when its transmission is over, and never tells
\* the MAC layer that it is.
ForceTx(n, ready) ==
    /\ scenario.driver = "simulator"
    /\ air[n] = {}
    /\ PollRouter(n, ready)
    /\ LET m == Queued(n, ready)
       IN  IF m.queue # <<>> THEN Transmits(n, m) ELSE KeepsQuiet(n, m)
    /\ UNCHANGED <<scenario, unsent, delivered, missed, lapses>>

\* on_receive in the nodes of R
Receive(R, p) ==
    /\ router' = [n \in Nodes |-> IF n \in R THEN ProcessIncoming(router[n], n, p) ELSE router[n]]
    /\ delivered' = [n \in Nodes |->
          IF n \in R /\ IsNew(router[n], p) /\ Delivers(n, p)
          THEN [delivered[n] EXCEPT ![p.msg] = @ + 1]
          ELSE delivered[n]]

\* The transmission of n ends; a node that transmits itself does not hear it.
\* Copies lost otherwise (two senders at once, two that start anew in the step
\* of the simulator in which both end) are counted against the losses.
EndOfTx(n) ==
    \E p \in air[n], R \in SUBSET Hearers(n) :
        LET listening == {m \in Hearers(n) : air[m] = {}}
        IN  /\ R \subseteq listening
            /\ R # listening => missed + Cardinality(listening \ R) <= scenario.losses
            /\ missed' = missed + Cardinality(Hearers(n) \ R)
            /\ Receive(R, p)
            /\ air' = [air EXCEPT ![n] = {}]
            /\ mac' = IF scenario.driver = "mac" THEN [mac EXCEPT ![n] = TxComplete(@)] ELSE mac
            /\ UNCHANGED <<scenario, unsent, forwarded, refused, lapses>>

Waits(n) == router[n].pending # <<>> \/ mac[n].queue # <<>> \/ air[n] # {}

\* Minutes pass and every entry of the caches expires.  Delays and transmissions
\* are shorter than that; a packet may sit in a queue of a MAC layer so long.
Lapse ==
    /\ lapses < MaxLapses
    /\ \A n \in Nodes : router[n].pending = <<>> /\ air[n] = {}
    /\ lapses' = lapses + 1
    /\ router' = [n \in Nodes |-> Expired(router[n])]
    /\ UNCHANGED <<scenario, mac, air, unsent, countVars>>

WindowMoves(n) ==
    /\ mac[n].airtime > 0
    /\ mac' = [mac EXCEPT ![n] = Pruned(@)]
    /\ UNCHANGED <<scenario, router, air, unsent, countVars, lapses>>

Next ==
    \/ \E m \in unsent : Send(m)
    \/ \E n \in Members, ready \in BOOLEAN :
          \/ \E busy, waited \in BOOLEAN : ProcessTx(n, busy, ready, waited)
          \/ ForceTx(n, ready)
    \/ \E n \in Members : EndOfTx(n) \/ WindowMoves(n)
    \/ Lapse

Spec == Init /\ [][Next]_vars

(***************************************************************************)
(* Nodes are polled again and again, also when every delay is over and the *)
(* channel is free; transmissions end and the utilization window moves.    *)
(***************************************************************************)
Fairness ==
    \A n \in Nodes :
        /\ SF_vars(ProcessTx(n, FALSE, TRUE, TRUE))
        /\ WF_vars(ForceTx(n, TRUE))
        /\ WF_vars(EndOfTx(n))
        /\ WF_vars(WindowMoves(n))

FairSpec == Spec /\ Fairness

-----------------------------------------------------------------------------
(* Properties *)

IsPacket(p) ==
    /\ DOMAIN p = {"src", "dest", "id", "hop", "msg"}
    /\ p.msg \in AllMessages
    /\ p.src = p.msg.src /\ p.dest = p.msg.dest /\ p.id = p.msg.id
    /\ p.hop \in 0..p.msg.hop

TypeOK ==
    /\ scenario \in Scenarios /\ unsent \subseteq scenario.messages
    /\ \A n \in Nodes :
          /\ mac[n].state \in MacStates /\ mac[n].started \in BOOLEAN
          /\ mac[n].slots \in 0..Slots /\ mac[n].attempts \in 0..MaxAttempts
          /\ mac[n].airtime \in Nat /\ Len(mac[n].queue) <= QueueLimit
          /\ \A i \in 1..Len(mac[n].queue) : IsPacket(mac[n].queue[i])
          /\ \A i \in 1..Len(router[n].pending) : IsPacket(router[n].pending[i])
          /\ \A p \in air[n] : IsPacket(p)
          /\ Cardinality(air[n]) <= 1
    /\ missed \in Nat /\ refused \in Nat /\ lapses \in 0..MaxLapses

\* Between two expiries of the caches a node hands a message to its application
\* once and rebroadcasts it once, however many copies arrive by however many
\* ways ("Flood router never processes same packet twice").
OnceEach ==
    \A n \in Nodes, m \in AllMessages :
        delivered[n][m] <= 1 + lapses /\ forwarded[n][m] <= 1 + lapses

\* The nodes at most k hops away from src.
Spread(links, nodes) == nodes \cup {l[2] : l \in {e \in links : e[1] \in nodes}}

Balls(links, src, k) ==
    LET ball[i \in 0..k] == IF i = 0 THEN {src} ELSE Spread(links, ball[i - 1])
    IN  ball

Within(links, src, k) == Balls(links, src, k)[k]

MinHop(m) == IF m.hop > MaxHop THEN MaxHop ELSE m.hop

\* The hop limit bounds how far a message gets, and a direct message is
\* delivered to its destination only.
ReachBounded ==
    \A n \in Nodes, m \in AllMessages :
        delivered[n][m] > 0 =>
            n \in Within(scenario.links, m.src, MinHop(m) + 1) /\ m.dest \in {"all", n}

Undisturbed == missed = 0 /\ refused = 0 /\ lapses = 0 /\ \A n \in Nodes : ~Waits(n)

IsTree ==
    /\ Cardinality(scenario.links) = 2 * (Cardinality(Members) - 1)
    /\ \A x \in Members : Members \subseteq Within(scenario.links, x, Cardinality(Members))

\* In a network without loops nothing suppresses a rebroadcast wrongly: when
\* all is quiet and nothing was lost, a broadcast has reached every node its
\* hop limit allows.
TreeReached ==
    Undisturbed /\ IsTree =>
        \A m \in scenario.messages \ unsent :
            m.dest = "all" =>
                \A n \in Within(scenario.links, m.src, MinHop(m) + 1) \ {m.src} : delivered[n][m] > 0

\* A node drops its rebroadcast only for another one: when all is quiet and
\* nothing was refused, each node that has a broadcast straight from its
\* source, or one that it hears, has rebroadcast it.
NeighbourhoodServed ==
    refused = 0 /\ lapses = 0 /\ (\A n \in Nodes : ~Waits(n)) =>
        \A m \in AllMessages : \A n \in Hearers(m.src) :
            m.dest = "all" /\ MinHop(m) > 0 /\ delivered[n][m] > 0 =>
                \E x \in {n} \cup Hearers(n) : forwarded[x][m] > 0

\* A node on the air finishes its packet before it starts another.
OneAtATime == [][\A n \in Nodes : air[n] # {} => air'[n] \in {air[n], {}}]_vars

\* Every flood dies out.
FloodEnds == scenario.driver = "simulator" => <>[](\A n \in Nodes : ~Waits(n))

\* "After backoff, check channel again before transmitting" (mac.rs): a packet
\* that met a busy channel goes out when the channel is free again and again.
QueueDrains == \A n \in Nodes : mac[n].queue # <<>> ~> mac[n].queue = <<>>
=============================================================================
