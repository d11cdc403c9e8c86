---------------------------- MODULE FloodRouter ----------------------------
(***************************************************************************)
(* Managed flooding of r4w-core/src/mesh/routing.rs: DuplicateCache and    *)
(* FloodRouter, as operators on the record of one router.  seen holds the  *)
(* keys whose entry is younger than the time to live, which is all the     *)
(* cache ever tells apart (max_size only makes it clean up earlier).       *)
(* pending holds the packets that wait to be rebroadcast, in the order in  *)
(* which they came; ready says that the delay of the first one is over.    *)
(***************************************************************************)
EXTENDS Integers, Sequences

\* A packet is src, dest, id and hop (its hop_limit), and msg, the message it
\* carries, which stands for the payload.
Key(p) == <<p.src, p.id>>

NewRouter == [seen |-> {}, pending |-> <<>>, heard |-> {}]

\* Mutant: the packet is looked up and not remembered.
Unremembered(router, p) == router

Remembered(router, p) == [router EXCEPT !.seen = @ \cup {Key(p)}]

Delivers(node, p) == p.dest = "all" \/ p.dest = node

\* Mutants: a packet with no hops left goes on as well; the last hop is saved.
RebroadcastsAtZero(node, p) == p.dest = "all" /\ p.src # node
RebroadcastsAboveOne(node, p) == p.dest = "all" /\ p.hop > 1 /\ p.src # node

Rebroadcasts(node, p) == p.dest = "all" /\ p.hop > 0 /\ p.src # node

OneHopLess(p) == IF p.hop > 0 THEN [p EXCEPT !.hop = @ - 1] ELSE p

\* process_incoming
IsNew(router, p) == Key(p) \notin router.seen

Heard(router, p) == [router EXCEPT !.heard = @ \cup {Key(p)}]

Waiting(router, node, p) ==
    IF Rebroadcasts(node, p)
    THEN [router EXCEPT !.pending = Append(@, OneHopLess(p))]
    ELSE router

ProcessIncoming(router, node, p) ==
    IF IsNew(router, p) THEN Waiting(Remembered(router, p), node, p) ELSE Heard(router, p)

\* get_pending_rebroadcast: the packet to send, and the router afterwards.
\* Mutants: the wrong set is asked; a suppressed packet stays at the front.
SuppressedOnceSeen(router) == Key(Head(router.pending)) \in router.seen

Suppressed(router) == Key(Head(router.pending)) \in router.heard

KeepSuppressed(router) ==
    IF Suppressed(router) THEN router ELSE [router EXCEPT !.pending = Tail(@)]

PopPending(router) ==
    [router EXCEPT !.pending = Tail(@), !.heard = @ \ {Key(Head(router.pending))}]

Expired(router) == [router EXCEPT !.seen = {}]
=============================================================================
