---------------------------- MODULE StoreForward ----------------------------
(***************************************************************************)
(* The store-and-forward service of a mesh node (mesh/store_forward.rs):   *)
(* a server keeps messages for nodes that are away and hands them out when *)
(* they ask.  Every call has &mut self, so the calls come one at a time.   *)
(*                                                                         *)
(* A message is its id.  Ids grow with the time of storing, so the time to *)
(* live is an id below which every message is too old.                     *)
(***************************************************************************)
EXTENDS Naturals, SequencesExt, FiniteSetsExt

CONSTANTS
    Nodes,
    MaxPerDest,    \* max_messages_per_dest
    MaxTotal,      \* max_total_messages
    MaxDelivered,  \* the 1000 ids remembered as delivered
    MaxStored      \* bound: messages stored

ASSUME StoreAssumption == {MaxPerDest, MaxTotal, MaxDelivered} \subseteq Nat \ {0} /\ MaxStored \in Nat

VARIABLES
    pending,    \* pending_messages: a queue for each of some destinations
    online,     \* of each node of node_status: whether it is online
    delivered,  \* delivered_ids
    next,       \* next_message_id
    stats,
    aged,       \* messages below it are older than message_ttl
    handed,     \* what was handed out, to whom, in order
    cleared     \* messages that clear() threw away

vars == <<pending, online, delivered, next, stats, aged, handed, cleared>>

NoMessages == [d \in {} |-> <<>>]

Init ==
    /\ pending = NoMessages /\ online = NoMessages
    /\ delivered = <<>> /\ next = 0
    /\ stats = [stored |-> 0, delivered |-> 0, expired |-> 0, dropped |-> 0, pending |-> 0, tracked |-> 0, online |-> 0]
    /\ aged = 0 /\ handed = <<>> /\ cleared = 0

Places(queues) == UNION {{d} \X DOMAIN queues[d] : d \in DOMAIN queues}
Total(queues)  == Cardinality(Places(queues))

Queue(d) == IF d \in DOMAIN pending THEN pending[d] ELSE <<>>

With(f, d, v) == [x \in DOMAIN f \cup {d} |-> IF x = d THEN v ELSE f[x]]

\* update_stats after the counters in s have changed.
Updated(s) == [s EXCEPT !.pending = Total(pending'), !.tracked = Cardinality(DOMAIN pending'),
                        !.online = Cardinality({n \in DOMAIN online' : online'[n]})]

\* Mutant: off by one.
FullBeyond(d) == Len(Queue(d)) > MaxPerDest

\* The oldest message makes room.
Full(d) == Len(Queue(d)) >= MaxPerDest
Kept(d) == IF Full(d) THEN Tail(Queue(d)) ELSE Queue(d)

\* store_message on a server, of a message that is not too large.  The total is
\* checked first, even when a message of the same destination would make room.
StoreMessage(d) ==
    /\ next < MaxStored
    /\ UNCHANGED online
    /\ \/ /\ Total(pending) >= MaxTotal
          /\ stats' = [stats EXCEPT !.dropped = @ + 1]
          /\ stats.dropped = 0   \* bound
          /\ UNCHANGED <<pending, next>>
       \/ /\ Total(pending) < MaxTotal
          /\ pending' = With(pending, d, Append(Kept(d), next))
          /\ next' = next + 1
          /\ stats' = Updated([stats EXCEPT !.stored = @ + 1, !.expired = @ + IF Full(d) THEN 1 ELSE 0])
    /\ UNCHANGED <<delivered, aged, handed, cleared>>

\* heartbeat: the statistics follow only when a known node was offline.
Heartbeat(n) ==
    /\ online' = With(online, n, TRUE)
    /\ UNCHANGED pending
    /\ stats' = IF n \in DOMAIN online /\ ~online[n] THEN Updated(stats) ELSE stats
    /\ UNCHANGED <<delivered, next, aged, handed, cleared>>

Ending(n, s) == IF Len(s) <= n THEN s ELSE SubSeq(s, Len(s) - n + 1, Len(s))

\* Mutant: what a history request leaves is put back from the newest on.
RestReversed(d, n) == Reverse(SubSeq(Queue(d), n + 1, Len(Queue(d))))

Rest(d, n) == SubSeq(Queue(d), n + 1, Len(Queue(d)))

\* The first n messages go out.
HandOut(d, n) ==
    LET out == SubSeq(Queue(d), 1, n)
    IN  /\ delivered' = Ending(MaxDelivered, delivered \o out)
        /\ handed' = handed \o [i \in 1..Len(out) |-> <<d, out[i]>>]
        /\ stats' = Updated([stats EXCEPT !.delivered = @ + Len(out)])

RetrieveMessages(d) ==
    /\ d \in DOMAIN pending
    /\ pending' = [x \in DOMAIN pending \ {d} |-> pending[x]]
    /\ UNCHANGED online
    /\ HandOut(d, Len(pending[d]))
    /\ UNCHANGED <<next, aged, cleared>>

\* retrieve_history: at most n messages; the queue stays, even when it is empty.
\* No message has the timestamp that the filter asks for.
RetrieveHistory(d, n) ==
    /\ d \in DOMAIN pending
    /\ pending' = [pending EXCEPT ![d] = Rest(d, Min({n, Len(pending[d])}))]
    /\ UNCHANGED online
    /\ HandOut(d, Min({n, Len(pending[d])}))
    /\ UNCHANGED <<next, aged, cleared>>

\* Time goes by.
Age ==
    /\ \E a \in (aged + 1)..next : aged' = a
    /\ UNCHANGED <<pending, online, delivered, next, stats, handed, cleared>>

\* What retain keeps of a queue's first i messages.
Retain(kept, message) == IF message >= aged THEN Append(kept, message) ELSE kept
Young(queue) ==
    LET young[i \in 0..Len(queue)] == IF i = 0 THEN <<>> ELSE Retain(young[i - 1], queue[i])
    IN  young

Counted(young) == Total(pending) - Total(young)

\* maintenance, when the heartbeats of some nodes are overdue.
Maintenance ==
    LET young == [d \in DOMAIN pending |-> Young(pending[d])[Len(pending[d])]]
    IN  /\ pending' = [d \in {e \in DOMAIN young : young[e] # <<>>} |-> young[d]]
        /\ \E overdue \in SUBSET DOMAIN online :
             online' = [n \in DOMAIN online |-> online[n] /\ n \notin overdue]
        /\ stats' = Updated([stats EXCEPT !.expired = @ + Counted(young)])
        /\ UNCHANGED <<delivered, next, aged, handed, cleared>>

Clear ==
    /\ pending # NoMessages
    /\ pending' = NoMessages
    /\ stats' = [stats EXCEPT !.pending = 0, !.tracked = 0]
    /\ cleared' = cleared + Total(pending)
    /\ UNCHANGED <<online, delivered, next, aged, handed>>

Next ==
    \/ \E d \in Nodes : StoreMessage(d) \/ Heartbeat(d) \/ RetrieveMessages(d)
    \/ \E d \in Nodes, n \in 0..MaxPerDest : RetrieveHistory(d, n)
    \/ Age \/ Maintenance \/ Clear

Spec == Init /\ [][Next]_vars

-----------------------------------------------------------------------------
(* Properties *)

\* Types, the limits of the storage, and statistics that tell what is stored.
TypeOK ==
    /\ DOMAIN pending \subseteq Nodes /\ online \in [DOMAIN online -> BOOLEAN] /\ DOMAIN online \subseteq Nodes
    /\ \A d \in DOMAIN pending : Len(pending[d]) <= MaxPerDest
    /\ Total(pending) <= MaxTotal
    /\ Len(delivered) <= MaxDelivered /\ next \in 0..MaxStored /\ aged \in 0..next
    /\ stats.pending = Total(pending) /\ stats.tracked = Cardinality(DOMAIN pending)

Increasing(ids) == \A i, j \in DOMAIN ids : i < j => ids[i] < ids[j]

\* What became of the messages, through evictions, history requests, expiry and
\* retrievals: each is counted once, as waiting, handed out, expired or cleared,
\* and each destination gets its own in the order they were stored, none twice.
\* The ids known as delivered are those of the last ones handed out.
HandedOnce ==
    /\ stats.stored = Total(pending) + stats.delivered + stats.expired + cleared
    /\ stats.delivered = Len(handed)
    /\ \A d \in DOMAIN pending : Increasing(pending[d])
    /\ \A i, j \in DOMAIN handed : i < j /\ handed[i][1] = handed[j][1] => handed[i][2] < handed[j][2]
    /\ \A i \in DOMAIN handed : \A k \in DOMAIN Queue(handed[i][1]) : handed[i][2] < Queue(handed[i][1])[k]
    /\ delivered = Ending(MaxDelivered, [i \in DOMAIN handed |-> handed[i][2]])
=============================================================================
