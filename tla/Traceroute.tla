----------------------------- MODULE Traceroute -----------------------------
(***************************************************************************)
(* Route tracing over the mesh (mesh/traceroute.rs).  A request collects   *)
(* the nodes it passes; the destination, or the node where it runs out of  *)
(* hops, sends back a reply with the route; the source waits for the first *)
(* reply or gives up after a timeout.                                      *)
(*                                                                         *)
(* The transport is external: a request that is forwarded reaches any      *)
(* neighbour, a reply the source it names, each of them never, once or     *)
(* again, in any order.  So what was sent stays in a set.                  *)
(***************************************************************************)
EXTENDS Naturals, Sequences, FiniteSets

CONSTANTS
    Nodes,
    Links,     \* pairs of neighbours
    Tracers,   \* nodes that start traces
    MaxHops,   \* max_hops
    MaxTraces  \* bound: traces started

ASSUME TraceAssumption ==
    /\ Links \subseteq Nodes \X Nodes
    /\ Tracers \subseteq Nodes
    /\ MaxHops \in Nat \ {0} /\ MaxTraces \in Nat

VARIABLES
    next,       \* next_request_id
    pending,    \* of each node: its traces that wait
    late,       \* those that have waited for the timeout
    completed,  \* of each node: the results
    ended,      \* of each node: how often each trace was reported
    requests,   \* on the air
    replies

manager == <<next, pending, late, completed, ended>>
vars == <<manager, requests, replies>>

Ids == 1..MaxTraces

Init ==
    /\ next = [n \in Nodes |-> 1]
    /\ pending = [n \in Nodes |-> {}]
    /\ late = [n \in Nodes |-> {}]
    /\ completed = [n \in Nodes |-> {}]
    /\ ended = [n \in Nodes |-> [id \in Ids |-> 0]]
    /\ requests = {} /\ replies = {}

\* start_trace.
StartTrace(n, to) ==
    /\ next[n] <= MaxTraces /\ Cardinality({r \in requests : r.hops = 0}) < MaxTraces
    /\ next' = [next EXCEPT ![n] = @ + 1]
    /\ pending' = [pending EXCEPT ![n] = @ \cup {[id |-> next[n], to |-> to]}]
    /\ requests' = requests \cup {[id |-> next[n], from |-> n, to |-> to, hops |-> 0, route |-> <<n>>]}
    /\ UNCHANGED <<late, completed, ended, replies>>

\* Mutant: the hop is counted and not recorded.
CountHop(request, n) == [request EXCEPT !.hops = @ + 1]

AddHop(request, n) == [request EXCEPT !.hops = @ + 1, !.route = Append(@, n)]

Reply(request, reached) ==
    [id |-> request.id, from |-> request.from, to |-> request.to, route |-> request.route, reached |-> reached]

\* handle_request, at a node that hears the one the request passed last.
HandleRequest(n, request) ==
    LET added == AddHop(request, n)
    IN  /\ <<request.route[Len(request.route)], n>> \in Links
        /\ \/ /\ n = added.to
              /\ replies' = replies \cup {Reply(added, TRUE)} /\ UNCHANGED requests
           \/ /\ n # added.to /\ added.hops >= MaxHops
              /\ replies' = replies \cup {Reply(added, FALSE)} /\ UNCHANGED requests
           \/ /\ n # added.to /\ added.hops < MaxHops
              /\ requests' = requests \cup {added} /\ UNCHANGED replies
        /\ UNCHANGED manager

\* The trace is over: it waits no more and is reported.
Finish(n, traces, results) ==
    /\ pending' = [pending EXCEPT ![n] = @ \ traces]
    /\ late' = [late EXCEPT ![n] = @ \ traces]
    /\ completed' = [completed EXCEPT ![n] = @ \cup results]
    /\ ended' = [ended EXCEPT ![n] = [id \in Ids |-> @[id] + Cardinality({t \in traces : t.id = id})]]
    /\ UNCHANGED <<next, requests, replies>>

\* handle_reply, at the source: known by the id of the trace alone.
HandleReply(n, reply) ==
    /\ reply.from = n
    /\ \E trace \in pending[n] :
        /\ trace.id = reply.id
        /\ Finish(n, {trace}, {[id |-> trace.id, to |-> trace.to, reached |-> reply.reached, hops |-> reply.route]})

\* The timeout of a trace elapses.
Elapse(n) ==
    /\ \E trace \in pending[n] \ late[n] : late' = [late EXCEPT ![n] = @ \cup {trace}]
    /\ UNCHANGED <<next, pending, completed, ended, requests, replies>>

TimedOut(n) == {[id |-> t.id, to |-> t.to, reached |-> FALSE, hops |-> <<>>] : t \in late[n]}

\* Mutant: the traces that are reported stay pending.
ReportsOnly(n) ==
    /\ late[n] # {}
    /\ completed' = [completed EXCEPT ![n] = @ \cup TimedOut(n)]
    /\ late' = [late EXCEPT ![n] = {}]
    /\ ended' = [ended EXCEPT ![n] = [id \in Ids |-> @[id] + Cardinality({t \in late[n] : t.id = id})]]
    /\ UNCHANGED <<next, pending, requests, replies>>

\* Mutant: the comparison is the wrong way round.
KeepsLate(n) ==
    /\ pending[n] \ late[n] # {}
    /\ Finish(n, pending[n] \ late[n], {})

CheckTimeouts(n) ==
    /\ late[n] # {}
    /\ Finish(n, late[n], TimedOut(n))

ClearCompleted(n) ==
    /\ completed[n] # {}
    /\ completed' = [completed EXCEPT ![n] = {}]
    /\ UNCHANGED <<next, pending, late, ended, requests, replies>>

Next ==
    \/ \E n \in Tracers, to \in Nodes : StartTrace(n, to)
    \/ \E n \in Nodes : (\E request \in requests : HandleRequest(n, request))
                        \/ (\E reply \in replies : HandleReply(n, reply))
                        \/ Elapse(n) \/ CheckTimeouts(n) \/ ClearCompleted(n)

Spec == Init /\ [][Next]_vars

\* Time goes by and the node looks for timeouts again and again.
FairSpec == Spec /\ \A n \in Nodes : WF_vars(Elapse(n)) /\ WF_vars(CheckTimeouts(n))

-----------------------------------------------------------------------------
(* Properties *)

\* Types; and a trace is either waiting or was reported, exactly once, whatever
\* replies come early, late, twice or never.
TypeOK ==
    /\ next \in [Nodes -> Nat \ {0}]
    /\ \A n \in Nodes :
        /\ pending[n] \subseteq [id : 1..(next[n] - 1), to : Nodes] /\ late[n] \subseteq pending[n]
        /\ \A t, u \in pending[n] : t.id = u.id => t = u
        /\ \A id \in Ids : ended[n][id] = IF id < next[n] /\ (\A t \in pending[n] : t.id # id) THEN 1 ELSE 0

IsWalk(route) == \A i \in 1..(Len(route) - 1) : <<route[i], route[i + 1]>> \in Links

\* A route that is reported was walked: it starts at the node that asked, each
\* node heard the one before it, it ends at the destination exactly if that was
\* reached, and then within max_hops, else where the hops ran out.  Only a trace
\* that timed out has no route.
RouteIsWalk ==
    \A n \in Nodes : \A result \in completed[n] :
        \/ result.hops = <<>> /\ ~result.reached
        \/ LET last == result.hops[Len(result.hops)]
           IN  /\ result.hops[1] = n /\ Len(result.hops) > 1
               /\ IsWalk(result.hops)
               /\ Len(result.hops) <= MaxHops + 1
               /\ result.reached => last = result.to
               /\ ~result.reached => last # result.to /\ Len(result.hops) = MaxHops + 1

\* A trace ends, although replies may be lost.
TraceEnds == \A n \in Tracers, id \in Ids, to \in Nodes :
    [id |-> id, to |-> to] \in pending[n] ~> [id |-> id, to |-> to] \notin pending[n]
=============================================================================
