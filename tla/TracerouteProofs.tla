-------------------------- MODULE TracerouteProofs --------------------------
(***************************************************************************)
(* What TLAPS proves of Traceroute, for every mesh, every number of traces *)
(* and every max_hops: a route that is reported was walked.                *)
(*                                                                         *)
(* A result joins a trace of the source with a reply, by the id alone.  So *)
(* the invariant says, besides what each request and reply carries, that a *)
(* trace and whatever has its source and its id have the same destination. *)
(***************************************************************************)
EXTENDS Traceroute, FiniteSetTheorems, TLAPS

Traces   == [id : Nat, to : Nodes]
RequestSet == [id : Nat, from : Nodes, to : Nodes, hops : Nat, route : Seq(Nodes)]
ReplySet   == [id : Nat, from : Nodes, to : Nodes, route : Seq(Nodes), reached : BOOLEAN]
Results  == [id : Nat, to : Nodes, reached : BOOLEAN, hops : Seq(Nodes)]

Shapes ==
    /\ next \in [Nodes -> Nat]
    /\ pending \in [Nodes -> SUBSET Traces]
    /\ late \in [Nodes -> SUBSET Traces]
    /\ completed \in [Nodes -> SUBSET Results]
    /\ requests \subseteq RequestSet
    /\ replies \subseteq ReplySet

\* A route from a node, each of whose hops is a link.
WalkFrom(n, route) ==
    /\ route \in Seq(Nodes) /\ Len(route) > 0
    /\ route[1] = n
    /\ IsWalk(route)

OnTheWay(request) ==
    /\ WalkFrom(request.from, request.route)
    /\ Len(request.route) = request.hops + 1
    /\ request.hops < MaxHops

\* What a route says of its end.
EndsWell(route, to, reached) ==
    LET last == route[Len(route)]
    IN  /\ Len(route) > 1 /\ Len(route) <= MaxHops + 1
        /\ reached => last = to
        /\ ~reached => last # to /\ Len(route) = MaxHops + 1

Answer(reply) ==
    /\ WalkFrom(reply.from, reply.route)
    /\ EndsWell(reply.route, reply.to, reply.reached)

\* Ids were given out, and what has the source and the id of a trace is of it.
IdsTell ==
    /\ \A n \in Nodes : \A trace \in pending[n] : trace.id < next[n]
    /\ \A r \in requests \cup replies :
        /\ r.id < next[r.from]
        /\ \A trace \in pending[r.from] : trace.id = r.id => trace.to = r.to

Walks ==
    /\ \A request \in requests : OnTheWay(request)
    /\ \A reply \in replies : Answer(reply)

Reported(n, result) ==
    \/ result.hops = <<>> /\ ~result.reached
    \/ WalkFrom(n, result.hops) /\ EndsWell(result.hops, result.to, result.reached)

WInv ==
    /\ Shapes /\ IdsTell /\ Walks
    /\ \A n \in Nodes : \A result \in completed[n] : Reported(n, result)

\* A walk goes on over a link, and its first node stays.
LEMMA WalkGoesOn ==
    ASSUME NEW route \in Seq(Nodes), Len(route) > 0, NEW m \in Nodes, NEW n \in Nodes,
           WalkFrom(m, route), <<route[Len(route)], n>> \in Links
    PROVE  /\ WalkFrom(m, Append(route, n))
           /\ Append(route, n)[Len(Append(route, n))] = n
           /\ Len(Append(route, n)) = Len(route) + 1
<1> DEFINE longer == Append(route, n)
<1>1. /\ longer \in Seq(Nodes) /\ Len(longer) = Len(route) + 1
      /\ longer[Len(longer)] = n
      /\ \A i \in 1..Len(route) : longer[i] = route[i]
  OBVIOUS
<1>2. IsWalk(longer)
  <2> SUFFICES ASSUME NEW i \in 1..Len(route)
               PROVE  <<longer[i], longer[i + 1]>> \in Links
    BY <1>1 DEF IsWalk
  <2>1. CASE i = Len(route)
    BY <2>1, <1>1
  <2>2. CASE i # Len(route)
    <3>1. i \in 1..(Len(route) - 1) /\ i + 1 \in 1..Len(route)
      BY <2>2
    <3>2. <<route[i], route[i + 1]>> \in Links
      BY <3>1 DEF WalkFrom, IsWalk
    <3> QED BY <3>1, <3>2, <1>1
  <2> QED BY <2>1, <2>2
<1>3. longer[1] = m
  BY <1>1 DEF WalkFrom
<1> QED BY <1>1, <1>2, <1>3 DEF WalkFrom

LEMMA InitWInv == Init => WInv
  BY TraceAssumption DEF Init, WInv, Shapes, IdsTell, Walks

LEMMA StartTraceWInv ==
    ASSUME WInv, NEW n \in Tracers, NEW to \in Nodes, StartTrace(n, to)
    PROVE  WInv'
<1> DEFINE trace == [id |-> next[n], to |-> to]
           fresh == [id |-> next[n], from |-> n, to |-> to, hops |-> 0, route |-> <<n>>]
<1>1. n \in Nodes /\ next[n] \in Nat
  BY TraceAssumption DEF WInv, Shapes
<1>2. /\ next' = [next EXCEPT ![n] = @ + 1]
      /\ pending' = [pending EXCEPT ![n] = @ \cup {trace}]
      /\ requests' = requests \cup {fresh}
      /\ UNCHANGED <<late, completed, replies>>
  BY DEF StartTrace
<1>3. Shapes'
  <2>1. trace \in Traces /\ fresh \in RequestSet
    BY <1>1 DEF Traces, RequestSet
  <2> QED BY <1>1, <1>2, <2>1 DEF WInv, Shapes
<1>4. OnTheWay(fresh)
  BY <1>1, TraceAssumption DEF OnTheWay, WalkFrom, IsWalk
<1>5. Walks'
  BY <1>2, <1>4 DEF WInv, Walks, OnTheWay, Answer
<1>6. IdsTell'
  <2>1. \A m \in Nodes : next[m] \in Nat /\ next'[m] = IF m = n THEN next[m] + 1 ELSE next[m]
    BY <1>1, <1>2 DEF WInv, Shapes
  <2>2. \A m \in Nodes : pending'[m] = IF m = n THEN pending[m] \cup {trace} ELSE pending[m]
    BY <1>1, <1>2 DEF WInv, Shapes
  <2>3. \A m \in Nodes : \A t \in pending[m] : t.id \in Nat /\ t.id < next[m]
    BY DEF WInv, Shapes, IdsTell, Traces
  <2>4. \A r \in requests \cup replies :
            /\ r.from \in Nodes /\ r.id \in Nat /\ r.id < next[r.from]
            /\ \A t \in pending[r.from] : t.id = r.id => t.to = r.to
    BY DEF WInv, Shapes, IdsTell, RequestSet, ReplySet
  <2>5. \A m \in Nodes : next[m] <= next'[m] /\ next[m] \in Nat /\ next'[m] \in Nat
    BY <2>1, <1>1
  <2>6. next'[n] = next[n] + 1 /\ trace.id = next[n] /\ trace.to = to
    BY <2>1, <1>1
  <2>7. ASSUME NEW m \in Nodes, NEW t \in pending'[m]
        PROVE  t.id < next'[m]
    <3>1. CASE t \in pending[m]
      BY <3>1, <2>3, <2>5
    <3>2. CASE t \notin pending[m]
      <4>1. m = n /\ t = trace
        BY <3>2, <2>2
      <4> QED BY <4>1, <2>6, <1>1
    <3> QED BY <3>1, <3>2
  <2>8. ASSUME NEW r \in requests \cup replies
        PROVE  r.id < next'[r.from] /\ \A t \in pending'[r.from] : t.id = r.id => t.to = r.to
    <3>1. r.from \in Nodes /\ r.id \in Nat /\ r.id < next[r.from]
      BY <2>4
    <3>2. r.id < next'[r.from]
      BY <3>1, <2>5
    <3>3. ASSUME NEW t \in pending'[r.from], t.id = r.id
          PROVE  t.to = r.to
      <4>1. CASE t \in pending[r.from]
        BY <4>1, <3>3, <2>4
      <4>2. CASE t \notin pending[r.from]
        <5>1. r.from = n /\ t = trace
          BY <4>2, <3>1, <2>2
        <5> QED BY <5>1, <3>1, <3>3, <2>6, <1>1
      <4> QED BY <4>1, <4>2
    <3> QED BY <3>2, <3>3
  <2>9. fresh.id = next[n] /\ fresh.from = n /\ fresh.to = to
    OBVIOUS
  <2>10. \A t \in pending'[n] : t.id = next[n] => t.to = to
    <3> SUFFICES ASSUME NEW t \in pending'[n], t.id = next[n] PROVE t.to = to
      OBVIOUS
    <3>1. CASE t \in pending[n]
      BY <3>1, <2>3, <1>1
    <3>2. CASE t \notin pending[n]
      <4>1. t = trace
        BY <3>2, <2>2, <1>1
      <4> QED BY <4>1, <2>6
    <3> QED BY <3>1, <3>2
  <2>11. \A r \in requests' \cup replies' :
            /\ r.id < next'[r.from]
            /\ \A t \in pending'[r.from] : t.id = r.id => t.to = r.to
    <3> SUFFICES ASSUME NEW r \in requests' \cup replies'
                 PROVE  /\ r.id < next'[r.from]
                        /\ \A t \in pending'[r.from] : t.id = r.id => t.to = r.to
      OBVIOUS
    <3>1. CASE r \in requests \cup replies
      BY <3>1, <2>8
    <3>2. CASE r = fresh
      BY <3>2, <2>9, <2>10, <2>6, <1>1
    <3> QED BY <3>1, <3>2, <1>2
  <2> QED BY <2>7, <2>11 DEF IdsTell
<1>7. \A m \in Nodes : \A result \in completed'[m] : Reported(m, result)
  BY <1>2 DEF WInv
<1> QED BY <1>3, <1>5, <1>6, <1>7 DEF WInv, Reported, WalkFrom, EndsWell, IsWalk

LEMMA HandleRequestWInv ==
    ASSUME WInv, NEW n \in Nodes, NEW request \in requests, HandleRequest(n, request)
    PROVE  WInv'
<1> DEFINE added == AddHop(request, n)
<1>1. /\ request \in RequestSet /\ OnTheWay(request)
      /\ request.from \in Nodes /\ request.id \in Nat /\ request.to \in Nodes
      /\ request.hops \in Nat /\ request.route \in Seq(Nodes)
      /\ Len(request.route) > 0
  BY DEF WInv, Shapes, Walks, RequestSet, OnTheWay, WalkFrom
<1>2. /\ added \in RequestSet
      /\ added.id = request.id /\ added.from = request.from /\ added.to = request.to
      /\ added.hops = request.hops + 1 /\ added.route = Append(request.route, n)
  <2>1. Append(request.route, n) \in Seq(Nodes) /\ request.hops + 1 \in Nat
    BY <1>1
  <2> QED BY <1>1, <2>1 DEF AddHop, RequestSet
<1>3. /\ WalkFrom(added.from, added.route)
      /\ added.route[Len(added.route)] = n
      /\ Len(added.route) = added.hops + 1
      /\ added.hops = request.hops + 1 /\ added.hops <= MaxHops
      /\ added.from = request.from /\ added.id = request.id /\ added.to = request.to
  <2>1. WalkFrom(request.from, request.route) /\ Len(request.route) = request.hops + 1 /\ request.hops < MaxHops
    BY <1>1 DEF OnTheWay
  <2>2. <<request.route[Len(request.route)], n>> \in Links
    BY DEF HandleRequest
  <2>3. /\ WalkFrom(request.from, Append(request.route, n))
        /\ Append(request.route, n)[Len(Append(request.route, n))] = n
        /\ Len(Append(request.route, n)) = Len(request.route) + 1
    BY <1>1, <2>1, <2>2, WalkGoesOn
  <2> QED BY <1>1, <1>2, <2>1, <2>3, TraceAssumption
<1>4. UNCHANGED <<next, pending, late, completed>>
  BY DEF HandleRequest, manager
<1>5. ASSUME NEW reached \in BOOLEAN,
             replies' = replies \cup {Reply(added, reached)}, UNCHANGED requests,
             reached => n = added.to,
             ~reached => n # added.to /\ added.hops >= MaxHops
      PROVE  WInv'
  <2> DEFINE reply == Reply(added, reached)
  <2>1. /\ reply = [id |-> request.id, from |-> request.from, to |-> request.to,
                    route |-> added.route, reached |-> reached]
        /\ reply \in ReplySet
    BY <1>1, <1>2, <1>3, <1>5 DEF Reply, ReplySet, WalkFrom
  <2>2. Answer(reply)
    BY <1>1, <1>3, <1>5, <2>1, TraceAssumption, SMTT(30) DEF Answer, EndsWell
  <2>3. Shapes'
    BY <1>4, <1>5, <2>1 DEF WInv, Shapes
  <2>4. Walks'
    BY <1>5, <2>2 DEF WInv, Walks, OnTheWay, Answer
  <2>5. IdsTell'
    <3>1. /\ request.id < next[request.from]
          /\ \A trace \in pending[request.from] : trace.id = request.id => trace.to = request.to
      BY DEF WInv, IdsTell
    <3> QED BY <1>4, <1>5, <2>1, <3>1 DEF WInv, IdsTell
  <2> QED BY <1>4, <2>3, <2>4, <2>5 DEF WInv, Reported
<1>6. CASE added.hops < MaxHops /\ requests' = requests \cup {added} /\ UNCHANGED replies
  <2>1. OnTheWay(added)
    BY <1>3, <1>6 DEF OnTheWay
  <2>2. Shapes'
    BY <1>2, <1>4, <1>6 DEF WInv, Shapes
  <2>3. Walks'
    BY <1>6, <2>1 DEF WInv, Walks, OnTheWay, Answer
  <2>4. IdsTell'
    <3>1. /\ request.id < next[request.from]
          /\ \A trace \in pending[request.from] : trace.id = request.id => trace.to = request.to
      BY DEF WInv, IdsTell
    <3> QED BY <1>3, <1>4, <1>6, <3>1 DEF WInv, IdsTell
  <2> QED BY <1>4, <2>2, <2>3, <2>4 DEF WInv, Reported
<1> QED BY <1>5, <1>6 DEF HandleRequest

\* A trace that is over leaves a result, or none.
LEMMA FinishWInv ==
    ASSUME WInv, NEW n \in Nodes, NEW traces \in SUBSET pending[n], NEW results \in SUBSET Results,
           \A result \in results : Reported(n, result),
           Finish(n, traces, results)
    PROVE  WInv'
<1>1. /\ pending' = [pending EXCEPT ![n] = @ \ traces]
      /\ late' = [late EXCEPT ![n] = @ \ traces]
      /\ completed' = [completed EXCEPT ![n] = @ \cup results]
      /\ UNCHANGED <<next, requests, replies>>
  BY DEF Finish
<1>2. Shapes'
  BY <1>1 DEF WInv, Shapes
<1>3. \A m \in Nodes : pending'[m] \subseteq pending[m]
  BY <1>1 DEF WInv, Shapes
<1>4. \A r \in requests \cup replies : r.from \in Nodes
  BY DEF WInv, Shapes, RequestSet, ReplySet
<1>5. IdsTell'
  BY <1>1, <1>3, <1>4 DEF WInv, IdsTell
<1>6. \A m \in Nodes : \A result \in completed'[m] : Reported(m, result)
  BY <1>1 DEF WInv, Shapes
<1>7. Walks'
  BY <1>1 DEF WInv, Walks, OnTheWay, Answer
<1> QED BY <1>2, <1>5, <1>6, <1>7 DEF WInv, Reported

LEMMA HandleReplyWInv ==
    ASSUME WInv, NEW n \in Nodes, NEW reply \in replies, HandleReply(n, reply)
    PROVE  WInv'
<1>1. PICK trace \in pending[n] :
          /\ trace.id = reply.id
          /\ Finish(n, {trace}, {[id |-> trace.id, to |-> trace.to, reached |-> reply.reached, hops |-> reply.route]})
  BY DEF HandleReply
<1> DEFINE result == [id |-> trace.id, to |-> trace.to, reached |-> reply.reached, hops |-> reply.route]
<1>2. reply.from = n
  BY DEF HandleReply
<1>3. trace.to = reply.to
  BY <1>1, <1>2 DEF WInv, IdsTell
<1>4. result \in Results
  BY DEF WInv, Shapes, Traces, Results, ReplySet
<1>5. Reported(n, result)
  BY <1>2, <1>3 DEF WInv, Walks, Answer, Reported
<1> QED BY <1>1, <1>4, <1>5, FinishWInv

\* What has waited for the timeout is still waiting.
LateWaits == \A n \in Nodes : late[n] \subseteq pending[n]

LEMMA CheckTimeoutsWInv ==
    ASSUME WInv, LateWaits, NEW n \in Nodes, CheckTimeouts(n)
    PROVE  WInv'
<1>1. TimedOut(n) \subseteq Results
  <2>1. \A t \in late[n] : t.id \in Nat /\ t.to \in Nodes
    BY DEF WInv, Shapes, Traces
  <2>2. <<>> \in Seq(Nodes)
    OBVIOUS
  <2>3. ASSUME NEW result \in TimedOut(n)
        PROVE  result \in Results
    <3>1. PICK t \in late[n] : result = [id |-> t.id, to |-> t.to, reached |-> FALSE, hops |-> <<>>]
      BY DEF TimedOut
    <3> QED BY <2>1, <2>2, <3>1 DEF Results
  <2> QED BY <2>3
<1>2. \A result \in TimedOut(n) : Reported(n, result)
  BY DEF TimedOut, Reported
<1>3. late[n] \subseteq pending[n]
  BY DEF LateWaits
<1> QED BY <1>1, <1>2, <1>3, FinishWInv DEF CheckTimeouts

LEMMA FinishLateWaits ==
    ASSUME WInv, LateWaits, NEW n \in Nodes, NEW traces, NEW results, Finish(n, traces, results)
    PROVE  LateWaits'
  BY DEF Finish, LateWaits, WInv, Shapes

LEMMA NextWInv == WInv /\ LateWaits /\ [Next]_vars => WInv' /\ LateWaits'
<1> SUFFICES ASSUME WInv, LateWaits, [Next]_vars PROVE WInv' /\ LateWaits'
  OBVIOUS
<1>1. ASSUME NEW n \in Tracers, NEW to \in Nodes, StartTrace(n, to)
      PROVE  WInv' /\ LateWaits'
  BY <1>1, StartTraceWInv, TraceAssumption DEF StartTrace, LateWaits, WInv, Shapes
<1>2. ASSUME NEW n \in Nodes, NEW request \in requests, HandleRequest(n, request)
      PROVE  WInv' /\ LateWaits'
  BY <1>2, HandleRequestWInv DEF HandleRequest, manager, LateWaits
<1>3. ASSUME NEW n \in Nodes, NEW reply \in replies, HandleReply(n, reply)
      PROVE  WInv' /\ LateWaits'
  BY <1>3, HandleReplyWInv, FinishLateWaits DEF HandleReply
<1>4. ASSUME NEW n \in Nodes, Elapse(n)
      PROVE  WInv' /\ LateWaits'
  <2>1. PICK trace \in pending[n] : late' = [late EXCEPT ![n] = @ \cup {trace}]
    BY <1>4 DEF Elapse
  <2>2. UNCHANGED <<next, pending, completed, requests, replies>>
    BY <1>4 DEF Elapse
  <2>3. Shapes' /\ LateWaits'
    BY <2>1, <2>2 DEF WInv, Shapes, LateWaits
  <2> QED BY <2>2, <2>3 DEF WInv, IdsTell, Walks, OnTheWay, Answer, Reported
<1>5. ASSUME NEW n \in Nodes, CheckTimeouts(n)
      PROVE  WInv' /\ LateWaits'
  BY <1>5, CheckTimeoutsWInv, FinishLateWaits DEF CheckTimeouts
<1>6. ASSUME NEW n \in Nodes, ClearCompleted(n)
      PROVE  WInv' /\ LateWaits'
  <2>1. completed' = [completed EXCEPT ![n] = {}] /\ UNCHANGED <<next, pending, late, requests, replies>>
    BY <1>6 DEF ClearCompleted
  <2>2. \A m \in Nodes : completed'[m] \subseteq completed[m]
    BY <2>1 DEF WInv, Shapes
  <2>3. Shapes' /\ LateWaits'
    BY <2>1 DEF WInv, Shapes, LateWaits
  <2>4. \A m \in Nodes : \A result \in completed'[m] : Reported(m, result)
    BY <2>2 DEF WInv
  <2> QED BY <2>1, <2>3, <2>4 DEF WInv, IdsTell, Walks, OnTheWay, Answer, Reported
<1>7. CASE UNCHANGED vars
  BY <1>7 DEF vars, manager, WInv, Shapes, IdsTell, Walks, OnTheWay, Answer, Reported, LateWaits
<1> QED BY <1>1, <1>2, <1>3, <1>4, <1>5, <1>6, <1>7 DEF Next

\* A route that is reported was walked (traceroute.rs: add_hop, handle_request,
\* handle_reply): in every mesh, however requests and replies are lost, doubled
\* or reordered, and although ids of different nodes coincide.
THEOREM RoutesWalked == Spec => []RouteIsWalk
<1>1. Init => WInv /\ LateWaits
  BY InitWInv DEF Init, LateWaits
<1>2. WInv => RouteIsWalk
  <2> SUFFICES ASSUME WInv, NEW n \in Nodes, NEW result \in completed[n],
                      ~(result.hops = <<>> /\ ~result.reached)
               PROVE  LET last == result.hops[Len(result.hops)]
                      IN  /\ result.hops[1] = n /\ Len(result.hops) > 1
                          /\ IsWalk(result.hops)
                          /\ Len(result.hops) <= MaxHops + 1
                          /\ result.reached => last = result.to
                          /\ ~result.reached => last # result.to /\ Len(result.hops) = MaxHops + 1
    BY DEF RouteIsWalk
  <2> QED BY DEF WInv, Reported, WalkFrom, EndsWell
<1> QED BY <1>1, <1>2, NextWInv, PTL DEF Spec

-----------------------------------------------------------------------------
(* A trace ends exactly once.                                              *)

TInv ==
    /\ next \in [Nodes -> Nat]
    /\ pending \in [Nodes -> SUBSET Traces] /\ late \in [Nodes -> SUBSET Traces]
    /\ ended \in [Nodes -> [Ids -> Nat]]
    /\ TypeOK

\* How often a trace should have been reported.
Due(n, id) == IF id < next[n] /\ (\A t \in pending[n] : t.id # id) THEN 1 ELSE 0

\* What Finish is called with, by a reply or by the timeout, waits until then.
LEMMA FinishTInv ==
    ASSUME TInv, NEW n \in Nodes, NEW traces \in SUBSET pending[n], NEW results, Finish(n, traces, results)
    PROVE  TInv'
<1> DEFINE of(id) == {t \in traces : t.id = id}
<1>1. /\ next' = next
      /\ pending' = [pending EXCEPT ![n] = @ \ traces]
      /\ late' = [late EXCEPT ![n] = @ \ traces]
      /\ ended' = [ended EXCEPT ![n] = [id \in Ids |-> @[id] + Cardinality(of(id))]]
  BY DEF Finish
<1>2. ASSUME NEW id \in Ids
      PROVE  /\ Cardinality(of(id)) \in Nat
             /\ ended[n][id] + Cardinality(of(id)) = Due(n, id)'
  <2>1. /\ \A t, u \in pending[n] : t.id = u.id => t = u
        /\ ended[n][id] = Due(n, id)
        /\ \A t \in pending[n] : t.id \in Nat /\ t.id < next[n]
        /\ next[n] \in Nat
    BY DEF TInv, TypeOK, Due
  <2>2. pending'[n] = pending[n] \ traces
    BY <1>1 DEF TInv
  <2>3. CASE \E t \in traces : t.id = id
    <3>1. PICK t \in traces : t.id = id
      BY <2>3
    <3>2. of(id) = {t}
      BY <2>1, <3>1
    <3>3. Cardinality(of(id)) = 1
      BY <3>2, FS_Singleton
    <3>4. ended[n][id] = 0
      BY <2>1, <3>1 DEF Due
    <3>5. id < next'[n] /\ \A u \in pending'[n] : u.id # id
      BY <1>1, <2>1, <2>2, <3>1
    <3> QED BY <3>3, <3>4, <3>5 DEF Due
  <2>4. CASE \A t \in traces : t.id # id
    <3>1. of(id) = {}
      BY <2>4
    <3>2. Cardinality(of(id)) = 0
      BY <3>1, FS_EmptySet
    <3>3. (\A t \in pending'[n] : t.id # id) <=> (\A t \in pending[n] : t.id # id)
      BY <2>2, <2>4
    <3>4. Due(n, id)' = Due(n, id)
      BY <1>1, <3>3 DEF Due
    <3>5. Due(n, id) \in Nat
      BY DEF Due
    <3> QED BY <2>1, <3>2, <3>4, <3>5
  <2> QED BY <2>3, <2>4
<1>3. /\ ended' \in [Nodes -> [Ids -> Nat]]
      /\ \A m \in Nodes, id \in Ids :
            ended'[m][id] = IF m = n THEN ended[n][id] + Cardinality(of(id)) ELSE ended[m][id]
  <2> HIDE DEF of
  <2>1. \A id \in Ids : ended[n][id] + Cardinality(of(id)) \in Nat
    BY <1>2 DEF TInv
  <2> QED BY <1>1, <2>1 DEF TInv
<1>4. /\ pending' \in [Nodes -> SUBSET Traces] /\ late' \in [Nodes -> SUBSET Traces]
      /\ \A m \in Nodes : pending'[m] \subseteq pending[m] /\ late'[m] \subseteq pending'[m]
      /\ \A m \in Nodes : m # n => pending'[m] = pending[m]
  BY <1>1 DEF TInv, TypeOK
<1>5. \A m \in Nodes, id \in Ids : ended'[m][id] = Due(m, id)'
  <2> SUFFICES ASSUME NEW m \in Nodes, NEW id \in Ids PROVE ended'[m][id] = Due(m, id)'
    OBVIOUS
  <2> HIDE DEF of
  <2>1. CASE m = n
    BY <2>1, <1>2, <1>3
  <2>2. CASE m # n
    <3>1. ended[m][id] = Due(m, id)
      BY DEF TInv, TypeOK, Due
    <3>2. Due(m, id)' = Due(m, id)
      BY <2>2, <1>1, <1>4 DEF Due
    <3> QED BY <2>2, <1>3, <3>1, <3>2
  <2> QED BY <2>1, <2>2
<1>6. TypeOK'
  BY <1>1, <1>4, <1>5, ZenonT(40) DEF TInv, TypeOK, Due
<1> QED BY <1>1, <1>3, <1>4, <1>6 DEF TInv

LEMMA StartTraceTInv ==
    ASSUME TInv, NEW n \in Tracers, NEW to \in Nodes, StartTrace(n, to)
    PROVE  TInv'
<1> DEFINE trace == [id |-> next[n], to |-> to]
<1>1. /\ n \in Nodes
      /\ next' = [next EXCEPT ![n] = @ + 1]
      /\ pending' = [pending EXCEPT ![n] = @ \cup {trace}]
      /\ late' = late /\ ended' = ended
  BY TraceAssumption DEF StartTrace
<1>2. \A m \in Nodes : next[m] \in Nat \ {0} /\ \A t \in pending[m] : t.id \in 1..(next[m] - 1) /\ t.to \in Nodes
  BY DEF TInv, TypeOK
<1>3. trace \in Traces /\ trace.id = next[n] /\ trace.to = to
  BY <1>1, <1>2 DEF Traces
<1>4. /\ next' \in [Nodes -> Nat \ {0}]
      /\ next'[n] = next[n] + 1 /\ pending'[n] = pending[n] \cup {trace}
      /\ \A m \in Nodes : m # n => next'[m] = next[m] /\ pending'[m] = pending[m]
  BY <1>1, <1>2 DEF TInv, TypeOK
<1> HIDE DEF trace
<1>5. pending' \in [Nodes -> SUBSET Traces]
  BY <1>1, <1>3 DEF TInv
<1>6. ASSUME NEW m \in Nodes
      PROVE  /\ pending'[m] \subseteq [id : 1..(next'[m] - 1), to : Nodes]
             /\ late'[m] \subseteq pending'[m]
             /\ \A t, u \in pending'[m] : t.id = u.id => t = u
             /\ \A id \in Ids : ended'[m][id] = Due(m, id)'
  <2>0. /\ pending[m] \subseteq [id : 1..(next[m] - 1), to : Nodes]
        /\ late[m] \subseteq pending[m]
        /\ \A t, u \in pending[m] : t.id = u.id => t = u
        /\ \A id \in Ids : ended[m][id] = Due(m, id)
        /\ next[m] \in Nat \ {0}
    BY DEF TInv, TypeOK, Due
  <2>1. CASE m # n
    BY <1>1, <1>4, <2>0, <2>1 DEF Due
  <2>2. CASE m = n
    <3>1. \A t \in pending[n] : t.id # next[n]
      BY <1>1, <1>2
    <3>2. pending'[n] \subseteq [id : 1..(next'[n] - 1), to : Nodes]
      <4>1. 1..(next[n] - 1) \subseteq 1..(next'[n] - 1) /\ next[n] \in 1..(next'[n] - 1)
        BY <1>1, <1>2, <1>4
      <4>2. trace \in [id : 1..(next'[n] - 1), to : Nodes]
        BY <4>1, <1>4 DEF trace
      <4> QED BY <4>1, <4>2, <1>4, <2>0, <2>2
    <3>3. \A t, u \in pending'[n] : t.id = u.id => t = u
      BY <1>3, <1>4, <2>0, <2>2, <3>1
    <3>4. ASSUME NEW id \in Ids
          PROVE  Due(n, id)' = Due(n, id)
      <4>0. id \in Nat /\ next[n] \in Nat /\ next'[n] = next[n] + 1
        BY <1>1, <1>2, <1>4, TraceAssumption DEF Ids
      <4>1. CASE id = next[n]
        BY <4>0, <4>1, <1>3, <1>4 DEF Due
      <4>2. CASE id # next[n]
        <5>1. (id < next'[n]) <=> (id < next[n])
          BY <4>0, <4>2
        <5>2. (\A t \in pending'[n] : t.id # id) <=> (\A t \in pending[n] : t.id # id)
          BY <4>2, <1>3, <1>4
        <5> QED BY <5>1, <5>2 DEF Due
      <4> QED BY <4>1, <4>2
    <3> QED BY <1>1, <1>4, <2>0, <2>2, <3>2, <3>3, <3>4
  <2> QED BY <2>1, <2>2
<1>7. TypeOK'
  BY <1>4, <1>6 DEF TypeOK, Due
<1> QED BY <1>1, <1>4, <1>5, <1>7 DEF TInv

\* A trace waits or was reported, exactly once (traceroute.rs: handle_reply
\* takes it out of the pending ones before check_timeouts can, or after): the
\* types, for any number of nodes and traces.
THEOREM TracesEndOnce == Spec => []TypeOK
<1>1. Init => TInv
  <2> SUFFICES ASSUME Init PROVE TInv
    OBVIOUS
  <2>1. \A id \in Ids : id \in Nat /\ id >= 1
    BY TraceAssumption DEF Ids
  <2> QED BY <2>1 DEF Init, TInv, TypeOK
<1>2. TInv /\ [Next]_vars => TInv'
  <2> SUFFICES ASSUME TInv, [Next]_vars PROVE TInv'
    OBVIOUS
  <2>1. ASSUME NEW n \in Tracers, NEW to \in Nodes, StartTrace(n, to)
        PROVE  TInv'
    BY <2>1, StartTraceTInv
  <2>2. ASSUME NEW n \in Nodes, NEW reply \in replies, HandleReply(n, reply)
        PROVE  TInv'
    BY <2>2, FinishTInv DEF HandleReply
  <2>3. ASSUME NEW n \in Nodes, CheckTimeouts(n)
        PROVE  TInv'
    <3>1. late[n] \subseteq pending[n]
      BY DEF TInv, TypeOK
    <3> QED BY <2>3, <3>1, FinishTInv DEF CheckTimeouts
  <2>4. ASSUME NEW n \in Nodes, Elapse(n)
        PROVE  TInv'
    BY <2>4 DEF Elapse, TInv, TypeOK
  <2>5. CASE UNCHANGED <<next, pending, late, ended>>
    BY <2>5 DEF TInv, TypeOK
  <2> QED BY <2>1, <2>2, <2>3, <2>4, <2>5 DEF Next, HandleRequest, ClearCompleted, manager, vars
<1>3. TInv => TypeOK
  BY DEF TInv
<1> QED BY <1>1, <1>2, <1>3, PTL DEF Spec
=============================================================================
