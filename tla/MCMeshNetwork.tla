--------------------------- MODULE MCMeshNetwork ---------------------------
(* Model checking MeshNetwork: small networks and what is sent in them. *)
EXTENDS MeshNetwork

Broadcast(src, id, hop) == [src |-> src, dest |-> "all", id |-> id, hop |-> hop]
Direct(src, dest, id)   == [src |-> src, dest |-> dest, id |-> id, hop |-> 3]

BothWays(pairs) == pairs \cup {<<l[2], l[1]>> : l \in pairs}

\* A line of four: the hop limit ends the flood one node short of the end.
LineScenario ==
    [driver |-> "simulator", losses |-> 1,
     links |-> BothWays({<<"a", "b">>, <<"b", "c">>, <<"c", "d">>}),
     messages |-> {Broadcast("a", 1, 1), Direct("c", "b", 1)}]

\* A triangle with a tail: copies come by two ways, and a rebroadcast that is
\* heard suppresses another.  The end of the tail uses the same packet id.
TriangleScenario ==
    [driver |-> "simulator", losses |-> 1,
     links |-> BothWays({<<"a", "b">>, <<"a", "c">>, <<"b", "c">>, <<"c", "d">>}),
     messages |-> {Broadcast("a", 1, 3), Broadcast("d", 1, 1)}]

\* Two nodes driven through the MAC layer, each with a packet of its own and
\* the rebroadcast of the other's.
ChannelScenario ==
    [driver |-> "mac", losses |-> 1,
     links |-> BothWays({<<"a", "b">>}),
     messages |-> {Broadcast("a", 1, 1), Broadcast("b", 1, 1)}]

Floods   == {LineScenario, TriangleScenario, ChannelScenario}
\* A queued packet and a channel that is busy now and then.
BusyChannel == {[ChannelScenario EXCEPT !.losses = 0]}
=============================================================================
