--------------------------- MODULE MCTraceroute ---------------------------
(* Model checking Traceroute: a line of four nodes whose end is one hop too *)
(* far for the node at its head; traces of two nodes get the same ids.        *)
EXTENDS Traceroute

Line == {<<1, 2>>, <<2, 1>>, <<2, 3>>, <<3, 2>>, <<3, 4>>, <<4, 3>>}
=============================================================================
