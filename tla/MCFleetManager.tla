---------------------------- MODULE MCFleetManager ----------------------------
(* Small instances of FleetManager for TLC. *)
EXTENDS FleetManager, TLC

CONSTANTS r1, r2, n1, n2, n3

\* The map core/static/assets/graph.json cut to three nodes: a one-way chain.
ChainRoutes == {<<n1>>, <<n2>>, <<n3>>, <<n1, n2>>, <<n2, n3>>, <<n1, n2, n3>>}

\* The shortest routes over the same nodes when every edge can be driven both ways.
TwoWayRoutes == ChainRoutes \cup {<<n2, n1>>, <<n3, n2>>, <<n3, n2, n1>>}

\* Serial numbers that tell the robots apart.
OwnSerials == [r \in Robots |-> r]

\* Two orders that meet in n2: the target of one robot is where the other stands.
CrossingPosts == {<<r1, n1, n2, 2>>, <<r2, n2, n3, 1>>}

\* One robot: one order to the end of the chain or two on the way, a target that has
\* no route, times to live that Redis refuses.
RowOfPosts == {<<r1, n1, n3, 2>>, <<r1, n1, n2, 1>>, <<r1, n2, n3, 2>>,
               <<r1, n3, n1, 1>>, <<r1, n1, n1, 0>>, <<r1, n1, n1, 3>>}

\* There and back again on edges that can be driven both ways.
ThereAndBack == {<<r1, n1, n2, 2>>, <<r1, n2, n1, 2>>}

\* r1 has reported no node yet, r2 stands in the middle of the chain.
OneUnreported == {[r \in Robots |-> IF r = r1 THEN NoNode ELSE n2]}
AtTheStart == {[r \in Robots |-> n1]}

FullCharge == [r \in Robots |-> 100]

CoreSymmetry == Permutations(Reqs) \cup Permutations(Slots)
===============================================================================
