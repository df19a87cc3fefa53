---------------------------- MODULE MCTaskAllocator ----------------------------
(* Small instances of TaskAllocator for TLC. *)
EXTENDS TaskAllocator, TLC

CONSTANTS r1, r2, n1, n2, n3

\* The one-way chain of MCFleetManager, and the same edges both ways.
ChainRoutes == {<<n1>>, <<n2>>, <<n3>>, <<n1, n2>>, <<n2, n3>>, <<n1, n2, n3>>}
TwoWayRoutes == ChainRoutes \cup {<<n2, n1>>, <<n3, n2>>, <<n3, n2, n1>>}

\* Every edge is one metre long.
EdgeCount == [route \in Routes |-> Len(route) - 1]

OwnSerials == [r \in Robots |-> r]

\* r1 is exactly at the limit of the battery check.
AtTheLimit == [r \in Robots |-> IF r = r1 THEN 20 ELSE 100]

\* r2 is sent where r1 comes through, for the time a task's path is reserved.
NoPosts == {}
OnePost == {<<r2, n2, n3, 2>>}

\* A load to bring to the end of the chain, and one to bring back from there.
ToTheEnd == {<<n2, n3>>}
FetchFromEnd == {<<n3, n2>>}

\* r1 is one edge away from r2, which stands in the middle.
Apart == {[r \in Robots |-> IF r = r1 THEN n1 ELSE n2]}

AllocSymmetry == Permutations(Reqs)
===============================================================================
