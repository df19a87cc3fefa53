-------------------------------- MODULE Planner --------------------------------
(***************************************************************************)
(* The topological router (core/src/router/planner.rs): the graph file is  *)
(* read once, find_path runs petgraph's A* over it, and a RoutePlan becomes *)
(* the nodes and edges of a VDA 5050 order.  Lengths and coordinates are   *)
(* integers of which Unit make a millimetre, so that the cut to whole      *)
(* millimetres is a division.  A* itself is external: a node is popped     *)
(* whose estimate is least, ties are broken either way, and a node whose   *)
(* score sinks is opened again.                                            *)
(***************************************************************************)
EXTENDS Integers, Sequences, FiniteSetsExt

CONSTANTS
  Ids,     \* node ids that a graph file or a request may name
  Unit,    \* lengths in a millimetre
  Files    \* graph files: pos, where its nodes are, and the list of its edges

MapEdge == [from : Ids, to : Ids, len : Int]

ASSUME PlannerAssumption ==
  /\ Unit \in Nat \ {0}
  /\ \A f \in Files :
       /\ \E known \in SUBSET Ids : f.pos \in [known -> Int \X Int]
       /\ f.edges \in Seq(MapEdge)

VARIABLES
  pos,           \* node_lookup and the coordinates of the nodes
  graph,         \* the edges that were added, numbered in the order of the file
  pc,            \* where find_path is
  from, to,      \* start_id and target_id
  open, score, pred,   \* A*: visit_next, scores and the path tracker
  path,          \* path_indices, traced from the target back to the start
  plan           \* the last answer of find_path

network == <<pos, graph>>
request == <<from, to>>
search == <<open, score, pred>>
vars == <<network, pc, request, search, path, plan>>

NoPlan == [nodes |-> << >>, edges |-> << >>, dist |-> 0]
-------------------------------------------------------------------------------
(* The graph. *)

\* add_edge is an error, and from_file only warns, when an end is unknown.
HasBothEnds(e, known) == e.from \in known /\ e.to \in known

\* from_file: the nodes, then the edges in the order of the file.
Load(f) ==
  /\ pos = f.pos
  /\ graph = [i \in {j \in DOMAIN f.edges : HasBothEnds(f.edges[j], DOMAIN f.pos)} |->
                f.edges[i]]

\* main goes on with an empty router when the file cannot be read or parsed.
EmptyRouter == pos = << >> /\ graph = << >>

\* Mutants: rounded up; signed.
RoundedUp(len) == IF len < 0 THEN 0 ELSE (len + Unit - 1) \div Unit
Signed(len) == len \div Unit

\* f64 as u64 cuts towards zero and turns what is negative into zero.
Millimetres(len) == IF len < 0 THEN 0 ELSE len \div Unit

Cost(e) == Millimetres(e.len)

SquareOf(a, b) ==
  LET dx == pos[a][1] - pos[b][1]  dy == pos[a][2] - pos[b][2] IN dx * dx + dy * dy

\* The straight line between two nodes, cut to a whole length.
Straight(a, b) ==
  CHOOSE d \in 0..SquareOf(a, b) :
    d * d <= SquareOf(a, b) /\ SquareOf(a, b) < (d + 1) * (d + 1)

Heuristic(n) == Millimetres(Straight(n, to))

\* Mutants: an UnGraph, whose edges lead both ways; what costs nothing is no edge.
BothWays == LET E == {graph[i] : i \in DOMAIN graph}
            IN  E \cup {[from |-> e.to, to |-> e.from, len |-> e.len] : e \in E}
Costly == {graph[i] : i \in {j \in DOMAIN graph : Cost(graph[j]) > 0}}

\* The edges of the DiGraph.
Edges == {graph[i] : i \in DOMAIN graph}

Succ(n) == {e.to : e \in {d \in Edges : d.from = n}}

\* petgraph's find_edge: of parallel edges the one that was added last; 0 for none.
FindEdge(a, b) ==
  LET joins == {i \in DOMAIN graph : graph[i].from = a /\ graph[i].to = b}
  IN  IF joins = {} THEN 0 ELSE Max(joins)
-------------------------------------------------------------------------------
(* find_path. *)

Init ==
  /\ (\E f \in Files : Load(f)) \/ EmptyRouter
  /\ pc = "ready" /\ from \in Ids /\ to = from
  /\ open = {} /\ score = << >> /\ pred = << >>
  /\ path = << >> /\ plan = NoPlan

\* The ends are looked up: an unknown one ends the call with None.
FindPath(s, t) ==
  /\ pc \in {"ready", "done"}
  /\ from' = s /\ to' = t
  /\ path' = << >> /\ pred' = << >> /\ plan' = NoPlan
  /\ IF {s, t} \subseteq DOMAIN pos
     THEN pc' = "search" /\ open' = {s} /\ score' = [n \in {s} |-> 0]
     ELSE pc' = "done" /\ open' = {} /\ score' = << >>
  /\ UNCHANGED network

\* The heap pops a node with the least estimate of the whole route.
IsLeast(n) == \A m \in open : score[n] + Heuristic(n) <= score[m] + Heuristic(m)

\* The score that the cheapest edge from n gives its end m.
Via(n, m) == score[n] + Min({Cost(e) : e \in {d \in Edges : d.from = n /\ d.to = m}})

\* Mutant: the first way found to a node is kept.
Unreached(n) == Succ(n) \ DOMAIN score

\* The ends for which the way over n is strictly cheaper than the one known.
Improved(n) == {m \in Succ(n) : m \notin DOMAIN score \/ Via(n, m) < score[m]}

\* Mutant: the heap is peeked.
Peek(n) == open

Pop(n) == open \ {n}

Expand(n) ==
  /\ pc = "search" /\ n \in open /\ n # to /\ IsLeast(n)
  /\ open' = Pop(n) \cup Improved(n)
  /\ score' = [m \in DOMAIN score \cup Improved(n) |->
                 IF m \in Improved(n) THEN Via(n, m) ELSE score[m]]
  /\ pred' = [m \in DOMAIN pred \cup Improved(n) |->
                IF m \in Improved(n) THEN n ELSE pred[m]]
  /\ UNCHANGED <<network, pc, request, path, plan>>

\* The target is popped: its route is traced back.
ReachTarget ==
  /\ pc = "search" /\ to \in open /\ IsLeast(to)
  /\ pc' = "trace" /\ path' = <<to>>
  /\ UNCHANGED <<network, request, search, plan>>

\* The heap is empty: find_path is None.
Exhaust ==
  /\ pc = "search" /\ open = {}
  /\ pc' = "done"
  /\ UNCHANGED <<network, request, search, path, plan>>

TraceBack ==
  /\ pc = "trace" /\ Head(path) \in DOMAIN pred
  /\ path' = <<pred[Head(path)]>> \o path
  /\ UNCHANGED <<network, pc, request, search, plan>>

\* The loop over the pairs of neighbours of a route: what it holds after the first i.
\* An edge id is made of the ids of its ends; a pair that no edge joins is passed over.
Walk(p) ==
  LET held[i \in 0..(Len(p) - 1)] ==
        IF i = 0 THEN [edges |-> << >>, dist |-> 0]
        ELSE LET e == FindEdge(p[i], p[i + 1])
             IN  IF e = 0 THEN held[i - 1]
                 ELSE [edges |-> Append(held[i - 1].edges, <<graph[e].from, graph[e].to>>),
                       dist |-> held[i - 1].dist + graph[e].len]
  IN  held

\* The RoutePlan of a traced route.
PlanOf(p) ==
  LET held == Walk(p)[Len(p) - 1]
  IN  [nodes |-> p, edges |-> held.edges, dist |-> held.dist]

ReturnPlan ==
  /\ pc = "trace" /\ Head(path) \notin DOMAIN pred
  /\ plan' = PlanOf(path)
  /\ pc' = "done"
  /\ UNCHANGED <<network, request, search, path>>

Step == (\E n \in open : Expand(n)) \/ ReachTarget \/ Exhaust \/ TraceBack \/ ReturnPlan

Next == (\E s, t \in Ids : FindPath(s, t)) \/ Step

Spec == Init /\ [][Next]_vars

\* find_path is a plain function: once called, it runs.
FairSpec == Spec /\ WF_vars(Step)
-------------------------------------------------------------------------------
(* into_vda5050_order: one counter numbers the nodes and the edges between. *)

\* Mutant: the counter is not advanced for an edge.
NodesOnly(p, i) == i - 1

\* How far the counter is when the i-th node is pushed.
SequenceId(p, i) == (i - 1) + Min({i - 1, Len(p.edges)})

OrderNodes(p) ==
  [i \in DOMAIN p.nodes |-> [nodeId |-> p.nodes[i], sequenceId |-> SequenceId(p, i)]]

OrderEdges(p) ==
  [i \in DOMAIN p.edges |->
     [edgeId |-> p.edges[i], sequenceId |-> SequenceId(p, i) + 1,
      startNodeId |-> p.nodes[i], endNodeId |-> p.nodes[i + 1]]]
-------------------------------------------------------------------------------
Joined(a, b) == \E i \in DOMAIN graph : graph[i].from = a /\ graph[i].to = b

\* p leads from s to t over edges of the graph.
IsRoute(p, s, t) ==
  /\ Len(p) > 0 /\ p[1] = s /\ p[Len(p)] = t
  /\ \A i \in 1..(Len(p) - 1) : Joined(p[i], p[i + 1])

\* Every variable has its type: no score is below zero whatever the lengths are.
TypeOK ==
  /\ DOMAIN graph \subseteq Nat \ {0}
  /\ \A i \in DOMAIN graph :
       graph[i] \in MapEdge /\ HasBothEnds(graph[i], DOMAIN pos)
  /\ DOMAIN pos \subseteq Ids /\ from \in Ids /\ to \in Ids
  /\ pc \in {"ready", "search", "trace", "done"}
  /\ open \subseteq DOMAIN score /\ DOMAIN pred \subseteq DOMAIN score
  /\ DOMAIN score \subseteq DOMAIN pos
  /\ \A n \in DOMAIN score : score[n] \in Nat
  /\ path \in Seq(DOMAIN score)

\* What find_path answers is a drive over edges of the map from the start to the
\* target (planner.rs:185): the nodes that dispatch_order leases are these.
RouteIsReal == plan # NoPlan => IsRoute(plan.nodes, from, to)

\* None means that no route exists: a set of nodes with the start in it has no
\* edge that leaves it and does not hold the target.
NoneMeansUnreachable ==
  pc = "done" /\ plan = NoPlan /\ {from, to} \subseteq DOMAIN pos =>
    \E C \in SUBSET DOMAIN pos :
      /\ from \in C /\ to \notin C
      /\ \A a \in C, b \in DOMAIN pos : Joined(a, b) => b \in C

\* The order names no node twice, since a lease is released by the name of the node
\* that is left; its nodes have even and its edges odd sequence ids, and the i-th
\* edge leads from the i-th node to the next (planner.rs:41-90).
OrderVisitsOnce ==
  plan # NoPlan =>
    LET ns == OrderNodes(plan)  es == OrderEdges(plan)
    IN  /\ Len(es) = Len(ns) - 1
        /\ \A i, j \in DOMAIN ns : ns[i].nodeId = ns[j].nodeId => i = j
        /\ \A i \in DOMAIN ns : ns[i].sequenceId = 2 * (i - 1)
        /\ \A i \in DOMAIN es : /\ es[i].sequenceId = 2 * i - 1
                               /\ es[i].edgeId = <<es[i].startNodeId, es[i].endNodeId>>

\* No edge is shorter than the straight line between its ends, and none has a
\* parallel one.
Metric ==
  /\ \A e \in Edges : e.len >= 0 /\ e.len * e.len >= SquareOf(e.from, e.to)
  /\ \A i, j \in DOMAIN graph :
       graph[i].from = graph[j].from /\ graph[i].to = graph[j].to => i = j

\* How long a route is up to its (i+1)-th node.
LengthTo(p) ==
  LET sum[i \in 0..(Len(p) - 1)] ==
        IF i = 0 THEN 0 ELSE sum[i - 1] + graph[FindEdge(p[i], p[i + 1])].len
  IN  sum

Length(p) == LengthTo(p)[Len(p) - 1]

\* The routes that visit no node twice.
Routes(s, t) ==
  {p \in UNION {[1..k -> DOMAIN pos] : k \in 1..Cardinality(DOMAIN pos)} :
     IsRoute(p, s, t) /\ \A i, j \in DOMAIN p : p[i] = p[j] => i = j}

\* planner.rs:185 "Finds the shortest path": costs and estimates are cut to whole
\* millimetres, so the answer may be longer than the shortest route, but by less
\* than a millimetre for each of its own edges.  That the estimate is cut, and so
\* no longer obeys the triangle inequality, costs nothing.
NearlyShortest ==
  pc = "done" /\ plan # NoPlan /\ Metric =>
    \A p \in Routes(from, to) :
      plan.dist <= Length(p) + (Unit - 1) * (Len(plan.nodes) - 1)

\* The distance the allocator compares is that of find_edge's edges, which need
\* not be the parallel ones A* took (planner.rs:218): it may make a robot
\* appear farther than it is, but never nearer.
NeverUnderstated ==
  pc = "done" /\ plan # NoPlan /\ (\A e \in Edges : e.len >= 0) =>
    plan.dist >= Unit * score[to]

\* Every call answers, also over edges that cost nothing and cycles of them.
EveryCallReturns == pc = "search" ~> pc = "done"
===============================================================================
