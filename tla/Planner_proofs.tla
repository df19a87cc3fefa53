----------------------------- MODULE Planner_proofs -----------------------------
(***************************************************************************)
(* For every graph file, Unit and request:                                 *)
(*  - find_path answers with a drive over edges of the map, and with None  *)
(*    only where there is none (IInv; the estimate takes no part in it);   *)
(*  - the answer visits no node twice, its distance is not understated,    *)
(*    and no route is shorter than it by a millimetre for each of its      *)
(*    edges (BestInv).                                                     *)
(* Induction over the nodes of a route is by the least counterexample.     *)
(***************************************************************************)
EXTENDS Planner, WellFoundedInduction, TLAPS

\* While a call searches: the tracker leads every node reached but the start back
\* to one it is joined with, nodes that are closed have no end unreached, and the
\* target is not closed.
SearchInv ==
  /\ {from, to} \subseteq DOMAIN pos
  /\ from \in DOMAIN score /\ score[from] = 0
  /\ DOMAIN pred = DOMAIN score \ {from}
  /\ \A n \in DOMAIN pred : pred[n] \in DOMAIN score /\ Joined(pred[n], n)

Frontier ==
  /\ \A n \in DOMAIN score \ open, m \in DOMAIN pos : Joined(n, m) => m \in DOMAIN score
  /\ to \in DOMAIN score => to \in open

\* While the route is traced: what is traced is a route to the target.
TraceInv == path # << >> /\ Head(path) \in DOMAIN score /\ IsRoute(path, Head(path), to)

IInv ==
  /\ TypeOK
  /\ pc = "search" => SearchInv /\ Frontier /\ plan = NoPlan
  /\ pc = "trace" => SearchInv /\ TraceInv /\ plan = NoPlan
  /\ pc = "ready" => plan = NoPlan
  /\ RouteIsReal /\ NoneMeansUnreachable

\* A set of naturals that is not empty has its Min in it.
LEMMA MinOfNats ==
  ASSUME NEW S \in SUBSET Nat, S # {}
  PROVE  Min(S) \in S /\ \A y \in S : Min(S) <= y
<1> DEFINE less == {ss \in Nat \X Nat : ss[1] < ss[2]}
<1>1. IsWellFoundedOn(less, Nat)
  BY NatLessThanWellFounded, Zenon DEF OpToRel
<1>2. PICK x \in S : \A y \in S : ~(<<y, x>> \in less)
  BY <1>1, WFMin, Zenon
<1>3. \A y \in S : x <= y
  <2> SUFFICES ASSUME NEW y \in S PROVE x <= y
    OBVIOUS
  <2>1. x \in Nat /\ y \in Nat /\ <<y, x>> \in Nat \X Nat
    OBVIOUS
  <2>2. <<y, x>>[1] = y /\ <<y, x>>[2] = x
    OBVIOUS
  <2>3. ~(y < x)
    BY <1>2, <2>1, <2>2, Zenon
  <2> QED
    BY <2>1, <2>3
<1> QED
  BY <1>3 DEF Min

\* Induction up to n, for a set of the numbers for which the claim holds.
LEMMA UpTo ==
  ASSUME NEW n \in Nat, NEW G, 0 \in G, \A i \in 0..(n - 1) : i \in G => i + 1 \in G
  PROVE  \A i \in 0..n : i \in G
<1> DEFINE bad == {i \in 0..n : i \notin G}
<1> SUFFICES ASSUME bad # {} PROVE FALSE
  OBVIOUS
<1>1. bad \in SUBSET Nat
  OBVIOUS
<1>2. PICK b \in bad : \A i \in bad : b <= i
  <2> HIDE DEF bad
  <2> QED
    BY <1>1, MinOfNats
<1>3. b # 0 /\ b \in 1..n
  OBVIOUS
<1>4. b - 1 \in 0..(n - 1) /\ b - 1 \notin bad
  BY <1>2, <1>3
<1> QED
  BY <1>2, <1>3, <1>4

\* A function is defined by what it is at 0 and by the step from one number to the next.
IsRecursive(n, S, a, step) ==
  \E g \in [0..n -> S] : g[0] = a /\ \A i \in 1..n : g[i] = step[<<i, g[i - 1]>>]

LEMMA Recursion ==
  ASSUME NEW n \in Nat, NEW S, NEW a \in S, NEW step \in [(1..n) \X S -> S]
  PROVE  IsRecursive(n, S, a, step)
<1> DEFINE Is(k, g) == g[0] = a /\ \A i \in 1..k : g[i] = step[<<i, g[i - 1]>>]
           G == {k \in 0..n : \E g \in [0..k -> S] : Is(k, g)}
<1>1. 0 \in G
  <2> DEFINE g == [i \in 0..0 |-> a]
  <2>1. g \in [0..0 -> S] /\ Is(0, g)
    OBVIOUS
  <2> HIDE DEF g
  <2> QED
    BY <2>1
<1>2. ASSUME NEW k \in 0..(n - 1), k \in G
      PROVE  k + 1 \in G
  <2>1. PICK g \in [0..k -> S] : Is(k, g)
    BY <1>2
  <2> DEFINE h == [i \in 0..(k + 1) |-> IF i = k + 1 THEN step[<<k + 1, g[k]>>] ELSE g[i]]
  <2>2. step[<<k + 1, g[k]>>] \in S
    <3>1. g[k] \in S /\ k + 1 \in 1..n
      OBVIOUS
    <3>2. <<k + 1, g[k]>> \in (1..n) \X S
      BY <3>1
    <3> QED
      BY <3>2, Zenon
  <2>3. h \in [0..(k + 1) -> S]
    BY <2>2
  <2>4. h[0] = a /\ h[k + 1] = step[<<k + 1, g[k]>>] /\ \A i \in 0..k : h[i] = g[i]
    BY <2>1
  <2>5. \A i \in 1..(k + 1) : h[i] = step[<<i, h[i - 1]>>]
    <3> SUFFICES ASSUME NEW i \in 1..(k + 1) PROVE h[i] = step[<<i, h[i - 1]>>]
      OBVIOUS
    <3> HIDE DEF h
    <3>1. h[i - 1] = g[i - 1]
      BY <2>4
    <3>2. CASE i = k + 1
      BY <3>1, <3>2, <2>4
    <3>3. CASE i # k + 1
      BY <3>1, <3>3, <2>1, <2>4
    <3> QED
      BY <3>2, <3>3
  <2> HIDE DEF h
  <2> QED
    BY <2>3, <2>4, <2>5
<1>3. n \in G
  <2> HIDE DEF G
  <2> QED
    BY <1>1, <1>2, UpTo
<1> QED
  BY <1>3 DEF IsRecursive

\* A set of naturals that is bounded and not empty has its Max in it.
LEMMA MaxOfBounded ==
  ASSUME NEW S \in SUBSET Nat, S # {}, NEW k \in Nat, \A y \in S : y <= k
  PROVE  Max(S) \in S
<1> DEFINE U == {j \in Nat : \A y \in S : y <= j}
<1>1. PICK b \in U : \A j \in U : b <= j
  BY MinOfNats, k \in U
<1>2. b \in S
  <2> SUFFICES ASSUME b \notin S PROVE FALSE
    OBVIOUS
  <2>1. PICK y \in S : TRUE
    OBVIOUS
  <2>2. b \in Nat /\ y \in Nat /\ y < b
    BY <1>1, <2>1
  <2>3. b - 1 \in U
    BY <2>2, <1>1
  <2> QED
    BY <1>1, <2>2, <2>3
<1>3. \A y \in S : b >= y
  BY <1>1
<1> QED
  BY <1>2, <1>3 DEF Max

\* Every natural has a root, cut to a whole number: the CHOOSE of Straight chooses one.
LEMMA SquareRoot ==
  ASSUME NEW q \in Nat
  PROVE  \E d \in 0..q : d * d <= q /\ q < (d + 1) * (d + 1)
<1> DEFINE U == {d \in Nat : q < (d + 1) * (d + 1)}
<1>1. q \in U
  OBVIOUS
<1>2. PICK d \in U : \A e \in U : d <= e
  BY MinOfNats, <1>1
<1>3. d <= q
  BY <1>1, <1>2
<1>4. d * d <= q
  <2>1. CASE d = 0
    BY <2>1
  <2>2. CASE d # 0
    <3>1. d - 1 \in Nat /\ d - 1 \notin U
      BY <1>2, <2>2
    <3>2. ~(q < (d - 1 + 1) * (d - 1 + 1))
      BY <3>1
    <3> QED
      BY <3>1, <3>2
  <2> QED
    BY <2>1, <2>2
<1> QED
  BY <1>2, <1>3, <1>4

\* Of two naturals the one with the lesser square is the lesser.
LEMMA SquaresOrder ==
  ASSUME NEW a \in Int, NEW b \in Nat, a * a <= b * b
  PROVE  a <= b
<1> SUFFICES ASSUME a > b PROVE FALSE
  OBVIOUS
<1>1. a * a >= (b + 1) * a /\ (b + 1) * a >= (b + 1) * (b + 1)
  OBVIOUS
<1>2. (b + 1) * (b + 1) > b * b
  OBVIOUS
<1> QED
  BY <1>1, <1>2

\* The triangle inequality for squared lengths, by way of that of Cauchy and Schwarz.
LEMMA Triangle ==
  ASSUME NEW ux \in Int, NEW uy \in Int, NEW vx \in Int, NEW vy \in Int,
         NEW a \in Nat, NEW b \in Nat,
         a * a >= ux * ux + uy * uy, b * b >= vx * vx + vy * vy
  PROVE  (a + b) * (a + b) >= (ux + vx) * (ux + vx) + (uy + vy) * (uy + vy)
<1> DEFINE U == ux * ux + uy * uy
           V == vx * vx + vy * vy
           w == ux * vx + uy * vy
           z == ux * vy - uy * vx
<1>1. U * V = w * w + z * z
  OBVIOUS
<1>2. U * V <= (a * a) * (b * b)
  <2>1. U \in Nat /\ V \in Nat /\ a * a \in Nat /\ b * b \in Nat
        /\ a * a >= U /\ b * b >= V
    OBVIOUS
  <2>2. \A x1, x2, y1, y2 \in Nat : x1 >= x2 /\ y1 >= y2 => x2 * y2 <= x1 * y1
    OBVIOUS
  <2> HIDE DEF U, V
  <2> QED
    BY <2>1, <2>2
<1>3. z * z >= 0
  OBVIOUS
<1>4. w * w <= (a * b) * (a * b)
  BY <1>1, <1>2, <1>3
<1>5. w <= a * b
  BY <1>4, SquaresOrder
<1>6. (a + b) * (a + b) = a * a + b * b + 2 * (a * b)
  OBVIOUS
<1>7. (ux + vx) * (ux + vx) + (uy + vy) * (uy + vy) = U + V + 2 * w
  OBVIOUS
<1> QED
  BY <1>5, <1>6, <1>7

LEMMA SeqIsMonotone ==
  ASSUME NEW S, NEW T, S \subseteq T, NEW p \in Seq(S)
  PROVE  p \in Seq(T)
OBVIOUS

\* The way over an edge costs no less than the node it starts from.
LEMMA ViaType ==
  ASSUME TypeOK, NEW n \in DOMAIN score, NEW m \in Succ(n)
  PROVE  Via(n, m) \in Nat /\ Via(n, m) >= score[n]
<1> DEFINE costs == {Cost(e) : e \in {d \in Edges : d.from = n /\ d.to = m}}
<1>1. \A e \in Edges : e.len \in Int
  BY DEF TypeOK, Edges, MapEdge
<1>2. \A x \in Int : Millimetres(x) \in Nat
  <2>1. Unit \in Nat \ {0}
    BY PlannerAssumption
  <2> QED
    BY <2>1 DEF Millimetres
<1>3. costs \in SUBSET Nat
  BY <1>1, <1>2 DEF Cost
<1>4. costs # {}
  BY DEF Succ
<1>5. Min(costs) \in Nat
  BY <1>3, <1>4, MinOfNats
<1>6. score[n] \in Nat
  BY DEF TypeOK
<1> QED
  BY <1>5, <1>6 DEF Via

\* The ends of the edges from a node are those it is joined with.
LEMMA SuccIsJoined ==
  ASSUME TypeOK, NEW n
  PROVE  /\ \A m : m \in Succ(n) <=> Joined(n, m)
         /\ Succ(n) \subseteq DOMAIN pos
BY DEF Succ, Edges, Joined, TypeOK, HasBothEnds

LEMMA InitIInv == Init => IInv
<1> SUFFICES ASSUME Init PROVE IInv
  OBVIOUS
<1>1. TypeOK
  <2>1. CASE \E f \in Files : Load(f)
    <3>1. PICK f \in Files : Load(f)
      BY <2>1
    <3>2. /\ DOMAIN pos \subseteq Ids
          /\ f.edges \in Seq(MapEdge)
      BY <3>1, PlannerAssumption DEF Load
    <3>3. /\ DOMAIN graph \subseteq Nat \ {0}
          /\ \A i \in DOMAIN graph : graph[i] \in MapEdge /\ HasBothEnds(graph[i], DOMAIN pos)
      BY <3>1, <3>2 DEF Load
    <3> QED
      BY <3>2, <3>3 DEF TypeOK, Init
  <2>2. CASE EmptyRouter
    BY <2>2 DEF TypeOK, Init, EmptyRouter
  <2> QED
    BY <2>1, <2>2 DEF Init
<1> QED
  BY <1>1 DEF Init, IInv, RouteIsReal, NoneMeansUnreachable

\* A call begins, or ends at once for want of a node.
LEMMA FindPathStep ==
  ASSUME IInv, NEW s \in Ids, NEW t \in Ids, FindPath(s, t)
  PROVE  IInv'
<1>1. CASE {s, t} \subseteq DOMAIN pos
  <2>1. /\ pc' = "search" /\ open' = {s} /\ score' = [n \in {s} |-> 0]
        /\ from' = s /\ to' = t /\ path' = << >> /\ pred' = << >> /\ plan' = NoPlan
        /\ pos' = pos /\ graph' = graph
    BY <1>1 DEF FindPath, network
  <2>2. TypeOK'
    BY <1>1, <2>1 DEF IInv, TypeOK
  <2>3. SearchInv' /\ Frontier'
    BY <1>1, <2>1 DEF SearchInv, Frontier
  <2> QED
    BY <2>1, <2>2, <2>3 DEF IInv, RouteIsReal, NoneMeansUnreachable
<1>2. CASE ~({s, t} \subseteq DOMAIN pos)
  <2>1. /\ pc' = "done" /\ open' = {} /\ score' = << >>
        /\ from' = s /\ to' = t /\ path' = << >> /\ pred' = << >> /\ plan' = NoPlan
        /\ pos' = pos /\ graph' = graph
    BY <1>2 DEF FindPath, network
  <2>2. TypeOK'
    BY <2>1 DEF IInv, TypeOK
  <2> QED
    BY <1>2, <2>1, <2>2 DEF IInv, RouteIsReal, NoneMeansUnreachable
<1> QED
  BY <1>1, <1>2

\* A node is expanded: its cheaper ends are open, and lead back to it.
LEMMA ExpandStep ==
  ASSUME IInv, NEW n \in open, Expand(n)
  PROVE  IInv'
<1> DEFINE new == Improved(n)
<1>1. /\ pc = "search" /\ n # to /\ n \in DOMAIN score
      /\ SearchInv /\ Frontier /\ TypeOK /\ plan = NoPlan
  BY DEF Expand, IInv, TypeOK
<1>2. /\ open' = (open \ {n}) \cup new
      /\ score' = [m \in DOMAIN score \cup new |-> IF m \in new THEN Via(n, m) ELSE score[m]]
      /\ pred' = [m \in DOMAIN pred \cup new |-> IF m \in new THEN n ELSE pred[m]]
      /\ pos' = pos /\ graph' = graph /\ pc' = pc /\ from' = from /\ to' = to
      /\ path' = path /\ plan' = plan
  BY DEF Expand, Pop, network, request
<1>3. /\ new \subseteq DOMAIN pos
      /\ \A m \in new : /\ Joined(n, m) /\ Via(n, m) \in Nat /\ Via(n, m) >= score[n]
                        /\ m \notin DOMAIN score \/ Via(n, m) < score[m]
  BY <1>1, ViaType, SuccIsJoined DEF Improved
<1>4. \A m : Joined(n, m) => m \in DOMAIN score \cup new
  BY <1>1, SuccIsJoined DEF Improved
<1>5. from \notin new
  <2>1. score[from] = 0 /\ from \in DOMAIN score /\ score[n] \in Nat
    BY <1>1 DEF SearchInv, TypeOK
  <2> QED
    BY <2>1, <1>3
<1>6. /\ DOMAIN score' = DOMAIN score \cup new
      /\ DOMAIN pred' = DOMAIN pred \cup new
      /\ \A m \in DOMAIN score' : score'[m] = IF m \in new THEN Via(n, m) ELSE score[m]
      /\ \A m \in DOMAIN pred' : pred'[m] = IF m \in new THEN n ELSE pred[m]
  BY <1>2
<1>7. \A a, b : Joined(a, b)' <=> Joined(a, b)
  BY <1>2 DEF Joined
<1>8. TypeOK'
  <2>1. open' \subseteq DOMAIN score' /\ DOMAIN pred' \subseteq DOMAIN score'
    BY <1>1, <1>2, <1>6 DEF TypeOK
  <2>2. DOMAIN score' \subseteq DOMAIN pos'
    BY <1>1, <1>2, <1>3, <1>6 DEF TypeOK
  <2>3. \A m \in DOMAIN score' : score'[m] \in Nat
    BY <1>1, <1>3, <1>6 DEF TypeOK
  <2>4. path' \in Seq(DOMAIN score')
    BY <1>1, <1>2, <1>6, SeqIsMonotone DEF TypeOK
  <2> QED
    BY <1>1, <1>2, <2>1, <2>2, <2>3, <2>4 DEF TypeOK, HasBothEnds
<1>9. SearchInv'
  <2>1. from' \in DOMAIN score' /\ score'[from'] = 0
    BY <1>1, <1>2, <1>5, <1>6 DEF SearchInv
  <2>2. DOMAIN pred' = DOMAIN score' \ {from'}
    BY <1>1, <1>2, <1>5, <1>6 DEF SearchInv
  <2>3. \A m \in DOMAIN pred' : pred'[m] \in DOMAIN score' /\ Joined(pred'[m], m)
    BY <1>1, <1>3, <1>6 DEF SearchInv
  <2> QED
    BY <1>1, <1>2, <1>7, <2>1, <2>2, <2>3 DEF SearchInv
<1>10. Frontier'
  <2>1. \A k \in DOMAIN score' \ open', m \in DOMAIN pos :
          Joined(k, m) => m \in DOMAIN score'
    BY <1>1, <1>2, <1>4, <1>6 DEF Frontier
  <2>2. to \in DOMAIN score' => to \in open'
    BY <1>1, <1>2, <1>6 DEF Frontier
  <2> QED
    BY <1>2, <1>7, <2>1, <2>2 DEF Frontier
<1> QED
  BY <1>1, <1>2, <1>8, <1>9, <1>10 DEF IInv, RouteIsReal, NoneMeansUnreachable

LEMMA ReachTargetStep == IInv /\ ReachTarget => IInv'
<1> SUFFICES ASSUME IInv, ReachTarget PROVE IInv'
  OBVIOUS
<1>1. /\ pc = "search" /\ pc' = "trace" /\ path' = <<to>> /\ to \in DOMAIN score
      /\ pos' = pos /\ graph' = graph /\ from' = from /\ to' = to /\ open' = open
      /\ score' = score /\ pred' = pred /\ plan' = plan /\ plan = NoPlan
      /\ SearchInv /\ TypeOK
  BY DEF ReachTarget, IInv, TypeOK, network, request, search
<1>2. TypeOK'
  BY <1>1 DEF TypeOK, HasBothEnds
<1>3. SearchInv'
  BY <1>1 DEF SearchInv, Joined
<1>4. TraceInv'
  <2>1. Len(<<to>>) = 1 /\ <<to>>[1] = to /\ Head(<<to>>) = to /\ <<to>> # << >>
    OBVIOUS
  <2> QED
    BY <1>1, <2>1 DEF TraceInv, IsRoute
<1> QED
  BY <1>1, <1>2, <1>3, <1>4 DEF IInv, RouteIsReal, NoneMeansUnreachable

\* The nodes reached are the closed set that shows the target out of reach.
LEMMA ExhaustStep == IInv /\ Exhaust => IInv'
<1> SUFFICES ASSUME IInv, Exhaust PROVE IInv'
  OBVIOUS
<1>1. /\ pc = "search" /\ pc' = "done" /\ open = {} /\ path' = path
      /\ pos' = pos /\ graph' = graph /\ from' = from /\ to' = to /\ open' = open
      /\ score' = score /\ pred' = pred /\ plan' = plan /\ plan = NoPlan
      /\ SearchInv /\ Frontier /\ TypeOK
  BY DEF Exhaust, IInv, network, request, search
<1>2. TypeOK'
  BY <1>1 DEF TypeOK, HasBothEnds
<1>3. /\ DOMAIN score \in SUBSET DOMAIN pos
      /\ from \in DOMAIN score /\ to \notin DOMAIN score
      /\ \A a \in DOMAIN score, b \in DOMAIN pos : Joined(a, b) => b \in DOMAIN score
  BY <1>1 DEF SearchInv, Frontier, TypeOK
<1>4. NoneMeansUnreachable'
  <2>1. \A a, b : Joined(a, b)' <=> Joined(a, b)
    BY <1>1 DEF Joined
  <2> QED
    BY <1>1, <1>3, <2>1 DEF NoneMeansUnreachable
<1> QED
  BY <1>1, <1>2, <1>4 DEF IInv, RouteIsReal

\* One node more in front: it is joined with the one that was first.
LEMMA TraceBackStep == IInv /\ TraceBack => IInv'
<1> SUFFICES ASSUME IInv, TraceBack PROVE IInv'
  OBVIOUS
<1> DEFINE p == pred[Head(path)]
<1>1. /\ pc = "trace" /\ pc' = "trace" /\ path' = <<p>> \o path /\ Head(path) \in DOMAIN pred
      /\ pos' = pos /\ graph' = graph /\ from' = from /\ to' = to /\ open' = open
      /\ score' = score /\ pred' = pred /\ plan' = plan
      /\ SearchInv /\ TraceInv /\ TypeOK /\ plan = NoPlan
  BY DEF TraceBack, IInv, network, request, search
<1>2. p \in DOMAIN score /\ Joined(p, Head(path))
  BY <1>1 DEF SearchInv
<1>3. /\ path \in Seq(DOMAIN score) /\ path # << >> /\ Len(path) > 0
      /\ Head(path) = path[1] /\ path[Len(path)] = to
      /\ \A i \in 1..(Len(path) - 1) : Joined(path[i], path[i + 1])
  BY <1>1 DEF TypeOK, TraceInv, IsRoute
<1>4. /\ path' \in Seq(DOMAIN score) /\ Len(path') = Len(path) + 1
      /\ path'[1] = p /\ \A i \in 2..(Len(path) + 1) : path'[i] = path[i - 1]
  BY <1>1, <1>2, <1>3
<1>5. path' # << >> /\ Head(path') = p
  BY <1>3, <1>4
<1>6. IsRoute(path', p, to)
  <2>1. path'[Len(path')] = to
    BY <1>3, <1>4
  <2>2. ASSUME NEW i \in 1..(Len(path') - 1)
        PROVE  Joined(path'[i], path'[i + 1])
    <3>1. CASE i = 1
      BY <1>2, <1>3, <1>4, <3>1
    <3>2. CASE i # 1
      <4>1. i - 1 \in 1..(Len(path) - 1) /\ path'[i] = path[i - 1] /\ path'[i + 1] = path[i]
        BY <1>3, <1>4, <3>2
      <4> QED
        BY <1>3, <4>1
    <3> QED
      BY <3>1, <3>2
  <2> QED
    BY <1>3, <1>4, <2>1, <2>2 DEF IsRoute
<1>7. TypeOK'
  BY <1>1, <1>4 DEF TypeOK, HasBothEnds
<1>8. SearchInv' /\ TraceInv'
  <2>1. \A a, b : Joined(a, b)' <=> Joined(a, b)
    BY <1>1 DEF Joined
  <2>2. SearchInv'
    BY <1>1, <2>1 DEF SearchInv
  <2>3. TraceInv'
    BY <1>1, <1>2, <1>5, <1>6, <2>1 DEF TraceInv, IsRoute
  <2> QED
    BY <2>2, <2>3
<1> QED
  BY <1>1, <1>7, <1>8 DEF IInv, RouteIsReal, NoneMeansUnreachable

\* The only node reached that leads no further back is the start.
LEMMA ReturnPlanStep == IInv /\ ReturnPlan => IInv'
<1> SUFFICES ASSUME IInv, ReturnPlan PROVE IInv'
  OBVIOUS
<1>1. /\ pc = "trace" /\ pc' = "done" /\ Head(path) \notin DOMAIN pred
      /\ plan' = PlanOf(path) /\ path' = path
      /\ pos' = pos /\ graph' = graph /\ from' = from /\ to' = to /\ open' = open
      /\ score' = score /\ pred' = pred
      /\ SearchInv /\ TraceInv /\ TypeOK
  BY DEF ReturnPlan, IInv, network, request, search
<1>2. IsRoute(path, from, to)
  BY <1>1 DEF SearchInv, TraceInv
<1>3. plan'.nodes = path /\ path # << >>
  BY <1>1 DEF PlanOf, TraceInv
<1>4. plan' # NoPlan
  BY <1>3 DEF NoPlan
<1>5. TypeOK'
  BY <1>1 DEF TypeOK, HasBothEnds
<1>6. RouteIsReal'
  BY <1>1, <1>2, <1>3 DEF RouteIsReal, IsRoute, Joined
<1> QED
  BY <1>1, <1>4, <1>5, <1>6 DEF IInv, NoneMeansUnreachable

LEMMA NextIInv == IInv /\ [Next]_vars => IInv'
<1> SUFFICES ASSUME IInv, [Next]_vars PROVE IInv'
  OBVIOUS
<1>1. CASE UNCHANGED vars
  BY <1>1 DEF vars, network, request, search, IInv, TypeOK, HasBothEnds, SearchInv, Frontier,
              TraceInv, IsRoute, Joined, RouteIsReal, NoneMeansUnreachable
<1>2. CASE \E s, t \in Ids : FindPath(s, t)
  BY <1>2, FindPathStep
<1>3. CASE Step
  BY <1>3, ExpandStep, ReachTargetStep, ExhaustStep, TraceBackStep, ReturnPlanStep DEF Step
<1> QED
  BY <1>1, <1>2, <1>3 DEF Next

LEMMA InvariantIInv == Spec => []IInv
BY InitIInv, NextIInv, PTL DEF Spec

\* The search, the tracker and the traced path have their types, whatever the
\* lengths in the graph file are.
THEOREM TypeCorrect == Spec => []TypeOK
<1>1. IInv => TypeOK
  BY DEF IInv
<1> QED
  BY <1>1, InvariantIInv, PTL

\* find_path answers with a route of the map from the start to the target
\* (planner.rs:185-234).
THEOREM AnswersARoute == Spec => []RouteIsReal
<1>1. IInv => RouteIsReal
  BY DEF IInv
<1> QED
  BY <1>1, InvariantIInv, PTL

\* find_path is None only when no route exists (planner.rs:205).
THEOREM NoneIsJustified == Spec => []NoneMeansUnreachable
<1>1. IInv => NoneMeansUnreachable
  BY DEF IInv
<1> QED
  BY <1>1, InvariantIInv, PTL
-------------------------------------------------------------------------------
\* A graph file ends.
GraphIsFinite == \E k \in Nat : DOMAIN graph \subseteq 1..k

\* find_edge finds an edge between the ends of every joined pair.
LEMMA FindEdgeJoins ==
  ASSUME TypeOK, GraphIsFinite, NEW a, NEW b, Joined(a, b)
  PROVE  /\ FindEdge(a, b) \in DOMAIN graph /\ FindEdge(a, b) # 0
         /\ graph[FindEdge(a, b)].from = a /\ graph[FindEdge(a, b)].to = b
         /\ graph[FindEdge(a, b)].len \in Int
         /\ a \in DOMAIN pos /\ b \in DOMAIN pos
<1> DEFINE joins == {i \in DOMAIN graph : graph[i].from = a /\ graph[i].to = b}
<1>1. joins # {} /\ joins \in SUBSET Nat /\ \E k \in Nat : \A y \in joins : y <= k
  BY DEF Joined, TypeOK, GraphIsFinite
<1>2. Max(joins) \in joins
  <2> HIDE DEF joins
  <2> QED
    BY <1>1, MaxOfBounded
<1>3. FindEdge(a, b) \in joins
  BY <1>1, <1>2 DEF FindEdge
<1> QED
  BY <1>3 DEF TypeOK, MapEdge, HasBothEnds

\* The length of a route grows by that of one edge at each node.
LEMMA LengthToSteps ==
  ASSUME NEW n \in Nat, NEW p, Len(p) = n + 1,
         \A i \in 1..n : graph[FindEdge(p[i], p[i + 1])].len \in Int
  PROVE  /\ LengthTo(p) \in [0..n -> Int]
         /\ LengthTo(p)[0] = 0
         /\ \A i \in 1..n :
              LengthTo(p)[i] = LengthTo(p)[i - 1] + graph[FindEdge(p[i], p[i + 1])].len
<1> DEFINE long(i) == graph[FindEdge(p[i], p[i + 1])].len
           body(s) == [i \in 0..n |-> IF i = 0 THEN 0 ELSE s[i - 1] + long(i)]
           step == [x \in (1..n) \X Int |-> x[2] + long(x[1])]
           L == LengthTo(p)
<1>1. L = CHOOSE s : s = body(s)
  <2>1. Len(p) - 1 = n
    OBVIOUS
  <2> QED
    BY <2>1, Zenon DEF LengthTo
<1>2. step \in [(1..n) \X Int -> Int]
  OBVIOUS
<1>3. PICK g \in [0..n -> Int] : g[0] = 0 /\ \A i \in 1..n : g[i] = step[<<i, g[i - 1]>>]
  <2>1. 0 \in Int
    OBVIOUS
  <2> HIDE DEF step
  <2>2. IsRecursive(n, Int, 0, step)
    BY <1>2, <2>1, Recursion
  <2> QED
    BY <2>2 DEF IsRecursive
<1>4. \A i \in 1..n : g[i] = g[i - 1] + long(i)
  <2> SUFFICES ASSUME NEW i \in 1..n PROVE g[i] = g[i - 1] + long(i)
    OBVIOUS
  <2>1. g[i - 1] \in Int /\ <<i, g[i - 1]>> \in (1..n) \X Int
    OBVIOUS
  <2> HIDE DEF long
  <2> QED
    BY <2>1, <1>3
<1>5. g = body(g)
  <2> HIDE DEF long
  <2>1. \A i \in 0..n : g[i] = body(g)[i]
    BY <1>3, <1>4
  <2> QED
    BY <2>1
<1>6. L = body(L)
  <2> HIDE DEF body, L
  <2> QED
    BY <1>1, <1>5, Zenon
<1>7. L[0] = 0 /\ \A i \in 1..n : L[i] = L[i - 1] + long(i)
  <2> HIDE DEF L, long
  <2> QED
    BY <1>6
<1>8. L \in [0..n -> Int]
  <2> DEFINE G == {i \in 0..n : L[i] \in Int}
  <2> HIDE DEF L
  <2>1. 0 \in G
    BY <1>7
  <2>2. ASSUME NEW i \in 0..(n - 1), i \in G PROVE i + 1 \in G
    <3>1. i + 1 \in 1..n /\ L[i + 1] = L[(i + 1) - 1] + long(i + 1) /\ long(i + 1) \in Int
      BY <1>7
    <3> HIDE DEF long
    <3>2. (i + 1) - 1 = i
      OBVIOUS
    <3> QED
      BY <2>2, <3>1, <3>2
  <2>3. \A i \in 0..n : i \in G
    <3> HIDE DEF G
    <3> QED
      BY <2>1, <2>2, UpTo
  <2>4. L = [i \in 0..n |-> L[i]]
    <3> HIDE DEF long
    <3> QED
      BY <1>6
  <2> QED
    BY <2>3, <2>4
<1> QED
  BY <1>7, <1>8

Leads(C, tracker) == \A c \in C : c \in DOMAIN tracker => tracker[c] \in C

\* The nodes that the tracker leads back over from a node reached, itself among them.
Above(n, reached, tracker) ==
  {x \in reached : \A C \in SUBSET reached : n \in C /\ Leads(C, tracker) => x \in C}

\* What is above a node is the least set with it that leads nowhere out of itself.
LEMMA AboveIsLeast ==
  ASSUME NEW S, NEW p, \A c \in DOMAIN p : p[c] \in S, NEW n \in S
  PROVE  /\ n \in Above(n, S, p) /\ Above(n, S, p) \subseteq S
         /\ Leads(Above(n, S, p), p)
         /\ \A C \in SUBSET S : n \in C /\ Leads(C, p) => Above(n, S, p) \subseteq C
BY DEF Above, Leads

\* How what is above a node in S by the tracker p becomes what is above it by the
\* tracker q, in which the nodes in new lead back to n.
AboveMoves(n, new, S, p, q) ==
  LET T == S \cup new
  IN  /\ Above(n, T, q) = Above(n, S, p)
      /\ \A y \in new : /\ Above(y, T, q) \subseteq Above(n, S, p) \cup {y}
                        /\ Above(n, S, p) \subseteq Above(y, T, q)
      /\ \A y \in S \ new :
           /\ Above(y, T, q) \subseteq Above(n, S, p) \cup Above(y, S, p)
           /\ \/ Above(y, S, p) \subseteq Above(y, T, q)
              \/ Above(n, S, p) \subseteq Above(y, T, q)

LEMMA AboveExpanded ==
  ASSUME NEW S, NEW p, DOMAIN p \subseteq S, \A c \in DOMAIN p : p[c] \in S,
         NEW n \in S, NEW new, new \cap Above(n, S, p) = {},
         NEW q, q = [m \in DOMAIN p \cup new |-> IF m \in new THEN n ELSE p[m]]
  PROVE  AboveMoves(n, new, S, p, q)
<1> DEFINE T == S \cup new
           A(x) == Above(x, S, p)
           B(x) == Above(x, T, q)
<1>1. /\ \A c \in new : c \in DOMAIN q /\ q[c] = n
      /\ \A c \in DOMAIN q : c \notin new => c \in DOMAIN p /\ q[c] = p[c]
      /\ DOMAIN p \subseteq DOMAIN q
      /\ \A c \in DOMAIN q : q[c] \in T
  OBVIOUS
<1>2. \A x \in S : /\ x \in A(x) /\ A(x) \subseteq S /\ Leads(A(x), p)
                   /\ \A C \in SUBSET S : x \in C /\ Leads(C, p) => A(x) \subseteq C
  BY AboveIsLeast
<1>3. \A x \in T : /\ x \in B(x) /\ B(x) \subseteq T /\ Leads(B(x), q)
                   /\ \A C \in SUBSET T : x \in C /\ Leads(C, q) => B(x) \subseteq C
  BY <1>1, AboveIsLeast
<1> HIDE DEF A, B
<1>4. Leads(A(n), q)
  BY <1>1, <1>2 DEF Leads, A
<1>5. B(n) \subseteq A(n)
  BY <1>2, <1>3, <1>4
<1>6. ASSUME NEW C \in SUBSET T, n \in C, Leads(C, q)
      PROVE  A(n) \subseteq C
  <2>1. Leads(C \cap A(n), p)
    BY <1>1, <1>2, <1>6 DEF Leads, A
  <2>2. C \cap A(n) \in SUBSET S /\ n \in C \cap A(n)
    BY <1>2, <1>6
  <2> QED
    BY <1>2, <2>1, <2>2
<1>7. A(n) \subseteq B(n)
  BY <1>3, <1>6
<1>8. ASSUME NEW y \in new
      PROVE  B(y) \subseteq A(n) \cup {y} /\ A(n) \subseteq B(y)
  <2>1. Leads(A(n) \cup {y}, q)
    BY <1>1, <1>2, <1>4 DEF Leads
  <2>2. A(n) \cup {y} \in SUBSET T
    BY <1>2
  <2>3. n \in B(y)
    BY <1>1, <1>3 DEF Leads
  <2> QED
    BY <1>3, <1>6, <2>1, <2>2, <2>3
<1>9. ASSUME NEW y \in S \ new
      PROVE  /\ B(y) \subseteq A(n) \cup A(y)
             /\ A(y) \subseteq B(y) \/ A(n) \subseteq B(y)
  <2>1. Leads(A(n) \cup A(y), q)
    BY <1>1, <1>2, <1>4 DEF Leads
  <2>2. B(y) \subseteq A(n) \cup A(y)
    BY <1>2, <1>3, <2>1
  <2>3. CASE B(y) \cap new # {}
    <3>1. n \in B(y)
      BY <1>1, <1>3, <2>3 DEF Leads
    <3> QED
      BY <1>3, <1>6, <2>2, <3>1
  <2>4. CASE B(y) \cap new = {}
    <3>1. Leads(B(y), p)
      BY <1>1, <1>3, <2>4 DEF Leads
    <3>2. B(y) \in SUBSET S
      BY <1>3, <2>4
    <3> QED
      BY <1>2, <1>3, <2>2, <3>1, <3>2
  <2> QED
    BY <2>3, <2>4
<1> QED
  BY <1>5, <1>7, <1>8, <1>9 DEF A, B, AboveMoves

\* The tracker has no cycle: a set of nodes is left when one goes back from each.
NoCycle(tracker) ==
  \A C \in SUBSET DOMAIN tracker : C # {} => \E c \in C : tracker[c] \notin C

\* The cost of the cheapest edge from n to m.
Hop(n, m) == Min({Cost(e) : e \in {d \in Edges : d.from = n /\ d.to = m}})

NodesArePlaced == \A n \in DOMAIN pos : pos[n] \in Int \X Int

\* The estimate of the whole route over a node.
Estimate(n) == score[n] + Heuristic(n)

\* A node is no nearer to the start than the node before it and the edge between.
Descends == \A n \in DOMAIN pred : score[n] >= Via(pred[n], n)

\* No way over a closed node is cheaper than the one known.
Relaxed ==
  \A n \in DOMAIN score \ open : \A m \in Succ(n) : m \in DOMAIN score /\ score[m] <= Via(n, m)

AboveNow(n) == Above(n, DOMAIN score, pred)

\* Of two open nodes one of which is above the other, that one is popped first.
OpenInOrder ==
  \A x, y \in open : x # y /\ x \in AboveNow(y) => Estimate(x) < Estimate(y)

ClosedInOrder ==
  \A x \in DOMAIN score \ open :
    \/ \A z \in open : x \in AboveNow(z) => Estimate(z) >= Estimate(x)
    \/ \A z \in open : x \notin AboveNow(z) => Estimate(z) >= Estimate(x)

\* Between joined nodes the cheapest edge is one of the graph's.
LEMMA HopType ==
  ASSUME TypeOK, NEW n, NEW m, Joined(n, m)
  PROVE  /\ Hop(n, m) \in Nat
         /\ \E i \in DOMAIN graph :
              graph[i].from = n /\ graph[i].to = m /\ Hop(n, m) = Cost(graph[i])
         /\ \A i \in DOMAIN graph :
              graph[i].from = n /\ graph[i].to = m => Hop(n, m) <= Cost(graph[i])
<1> DEFINE costs == {Cost(e) : e \in {d \in Edges : d.from = n /\ d.to = m}}
<1>1. \A e \in Edges : e.len \in Int
  BY DEF TypeOK, Edges, MapEdge
<1>2. \A x \in Int : Millimetres(x) \in Nat
  <2>1. Unit \in Nat \ {0}
    BY PlannerAssumption
  <2> QED
    BY <2>1 DEF Millimetres
<1>3. costs \in SUBSET Nat
  BY <1>1, <1>2 DEF Cost
<1>4. costs # {}
  BY DEF Joined, Edges
<1>5. Hop(n, m) \in costs /\ \A y \in costs : Hop(n, m) <= y
  <2>1. Hop(n, m) = Min(costs)
    BY DEF Hop
  <2> HIDE DEF costs
  <2> QED
    BY <1>3, <1>4, <2>1, MinOfNats
<1> QED
  BY <1>3, <1>5 DEF Edges

\* A way over a node costs what the node does and the edge after it.
LEMMA ViaIsHop == \A n, m : Via(n, m) = score[n] + Hop(n, m)
BY DEF Via, Hop

\* The estimate is a natural and never exceeds the straight line.
LEMMA HeuristicType ==
  ASSUME TypeOK, NodesArePlaced, NEW n \in DOMAIN pos, to \in DOMAIN pos
  PROVE  /\ Heuristic(n) \in Nat /\ Straight(n, to) \in Nat
         /\ SquareOf(n, to) \in Nat
         /\ Straight(n, to) * Straight(n, to) <= SquareOf(n, to)
         /\ Unit * Heuristic(n) <= Straight(n, to)
<1> DEFINE q == SquareOf(n, to)
           d == Straight(n, to)
<1>1. q \in Nat
  <2>1. pos[n] \in Int \X Int /\ pos[to] \in Int \X Int
    BY DEF NodesArePlaced
  <2>2. \A x \in Int : x * x \in Nat
    OBVIOUS
  <2>3. /\ pos[n][1] - pos[to][1] \in Int
        /\ pos[n][2] - pos[to][2] \in Int
    BY <2>1
  <2> QED
    BY <2>2, <2>3 DEF SquareOf
<1>2. \E k \in 0..q : k * k <= q /\ q < (k + 1) * (k + 1)
  BY <1>1, SquareRoot
<1>3. d \in 0..q /\ d * d <= q
  <2>1. d = CHOOSE k \in 0..q : k * k <= q /\ q < (k + 1) * (k + 1)
    BY DEF Straight
  <2> HIDE DEF d, q
  <2> QED
    BY <1>2, <2>1
<1>4. Heuristic(n) \in Nat /\ Unit * Heuristic(n) <= d
  <2>1. d \in Nat
    BY <1>1, <1>3
  <2>2. Unit \in Nat \ {0} /\ Heuristic(n) = d \div Unit
    BY <2>1, PlannerAssumption DEF Heuristic, Millimetres
  <2> HIDE DEF d
  <2> QED
    BY <2>1, <2>2
<1> QED
  BY <1>1, <1>3, <1>4

\* What a node expanded leaves behind.
LEMMA Expanded ==
  ASSUME IInv, NEW n \in open, Expand(n)
  PROVE  LET new == Improved(n)
         IN  /\ TypeOK /\ SearchInv /\ TypeOK' /\ SearchInv'
             /\ n \in DOMAIN score /\ n \notin new
             /\ open' = (open \ {n}) \cup new
             /\ score' = [m \in DOMAIN score \cup new |-> IF m \in new THEN Via(n, m) ELSE score[m]]
             /\ pred' = [m \in DOMAIN pred \cup new |-> IF m \in new THEN n ELSE pred[m]]
             /\ pos' = pos /\ graph' = graph /\ pc = "search" /\ pc' = pc
             /\ from' = from /\ to' = to /\ path' = path /\ plan' = plan
             /\ \A m \in new : /\ Joined(n, m) /\ Via(n, m) \in Nat /\ Via(n, m) >= score[n]
                               /\ m \notin DOMAIN score \/ Via(n, m) < score[m]
             /\ \A m \in Succ(n) \ new : m \in DOMAIN score /\ ~(Via(n, m) < score[m])
             /\ \A m \in open : Estimate(n) <= Estimate(m)
<1> DEFINE new == Improved(n)
<1>1. /\ pc = "search" /\ n \in DOMAIN score /\ SearchInv /\ TypeOK
      /\ \A m \in open : Estimate(n) <= Estimate(m)
  BY DEF Expand, IInv, TypeOK, IsLeast, Estimate
<1>2. /\ open' = (open \ {n}) \cup new
      /\ score' = [m \in DOMAIN score \cup new |-> IF m \in new THEN Via(n, m) ELSE score[m]]
      /\ pred' = [m \in DOMAIN pred \cup new |-> IF m \in new THEN n ELSE pred[m]]
      /\ pos' = pos /\ graph' = graph /\ pc' = pc /\ from' = from /\ to' = to
      /\ path' = path /\ plan' = plan
  BY DEF Expand, Pop, network, request
<1>3. \A m \in new : /\ Joined(n, m) /\ Via(n, m) \in Nat /\ Via(n, m) >= score[n]
                     /\ m \notin DOMAIN score \/ Via(n, m) < score[m]
  BY <1>1, ViaType, SuccIsJoined DEF Improved
<1>4. n \notin new
  BY <1>1, <1>3 DEF TypeOK
<1>5. \A m \in Succ(n) \ new : m \in DOMAIN score /\ ~(Via(n, m) < score[m])
  BY DEF Improved
<1>6. TypeOK' /\ SearchInv'
  BY <1>1, <1>2, ExpandStep DEF IInv
<1> QED
  BY <1>1, <1>2, <1>3, <1>4, <1>5, <1>6

\* A node lowered stays above the node it is reached from, since no cost is negative.
LEMMA ExpandDescends ==
  ASSUME IInv, Descends, NEW n \in open, Expand(n)
  PROVE  Descends'
<1> DEFINE new == Improved(n)
<1>1. /\ TypeOK /\ SearchInv /\ TypeOK' /\ SearchInv' /\ n \in DOMAIN score /\ n \notin new
      /\ score' = [m \in DOMAIN score \cup new |-> IF m \in new THEN Via(n, m) ELSE score[m]]
      /\ pred' = [m \in DOMAIN pred \cup new |-> IF m \in new THEN n ELSE pred[m]]
      /\ graph' = graph
      /\ \A m \in new : Via(n, m) \in Nat /\ (m \notin DOMAIN score \/ Via(n, m) < score[m])
  BY Expanded
<1>2. \A a, b : Via(a, b)' = score'[a] + Hop(a, b)
  BY <1>1 DEF Via, Hop, Edges
<1>3. \A m \in DOMAIN score : score'[m] \in Nat /\ score[m] \in Nat /\ score'[m] <= score[m]
  BY <1>1 DEF TypeOK
<1>4. SUFFICES ASSUME NEW m \in DOMAIN pred'
               PROVE  score'[m] >= score'[pred'[m]] + Hop(pred'[m], m)
  BY <1>2 DEF Descends
<1>5. CASE m \in new
  <2>1. score'[m] = Via(n, m) /\ pred'[m] = n /\ score'[n] = score[n]
    BY <1>1, <1>5
  <2>2. Via(n, m) = score[n] + Hop(n, m)
    BY ViaIsHop
  <2>3. Via(n, m) \in Nat
    BY <1>1, <1>5
  <2> QED
    BY <2>1, <2>2, <2>3
<1>6. CASE m \notin new
  <2>1. /\ m \in DOMAIN pred /\ pred'[m] = pred[m] /\ m \in DOMAIN score /\ pred[m] \in DOMAIN score
        /\ score'[m] = score[m] /\ Joined(pred[m], m)
    BY <1>1, <1>6 DEF SearchInv
  <2>2. score[m] >= score[pred[m]] + Hop(pred[m], m)
    BY <2>1, ViaIsHop DEF Descends
  <2>3. Hop(pred[m], m) \in Nat
    BY <1>1, <2>1, HopType
  <2> QED
    BY <1>3, <2>1, <2>2, <2>3
<1> QED
  BY <1>5, <1>6

\* The node that closes has just offered its ends the way over itself.
LEMMA ExpandRelaxed ==
  ASSUME IInv, Relaxed, NEW n \in open, Expand(n)
  PROVE  Relaxed'
<1> DEFINE new == Improved(n)
<1>1. /\ TypeOK /\ n \in DOMAIN score /\ n \notin new
      /\ open' = (open \ {n}) \cup new
      /\ score' = [m \in DOMAIN score \cup new |-> IF m \in new THEN Via(n, m) ELSE score[m]]
      /\ graph' = graph
      /\ \A m \in new : Via(n, m) \in Nat /\ (m \notin DOMAIN score \/ Via(n, m) < score[m])
      /\ \A m \in Succ(n) \ new : m \in DOMAIN score /\ ~(Via(n, m) < score[m])
  BY Expanded
<1>2. \A a, b : Via(a, b)' = score'[a] + Hop(a, b) /\ Succ(a)' = Succ(a)
  BY <1>1 DEF Via, Hop, Edges, Succ
<1>3. \A m \in DOMAIN score : score'[m] \in Nat /\ score[m] \in Nat /\ score'[m] <= score[m]
  BY <1>1 DEF TypeOK
<1>4. SUFFICES ASSUME NEW k \in DOMAIN score' \ open', NEW m \in Succ(k)
               PROVE  m \in DOMAIN score' /\ score'[m] <= score'[k] + Hop(k, m)
  BY <1>2 DEF Relaxed
<1>5. k \in DOMAIN score /\ k \notin new /\ score'[k] = score[k] /\ Hop(k, m) \in Nat
  <2>1. k \in DOMAIN score /\ k \notin new
    BY <1>1
  <2>2. Hop(k, m) \in Nat
    BY <1>1, HopType, SuccIsJoined
  <2> QED
    BY <1>1, <2>1, <2>2
<1>6. CASE k = n
  <2>1. Via(n, m) \in Nat /\ Via(n, m) = score'[k] + Hop(k, m)
    BY <1>3, <1>5, <1>6, ViaIsHop
  <2>2. CASE m \in new
    BY <1>1, <2>1, <2>2
  <2>3. CASE m \notin new
    BY <1>1, <1>3, <1>6, <2>1, <2>3
  <2> QED
    BY <2>2, <2>3
<1>7. CASE k # n
  <2>1. m \in DOMAIN score /\ score[m] <= score[k] + Hop(k, m)
    BY <1>1, <1>5, <1>7, ViaIsHop DEF Relaxed
  <2> QED
    BY <1>1, <1>3, <1>5, <2>1
<1> QED
  BY <1>6, <1>7

\* The nodes of least score of a cycle are a cycle themselves: one of them would be
\* new, and so the expanded node on it, but then the old tracker had that cycle.
LEMMA ExpandNoCycle ==
  ASSUME IInv, Descends, NoCycle(pred), NEW n \in open, Expand(n)
  PROVE  NoCycle(pred)'
<1> DEFINE new == Improved(n)
<1>1. /\ TypeOK /\ SearchInv /\ TypeOK' /\ SearchInv' /\ n \in DOMAIN score /\ n \notin new
      /\ score' = [m \in DOMAIN score \cup new |-> IF m \in new THEN Via(n, m) ELSE score[m]]
      /\ pred' = [m \in DOMAIN pred \cup new |-> IF m \in new THEN n ELSE pred[m]]
      /\ graph' = graph
      /\ \A m \in new : Via(n, m) \in Nat /\ (m \notin DOMAIN score \/ Via(n, m) < score[m])
  BY Expanded
<1>2. \A a, b : Via(a, b)' = score'[a] + Hop(a, b) /\ (Joined(a, b)' <=> Joined(a, b))
  BY <1>1 DEF Via, Hop, Edges, Joined
<1>3. \A m \in DOMAIN pred : /\ m \in DOMAIN score /\ pred[m] \in DOMAIN score
                             /\ score[pred[m]] <= score[m]
  <2> SUFFICES ASSUME NEW m \in DOMAIN pred
               PROVE  /\ m \in DOMAIN score /\ pred[m] \in DOMAIN score
                      /\ score[pred[m]] <= score[m]
    OBVIOUS
  <2>1. m \in DOMAIN score /\ pred[m] \in DOMAIN score /\ Joined(pred[m], m)
    BY <1>1 DEF SearchInv
  <2>2. score[m] >= score[pred[m]] + Hop(pred[m], m)
    BY ViaIsHop DEF Descends
  <2> QED
    BY <1>1, <2>1, <2>2, HopType DEF TypeOK
<1>4. \A m \in DOMAIN pred' : /\ m \in DOMAIN score' /\ pred'[m] \in DOMAIN score'
                              /\ score'[pred'[m]] <= score'[m]
  <2> SUFFICES ASSUME NEW m \in DOMAIN pred'
               PROVE  /\ m \in DOMAIN score' /\ pred'[m] \in DOMAIN score'
                      /\ score'[pred'[m]] <= score'[m]
    OBVIOUS
  <2>1. m \in DOMAIN score' /\ pred'[m] \in DOMAIN score' /\ Joined(pred'[m], m)
    BY <1>1, <1>2 DEF SearchInv
  <2>2. score'[m] >= score'[pred'[m]] + Hop(pred'[m], m)
    BY <1>2, ExpandDescends DEF Descends
  <2> QED
    BY <1>1, <2>1, <2>2, HopType DEF TypeOK
<1> SUFFICES ASSUME NEW C \in SUBSET DOMAIN pred', C # {}, \A c \in C : pred'[c] \in C
             PROVE  FALSE
  BY DEF NoCycle
<1>5. PICK c0 \in C : \A c \in C : score'[c0] <= score'[c]
  <2> DEFINE scores == {score'[c] : c \in C}
  <2>1. scores \in SUBSET Nat /\ scores # {}
    <3>1. \A m \in DOMAIN score' : score'[m] \in Nat
      BY <1>1 DEF TypeOK
    <3> QED
      BY <1>4, <3>1
  <2>2. Min(scores) \in scores /\ \A y \in scores : Min(scores) <= y
    <3> HIDE DEF scores
    <3> QED
      BY <2>1, MinOfNats
  <2>3. \A c \in C : score'[c] \in scores
    OBVIOUS
  <2>4. PICK c0 \in C : score'[c0] = Min(scores)
    BY <2>2
  <2> HIDE DEF scores
  <2> QED
    BY <2>2, <2>3, <2>4
<1> DEFINE D == {c \in C : score'[c] = score'[c0]}
<1>6. \A c \in D : pred'[c] \in D
  <2> SUFFICES ASSUME NEW c \in D PROVE pred'[c] \in D
    OBVIOUS
  <2>1. pred'[c] \in C /\ score'[pred'[c]] <= score'[c] /\ score'[c0] <= score'[pred'[c]]
    BY <1>4, <1>5
  <2>2. score'[pred'[c]] \in Nat /\ score'[c0] \in Nat
    BY <1>1, <1>4, <2>1 DEF TypeOK
  <2> QED
    BY <2>1, <2>2
<1>7. c0 \in D /\ D \subseteq DOMAIN pred'
  OBVIOUS
<1>8. n \in D
  <2>1. CASE D \cap new # {}
    BY <1>1, <1>6, <1>7, <2>1
  <2>2. CASE D \cap new = {}
    <3> HIDE DEF D
    <3>1. D \in SUBSET DOMAIN pred /\ D # {} /\ \A c \in D : pred[c] \in D
      BY <1>1, <1>6, <1>7, <2>2
    <3> QED
      BY <3>1 DEF NoCycle
  <2> QED
    BY <2>1, <2>2
<1>9. \A e \in D \ new : pred[e] \in D \ new
  <2> SUFFICES ASSUME NEW e \in D, e \notin new, pred[e] \in new PROVE FALSE
    BY <1>1, <1>6, <1>7
  <2>1. e \in DOMAIN pred /\ pred'[e] = pred[e] /\ pred[e] \in D
    BY <1>1, <1>6, <1>7
  <2>2. score'[pred[e]] < score[pred[e]] /\ score[pred[e]] <= score[e] /\ score'[e] = score[e]
    BY <1>1, <1>3, <2>1
  <2>3. score'[pred[e]] = score'[e]
    BY <2>1
  <2>4. score[pred[e]] \in Nat /\ score[e] \in Nat
    BY <1>1, <1>3, <2>1 DEF TypeOK
  <2> QED
    BY <2>2, <2>3, <2>4
<1> HIDE DEF D
<1>10. D \ new \in SUBSET DOMAIN pred /\ D \ new # {}
  BY <1>1, <1>7, <1>8
<1> QED
  BY <1>9, <1>10 DEF NoCycle

\* No node above another is farther from the start.
LEMMA AboveDescends ==
  ASSUME TypeOK, SearchInv, Descends, NEW n \in DOMAIN score
  PROVE  \A x \in AboveNow(n) : score[x] <= score[n]
<1> DEFINE C == {x \in DOMAIN score : score[x] <= score[n]}
<1>1. n \in C /\ C \in SUBSET DOMAIN score
  BY DEF TypeOK
<1>2. ASSUME NEW c \in C, c \in DOMAIN pred PROVE pred[c] \in C
  <2>1. pred[c] \in DOMAIN score /\ Joined(pred[c], c)
    BY <1>2 DEF SearchInv
  <2>2. score[c] >= score[pred[c]] + Hop(pred[c], c) /\ Hop(pred[c], c) \in Nat
    BY <1>2, <2>1, HopType, ViaIsHop DEF Descends
  <2>3. score[c] \in Nat /\ score[pred[c]] \in Nat /\ score[n] \in Nat /\ score[c] <= score[n]
    BY <2>1 DEF TypeOK
  <2>4. score[pred[c]] <= score[n]
    BY <2>2, <2>3
  <2> QED
    BY <2>1, <2>4
<1>3. Leads(C, pred)
  BY <1>2 DEF Leads
<1>4. AboveNow(n) \subseteq C
  <2> HIDE DEF C
  <2>1. \A c \in DOMAIN pred : pred[c] \in DOMAIN score
    BY DEF SearchInv
  <2> QED
    BY <1>1, <1>3, <2>1, AboveIsLeast DEF AboveNow
<1> QED
  BY <1>4

\* The estimates and what is above what, before and after n is expanded.
LEMMA ExpandOrder ==
  ASSUME IInv, NodesArePlaced, Descends, OpenInOrder, NEW n \in open, Expand(n)
  PROVE  LET new == Improved(n)
         IN  /\ \A x \in DOMAIN score : Estimate(x) \in Nat
             /\ \A x \in DOMAIN score \cup new : Estimate(x)' \in Nat
             /\ \A x \in DOMAIN score \ new : Estimate(x)' = Estimate(x)
             /\ \A x \in DOMAIN score \cap new : Estimate(x)' < Estimate(x)
             /\ n \in AboveNow(n) /\ AboveNow(n) \subseteq DOMAIN score
             /\ AboveNow(n) \cap new = {}
             /\ AboveNow(n) \cap open = {n}
             /\ \A y \in new : /\ AboveNow(y)' \subseteq AboveNow(n) \cup {y}
                               /\ AboveNow(n) \subseteq AboveNow(y)'
             /\ \A y \in DOMAIN score \ new :
                  /\ AboveNow(y)' \subseteq AboveNow(n) \cup AboveNow(y)
                  /\ \/ AboveNow(y) \subseteq AboveNow(y)'
                     \/ AboveNow(n) \subseteq AboveNow(y)'
<1> DEFINE new == Improved(n)
<1>1. /\ TypeOK /\ SearchInv /\ TypeOK' /\ SearchInv' /\ n \in DOMAIN score /\ n \notin new
      /\ score' = [m \in DOMAIN score \cup new |-> IF m \in new THEN Via(n, m) ELSE score[m]]
      /\ pred' = [m \in DOMAIN pred \cup new |-> IF m \in new THEN n ELSE pred[m]]
      /\ pos' = pos /\ graph' = graph /\ to' = to
      /\ \A m \in new : /\ Via(n, m) \in Nat /\ Via(n, m) >= score[n]
                        /\ m \notin DOMAIN score \/ Via(n, m) < score[m]
      /\ \A m \in open : Estimate(n) <= Estimate(m)
  BY Expanded
<1>2. \A x : Heuristic(x)' = Heuristic(x)
  BY <1>1 DEF Heuristic, Straight, SquareOf
<1>3. \A x \in DOMAIN pos : Heuristic(x) \in Nat
  BY <1>1, HeuristicType DEF SearchInv
<1>4. \A x \in DOMAIN score : Heuristic(x) \in Nat /\ score[x] \in Nat /\ Estimate(x) \in Nat
  BY <1>1, <1>3 DEF TypeOK, Estimate
<1>5. \A x \in DOMAIN score' : Heuristic(x) \in Nat /\ score'[x] \in Nat
  BY <1>1, <1>3 DEF TypeOK
<1>6. \A x : Estimate(x)' = score'[x] + Heuristic(x)
  BY <1>2 DEF Estimate
<1>7. \A x \in DOMAIN score \cup new : Estimate(x)' \in Nat
  BY <1>1, <1>5, <1>6
<1>8. \A x \in DOMAIN score \ new : Estimate(x)' = Estimate(x)
  BY <1>1, <1>6 DEF Estimate
<1>9. \A x \in DOMAIN score \cap new : Estimate(x)' < Estimate(x)
  <2> SUFFICES ASSUME NEW x \in DOMAIN score, x \in new PROVE Estimate(x)' < Estimate(x)
    OBVIOUS
  <2>1. score'[x] = Via(n, x) /\ Via(n, x) < score[x] /\ Via(n, x) \in Nat
    BY <1>1
  <2>2. score[x] \in Nat /\ Heuristic(x) \in Nat
    BY <1>4
  <2> QED
    BY <1>6, <2>1, <2>2 DEF Estimate
<1>10. /\ n \in AboveNow(n) /\ AboveNow(n) \subseteq DOMAIN score
       /\ \A x \in AboveNow(n) : score[x] <= score[n]
  <2>1. \A c \in DOMAIN pred : pred[c] \in DOMAIN score
    BY <1>1 DEF SearchInv
  <2> QED
    BY <1>1, <2>1, AboveIsLeast, AboveDescends DEF AboveNow
<1>11. AboveNow(n) \cap new = {}
  BY <1>1, <1>4, <1>10
<1>12. AboveNow(n) \cap open = {n}
  <2>1. ASSUME NEW x \in open, x \in AboveNow(n), x # n PROVE FALSE
    BY <1>1, <1>4, <1>10, <2>1 DEF OpenInOrder
  <2> QED
    BY <1>10, <2>1
<1>13. LET T == DOMAIN score \cup new
       IN  /\ \A y \in new : /\ Above(y, T, pred') \subseteq AboveNow(n) \cup {y}
                             /\ AboveNow(n) \subseteq Above(y, T, pred')
           /\ \A y \in DOMAIN score \ new :
                /\ Above(y, T, pred') \subseteq AboveNow(n) \cup AboveNow(y)
                /\ \/ AboveNow(y) \subseteq Above(y, T, pred')
                   \/ AboveNow(n) \subseteq Above(y, T, pred')
  <2>1. DOMAIN pred \subseteq DOMAIN score /\ \A c \in DOMAIN pred : pred[c] \in DOMAIN score
    BY <1>1 DEF SearchInv
  <2>2. new \cap Above(n, DOMAIN score, pred) = {}
    BY <1>11 DEF AboveNow
  <2>3. pred' = [m \in DOMAIN pred \cup new |-> IF m \in new THEN n ELSE pred[m]]
        /\ n \in DOMAIN score
    BY <1>1
  <2> HIDE DEF new
  <2>4. AboveMoves(n, new, DOMAIN score, pred, pred')
    BY <2>1, <2>2, <2>3, AboveExpanded
  <2> QED
    BY <2>4 DEF AboveMoves, AboveNow
<1>14. \A y : AboveNow(y)' = Above(y, DOMAIN score \cup new, pred')
  BY <1>1 DEF AboveNow
<1> QED
  BY <1>4, <1>7, <1>8, <1>9, <1>10, <1>11, <1>12, <1>13, <1>14

\* A closed node that is opened again below another open node still goes first.
LEMMA ExpandOpenInOrder ==
  ASSUME IInv, NodesArePlaced, Descends, OpenInOrder, ClosedInOrder, NEW n \in open, Expand(n)
  PROVE  OpenInOrder'
<1> DEFINE new == Improved(n)
           F(x) == Estimate(x)
           G(x) == Estimate(x)'
           A(x) == AboveNow(x)
           B(x) == AboveNow(x)'
<1>1. /\ n \in DOMAIN score /\ n \notin new /\ open \subseteq DOMAIN score
      /\ open' = (open \ {n}) \cup new
      /\ \A m \in open : F(n) <= F(m)
  BY Expanded DEF TypeOK
<1>2. /\ \A x \in DOMAIN score : F(x) \in Nat
      /\ \A x \in DOMAIN score \cup new : G(x) \in Nat
      /\ \A x \in DOMAIN score \ new : G(x) = F(x)
      /\ \A x \in DOMAIN score \cap new : G(x) < F(x)
      /\ A(n) \cap new = {} /\ A(n) \cap open = {n} /\ A(n) \subseteq DOMAIN score
      /\ \A y \in new : B(y) \subseteq A(n) \cup {y}
      /\ \A y \in DOMAIN score \ new : B(y) \subseteq A(n) \cup A(y)
  BY ExpandOrder
<1>3. \A x, y \in open : x # y /\ x \in A(y) => F(x) < F(y)
  BY DEF OpenInOrder
<1>4. \A x \in DOMAIN score \ open : \/ \A z \in open : x \in A(z) => F(z) >= F(x)
                                     \/ \A z \in open : x \notin A(z) => F(z) >= F(x)
  BY DEF ClosedInOrder
<1>5. \A y : AboveNow(y) \subseteq DOMAIN score
  BY DEF AboveNow, Above
<1> SUFFICES ASSUME NEW x \in open', NEW y \in open', x # y, x \in B(y)
             PROVE  G(x) < G(y)
  BY DEF OpenInOrder
<1> HIDE DEF new, F, G, A, B
<1>6. CASE y \in new
  BY <1>1, <1>2, <1>6
<1>7. CASE y \notin new
  <2>1. y \in open /\ y # n /\ y \in DOMAIN score /\ G(y) = F(y) /\ F(y) \in Nat /\ F(n) <= F(y)
        /\ F(n) \in Nat
    BY <1>1, <1>2, <1>7
  <2>2. CASE x \notin new
    <3>1. x \in open /\ x # n /\ x \in A(y) /\ G(x) = F(x)
      BY <1>1, <1>2, <2>1, <2>2, <1>7
    <3> QED
      BY <1>3, <2>1, <3>1
  <2>3. CASE x \in new
    <3>1. x \in A(y) /\ x \notin A(n) /\ x \in DOMAIN score
      BY <1>2, <1>5, <2>1, <2>3, <1>7 DEF A
    <3>2. G(x) < F(x) /\ G(x) \in Nat /\ F(x) \in Nat
      BY <1>2, <2>3, <3>1
    <3>3. CASE x \in open
      BY <1>3, <2>1, <3>1, <3>2, <3>3
    <3>4. CASE x \notin open
      <4>1. F(y) >= F(x)
        <5>1. CASE \A z \in open : x \in A(z) => F(z) >= F(x)
          BY <2>1, <3>1, <5>1
        <5>2. CASE \A z \in open : x \notin A(z) => F(z) >= F(x)
          <6>1. F(n) >= F(x)
            BY <3>1, <5>2
          <6> QED
            BY <2>1, <3>2, <6>1
        <5> QED
          BY <1>4, <3>1, <3>4, <5>1, <5>2
      <4> QED
        BY <2>1, <3>2, <4>1
    <3> QED
      BY <3>3, <3>4
  <2> QED
    BY <2>2, <2>3
<1> QED
  BY <1>6, <1>7

\* The expanded node was least among the open ones: whichever of the two claims held
\* of a closed node, one of them still does.
LEMMA ExpandClosedInOrder ==
  ASSUME IInv, NodesArePlaced, Descends, OpenInOrder, ClosedInOrder, NEW n \in open, Expand(n)
  PROVE  ClosedInOrder'
<1> DEFINE new == Improved(n)
           F(x) == Estimate(x)
           G(x) == Estimate(x)'
           A(x) == AboveNow(x)
           B(x) == AboveNow(x)'
<1>1. /\ n \in DOMAIN score /\ n \notin new /\ open \subseteq DOMAIN score
      /\ open' = (open \ {n}) \cup new
      /\ DOMAIN score' = DOMAIN score \cup new
      /\ \A m \in open : F(n) <= F(m)
  BY Expanded DEF TypeOK
<1>2. /\ \A x \in DOMAIN score : F(x) \in Nat
      /\ \A x \in DOMAIN score \cup new : G(x) \in Nat
      /\ \A x \in DOMAIN score \ new : G(x) = F(x)
      /\ n \in A(n) /\ A(n) \cap new = {}
      /\ \A y \in new : B(y) \subseteq A(n) \cup {y} /\ A(n) \subseteq B(y)
      /\ \A y \in DOMAIN score \ new :
           B(y) \subseteq A(n) \cup A(y) /\ (A(y) \subseteq B(y) \/ A(n) \subseteq B(y))
  BY ExpandOrder
<1>3. \A x \in DOMAIN score \ open : \/ \A z \in open : x \in A(z) => F(z) >= F(x)
                                     \/ \A z \in open : x \notin A(z) => F(z) >= F(x)
  BY DEF ClosedInOrder
<1> SUFFICES ASSUME NEW x \in DOMAIN score' \ open'
             PROVE  \/ \A z \in open' : x \in B(z) => G(z) >= G(x)
                    \/ \A z \in open' : x \notin B(z) => G(z) >= G(x)
  BY DEF ClosedInOrder
<1> HIDE DEF new, F, G, A, B
<1>4. x \in DOMAIN score /\ x \notin new /\ G(x) = F(x) /\ F(x) \in Nat /\ (x = n \/ x \notin open)
  BY <1>1, <1>2
<1>5. \A z \in open' \ new : z \in open /\ z # n /\ G(z) = F(z) /\ F(z) \in Nat /\ F(n) <= F(z)
                             /\ F(n) \in Nat
  BY <1>1, <1>2
\* When n is not less than x, no open node is.
<1>6. ASSUME F(n) >= F(x), NEW z \in open' \ new PROVE G(z) >= G(x)
  BY <1>4, <1>5, <1>6
<1>7. CASE x \in A(n)
  <2> SUFFICES ASSUME NEW z \in open', x \notin B(z) PROVE G(z) >= G(x)
    OBVIOUS
  <2>1. z \notin new /\ z \in DOMAIN score
    BY <1>1, <1>2, <1>5, <1>7
  <2>2. CASE F(n) >= F(x)
    BY <1>6, <2>1, <2>2
  <2>3. CASE ~(F(n) >= F(x))
    <3>1. x # n /\ x \notin open
      BY <1>2, <1>4, <2>3
    <3>2. \A y \in open : x \notin A(y) => F(y) >= F(x)
      BY <1>1, <1>3, <1>4, <1>7, <2>3, <3>1
    <3>3. x \notin A(z)
      BY <1>2, <1>7, <2>1
    <3> QED
      BY <1>4, <1>5, <2>1, <3>2, <3>3
  <2> QED
    BY <2>2, <2>3
<1>8. CASE x \notin A(n)
  <2> SUFFICES ASSUME NEW z \in open', x \in B(z) PROVE G(z) >= G(x)
    OBVIOUS
  <2>1. z \notin new /\ z \in DOMAIN score /\ x \in A(z)
    BY <1>1, <1>2, <1>4, <1>5, <1>8
  <2>2. x \notin open
    BY <1>2, <1>4, <1>8
  <2>3. CASE \A y \in open : x \in A(y) => F(y) >= F(x)
    BY <1>4, <1>5, <2>1, <2>3
  <2>4. CASE \A y \in open : x \notin A(y) => F(y) >= F(x)
    BY <1>6, <1>8, <2>1, <2>4
  <2> QED
    BY <1>3, <1>4, <2>2, <2>3, <2>4
<1> QED
  BY <1>7, <1>8

\* The cut to millimetres takes less than one away.
LEMMA CutToMillimetres ==
  ASSUME NEW x \in Nat
  PROVE  /\ Unit * Millimetres(x) <= x /\ x <= Unit * Millimetres(x) + (Unit - 1)
         /\ Millimetres(x) \in Nat
<1>1. Unit \in Nat \ {0} /\ Millimetres(x) = x \div Unit
  BY PlannerAssumption DEF Millimetres
<1> QED
  BY <1>1

\* A step of a sum that bounds a multiple of another.
LEMMA ScaledSum ==
  ASSUME NEW u \in Nat, NEW x \in Nat, NEW y \in Nat, NEW m \in Nat,
         NEW l \in Int, NEW d \in Int, x <= y + m, u * y <= l, u * m <= d
  PROVE  u * x <= l + d
<1>1. u * x <= u * (y + m)
  OBVIOUS
<1>2. u * (y + m) = u * y + u * m
  OBVIOUS
<1> QED
  BY <1>1, <1>2

\* The edges of a route that find_edge finds, and how long they are.
LEMMA RouteEdges ==
  ASSUME TypeOK, GraphIsFinite, NEW p \in Seq(DOMAIN pos), NEW s, NEW t, IsRoute(p, s, t)
  PROVE  /\ Len(p) - 1 \in Nat
         /\ \A i \in 1..(Len(p) - 1) :
              LET e == FindEdge(p[i], p[i + 1])
              IN  /\ e # 0 /\ e \in DOMAIN graph /\ Joined(p[i], p[i + 1])
                  /\ graph[e].from = p[i] /\ graph[e].to = p[i + 1] /\ graph[e].len \in Int
                  /\ p[i] \in DOMAIN pos /\ p[i + 1] \in DOMAIN pos
                  /\ p[i] \in Ids /\ p[i + 1] \in Ids
                  /\ LengthTo(p)[i] = LengthTo(p)[i - 1] + graph[e].len
         /\ LengthTo(p) \in [0..(Len(p) - 1) -> Int]
         /\ LengthTo(p)[0] = 0
<1> DEFINE n == Len(p) - 1
<1>1. n \in Nat /\ Len(p) = n + 1
  BY DEF IsRoute
<1>2. ASSUME NEW i \in 1..n
      PROVE  LET e == FindEdge(p[i], p[i + 1])
             IN  /\ e # 0 /\ e \in DOMAIN graph /\ Joined(p[i], p[i + 1])
                 /\ graph[e].from = p[i] /\ graph[e].to = p[i + 1] /\ graph[e].len \in Int
                 /\ p[i] \in DOMAIN pos /\ p[i + 1] \in DOMAIN pos
                 /\ p[i] \in Ids /\ p[i + 1] \in Ids
  <2>1. Joined(p[i], p[i + 1])
    BY DEF IsRoute
  <2> QED
    BY <2>1, FindEdgeJoins DEF TypeOK
<1>3. /\ LengthTo(p) \in [0..n -> Int]
      /\ LengthTo(p)[0] = 0
      /\ \A i \in 1..n :
           LengthTo(p)[i] = LengthTo(p)[i - 1] + graph[FindEdge(p[i], p[i + 1])].len
  <2>1. \A i \in 1..n : graph[FindEdge(p[i], p[i + 1])].len \in Int
    BY <1>2
  <2> HIDE DEF n
  <2> QED
    BY <1>1, <2>1, LengthToSteps
<1> QED
  BY <1>1, <1>2, <1>3

\* What the loop of find_path holds after the first i pairs of a route.
LEMMA WalkSteps ==
  ASSUME TypeOK, GraphIsFinite, NEW p \in Seq(DOMAIN pos), NEW s, NEW t, IsRoute(p, s, t)
  PROVE  LET w == Walk(p)
         IN  /\ w[0] = [edges |-> << >>, dist |-> 0]
             /\ \A i \in 1..(Len(p) - 1) :
                  w[i] = [edges |-> Append(w[i - 1].edges, <<p[i], p[i + 1]>>),
                          dist  |-> w[i - 1].dist + graph[FindEdge(p[i], p[i + 1])].len]
<1> DEFINE n == Len(p) - 1
<1>1. n \in Nat /\ \A i \in 1..n :
        LET e == FindEdge(p[i], p[i + 1])
        IN  /\ e # 0 /\ graph[e].from = p[i] /\ graph[e].to = p[i + 1]
            /\ p[i] \in Ids /\ p[i + 1] \in Ids /\ graph[e].len \in Int
  BY RouteEdges
<1>2. n \in Nat
  BY <1>1
<1> HIDE DEF n
<1> DEFINE e(i) == FindEdge(p[i], p[i + 1])
           none == [edges |-> << >>, dist |-> 0]
           one(i, h) == [edges |-> Append(h.edges, <<graph[e(i)].from, graph[e(i)].to>>),
                         dist |-> h.dist + graph[e(i)].len]
           body(f) == [i \in 0..n |->
                        IF i = 0 THEN none
                        ELSE IF e(i) = 0 THEN f[i - 1] ELSE one(i, f[i - 1])]
           S == [edges : Seq(Ids \X Ids), dist : Int]
           step == [x \in (1..n) \X S |-> one(x[1], x[2])]
           w == Walk(p)
<1>3. w = CHOOSE f : f = body(f)
  <2>1. Len(p) - 1 = n
    BY DEF n
  <2> QED
    BY <2>1, Zenon DEF Walk
<1>4. step \in [(1..n) \X S -> S]
  <2>1. ASSUME NEW i \in 1..n, NEW h \in S PROVE one(i, h) \in S
    <3>1. /\ graph[e(i)].from \in Ids /\ graph[e(i)].to \in Ids /\ graph[e(i)].len \in Int
      BY <1>1
    <3> HIDE DEF e
    <3> QED
      BY <3>1
  <2> HIDE DEF one, S
  <2> QED
    BY <2>1
<1>5. PICK g \in [0..n -> S] : g[0] = none /\ \A i \in 1..n : g[i] = step[<<i, g[i - 1]>>]
  <2>1. none \in S
    OBVIOUS
  <2> HIDE DEF step, S, none
  <2>2. IsRecursive(n, S, none, step)
    BY <1>2, <1>4, <2>1, Recursion
  <2> QED
    BY <2>2 DEF IsRecursive
<1>6. \A i \in 1..n : g[i] = one(i, g[i - 1])
  <2> SUFFICES ASSUME NEW i \in 1..n PROVE g[i] = one(i, g[i - 1])
    OBVIOUS
  <2> HIDE DEF one, S
  <2>1. <<i, g[i - 1]>> \in (1..n) \X S
    BY <1>2
  <2> QED
    BY <2>1, <1>5
<1>7. g = body(g)
  <2>1. \A i \in 1..n : e(i) # 0
    BY <1>1
  <2> HIDE DEF one, e, none, S
  <2>2. \A i \in 0..n : g[i] = body(g)[i]
    BY <1>2, <1>5, <1>6, <2>1
  <2> QED
    BY <2>2
<1>8. w = body(w)
  <2> HIDE DEF body, w
  <2> QED
    BY <1>3, <1>7, Zenon
<1>9. w[0] = none /\ \A i \in 1..n : w[i] = one(i, w[i - 1])
  <2>1. \A i \in 1..n : e(i) # 0
    BY <1>1
  <2> HIDE DEF w, one, e, none
  <2>2. w = [i \in 0..n |-> IF i = 0 THEN none
                           ELSE IF e(i) = 0 THEN w[i - 1] ELSE one(i, w[i - 1])]
    BY <1>8
  <2>3. w[0] = none
    BY <1>2, <2>2
  <2>4. ASSUME NEW i \in 1..n PROVE w[i] = one(i, w[i - 1])
    <3>1. i \in 0..n /\ i # 0 /\ e(i) # 0
      BY <1>2, <2>1
    <3> QED
      BY <2>2, <3>1, Zenon
  <2> QED
    BY <2>3, <2>4
<1> QED
  BY <1>1, <1>9 DEF n

\* The plan made of a route.
LEMMA PlanOfRoute ==
  ASSUME TypeOK, GraphIsFinite, NEW p \in Seq(DOMAIN pos), NEW s, NEW t, IsRoute(p, s, t)
  PROVE  /\ PlanOf(p).nodes = p
         /\ PlanOf(p).edges \in Seq(Ids \X Ids) /\ Len(PlanOf(p).edges) = Len(p) - 1
         /\ \A i \in 1..(Len(p) - 1) : PlanOf(p).edges[i] = <<p[i], p[i + 1]>>
         /\ PlanOf(p).dist = Length(p)
<1> DEFINE n == Len(p) - 1
           w == Walk(p)
           L == LengthTo(p)
           G == {i \in 0..n : /\ w[i].edges \in Seq(Ids \X Ids) /\ Len(w[i].edges) = i
                              /\ \A j \in 1..i : w[i].edges[j] = <<p[j], p[j + 1]>>
                              /\ w[i].dist = L[i]}
<1>1. n \in Nat /\ Len(p) = n + 1
  BY DEF IsRoute
<1>2. \A i \in 1..n : LET e == FindEdge(p[i], p[i + 1])
                      IN  /\ e # 0 /\ graph[e].from = p[i] /\ graph[e].to = p[i + 1]
                          /\ p[i] \in Ids /\ p[i + 1] \in Ids /\ graph[e].len \in Int
                          /\ L[i] = L[i - 1] + graph[e].len
  BY RouteEdges
<1>3. L[0] = 0
  BY RouteEdges
<1>4. /\ w[0] = [edges |-> << >>, dist |-> 0]
      /\ \A i \in 1..n :
           w[i] = [edges |-> Append(w[i - 1].edges, <<p[i], p[i + 1]>>),
                   dist  |-> w[i - 1].dist + graph[FindEdge(p[i], p[i + 1])].len]
  BY WalkSteps
<1> HIDE DEF n, w, L
<1>5. 0 \in G
  <2>1. w[0].edges = << >> /\ w[0].dist = 0
    BY <1>4
  <2>2. << >> \in Seq(Ids \X Ids) /\ Len(<< >>) = 0 /\ 0 \in 0..n
    BY <1>1
  <2>3. w[0].edges \in Seq(Ids \X Ids) /\ Len(w[0].edges) = 0 /\ w[0].dist = L[0]
    BY <1>3, <2>1, <2>2
  <2> QED
    BY <2>2, <2>3
<1>6. ASSUME NEW i \in 0..(n - 1), i \in G PROVE i + 1 \in G
  <2>1. i + 1 \in 1..n /\ i + 1 \in 0..n /\ (i + 1) - 1 = i
    BY <1>1
  <2>2. w[i + 1] = [edges |-> Append(w[i].edges, <<p[i + 1], p[i + 2]>>),
                    dist  |-> w[i].dist + graph[FindEdge(p[i + 1], p[i + 2])].len]
    <3>1. (i + 1) + 1 = i + 2
      OBVIOUS
    <3>2. w[i + 1] = [edges |-> Append(w[(i + 1) - 1].edges, <<p[i + 1], p[(i + 1) + 1]>>),
                      dist  |-> w[(i + 1) - 1].dist
                                  + graph[FindEdge(p[i + 1], p[(i + 1) + 1])].len]
      BY <1>4, <2>1
    <3> QED
      BY <2>1, <3>1, <3>2
  <2>3. w[i + 1].dist = L[i + 1]
    BY <1>2, <1>6, <2>1, <2>2
  <2>4. <<p[i + 1], p[i + 2]>> \in Ids \X Ids
    BY <1>2, <2>1
  <2> DEFINE es == w[i].edges
  <2>5. es \in Seq(Ids \X Ids) /\ Len(es) = i /\ \A j \in 1..i : es[j] = <<p[j], p[j + 1]>>
    BY <1>6
  <2>6. w[i + 1].edges = Append(es, <<p[i + 1], p[i + 2]>>)
    BY <2>2
  <2> HIDE DEF es
  <2>7. /\ w[i + 1].edges \in Seq(Ids \X Ids) /\ Len(w[i + 1].edges) = i + 1
        /\ \A j \in 1..(i + 1) : w[i + 1].edges[j] = <<p[j], p[j + 1]>>
    BY <2>4, <2>5, <2>6
  <2> QED
    BY <2>1, <2>3, <2>7
<1>7. n \in G
  <2> HIDE DEF G
  <2>1. \A i \in 0..n : i \in G
    BY <1>1, <1>5, <1>6, UpTo
  <2> QED
    BY <1>1, <2>1
<1>8. PlanOf(p) = [nodes |-> p, edges |-> w[n].edges, dist |-> w[n].dist]
  BY DEF PlanOf, w, n
<1> QED
  BY <1>7, <1>8 DEF Length, L, n

\* Along a route from the start whose nodes are closed up to the (k+1)-th no score
\* exceeds what the route costs so far.
LEMMA AlongClosed ==
  ASSUME TypeOK, SearchInv, GraphIsFinite, Relaxed, \A e \in Edges : e.len >= 0,
         NEW p \in Seq(DOMAIN pos), NEW t, IsRoute(p, from, t),
         NEW k \in 0..(Len(p) - 1), \A j \in 1..k : p[j] \notin open
  PROVE  \A i \in 0..k : p[i + 1] \in DOMAIN score /\ Unit * score[p[i + 1]] <= LengthTo(p)[i]
<1> DEFINE n == Len(p) - 1
           L == LengthTo(p)
           G == {i \in 0..k : p[i + 1] \in DOMAIN score /\ Unit * score[p[i + 1]] <= L[i]}
<1>1. k \in Nat /\ n \in Nat /\ k <= n /\ L \in [0..n -> Int] /\ L[0] = 0
  BY RouteEdges
<1>2. Unit \in Nat
  BY PlannerAssumption
<1>3. 0 \in G
  BY <1>1, <1>2 DEF SearchInv, IsRoute
<1>4. ASSUME NEW i \in 0..(k - 1), i \in G PROVE i + 1 \in G
  <2> DEFINE a == p[i + 1]
             b == p[i + 2]
             e == graph[FindEdge(a, b)]
  <2>1. i + 1 \in 1..n /\ i + 1 \in 1..k /\ i + 1 \in 0..k /\ (i + 1) + 1 = i + 2 /\ (i + 1) - 1 = i
    BY <1>1
  <2>2. /\ Joined(a, b) /\ e.len \in Int /\ e.from = a /\ e.to = b
        /\ FindEdge(a, b) \in DOMAIN graph /\ L[i + 1] = L[i] + e.len
    <3> DEFINE ed(j) == FindEdge(p[j], p[j + 1])
    <3>1. \A j \in 1..n :
            /\ Joined(p[j], p[j + 1]) /\ graph[ed(j)].len \in Int
            /\ graph[ed(j)].from = p[j] /\ graph[ed(j)].to = p[j + 1]
            /\ ed(j) \in DOMAIN graph /\ L[j] = L[j - 1] + graph[ed(j)].len
      BY RouteEdges
    <3> HIDE DEF L, n
    <3> QED
      BY <2>1, <3>1
  <2>3. e.len \in Nat
    BY <2>2 DEF Edges
  <2>4. a \in DOMAIN score \ open /\ Unit * score[a] <= L[i]
    BY <1>4, <2>1
  <2>5. b \in DOMAIN score /\ score[b] <= score[a] + Hop(a, b)
    BY <2>2, <2>4, SuccIsJoined, ViaIsHop DEF Relaxed
  <2>6. Hop(a, b) \in Nat /\ Hop(a, b) <= Millimetres(e.len)
    BY <2>2, HopType DEF Cost
  <2>7. Unit * Millimetres(e.len) <= e.len /\ Millimetres(e.len) \in Nat
    BY <2>3, CutToMillimetres
  <2>8. score[a] \in Nat /\ score[b] \in Nat /\ L[i] \in Int
    <3>1. i \in 0..n
      BY <1>1, <2>1
    <3>2. L[i] \in Int
      <4> HIDE DEF L, n
      <4> QED
        BY <1>1, <3>1
    <3>3. \A x \in DOMAIN score : score[x] \in Nat
      BY DEF TypeOK
    <3> HIDE DEF a, b
    <3> QED
      BY <2>4, <2>5, <3>2, <3>3
  <2>9. Unit * score[b] <= L[i] + e.len
    <3>1. score[b] <= score[a] + Millimetres(e.len)
      BY <2>5, <2>6, <2>7, <2>8
    <3> HIDE DEF a, b, e, L
    <3> QED
      BY <1>2, <2>2, <2>4, <2>7, <2>8, <3>1, ScaledSum, Zenon
  <2> QED
    BY <2>1, <2>2, <2>5, <2>9
<1>5. \A i \in 0..k : i \in G
  <2> HIDE DEF G
  <2> QED
    BY <1>1, <1>3, <1>4, UpTo
<1> QED
  BY <1>5

\* Back along the tracker no score is less than what the route costs so far but for
\* what the cut to millimetres takes from each edge.
LEMMA AlongTracker ==
  ASSUME TypeOK, SearchInv, GraphIsFinite, Descends, Metric,
         NEW p \in Seq(DOMAIN pos), NEW t, IsRoute(p, from, t),
         \A i \in 2..Len(p) : p[i] \in DOMAIN pred /\ pred[p[i]] = p[i - 1]
  PROVE  \A i \in 0..(Len(p) - 1) :
           p[i + 1] \in DOMAIN score /\ LengthTo(p)[i] <= Unit * score[p[i + 1]] + (Unit - 1) * i
<1> DEFINE n == Len(p) - 1
           L == LengthTo(p)
           G == {i \in 0..n : /\ p[i + 1] \in DOMAIN score
                              /\ L[i] <= Unit * score[p[i + 1]] + (Unit - 1) * i}
<1>1. n \in Nat /\ L \in [0..n -> Int] /\ L[0] = 0
  BY RouteEdges
<1>2. Unit \in Nat /\ Unit - 1 \in Nat
  BY PlannerAssumption
<1>3. 0 \in G
  BY <1>1, <1>2 DEF SearchInv, IsRoute
<1>4. ASSUME NEW i \in 0..(n - 1), i \in G PROVE i + 1 \in G
  <2> DEFINE a == p[i + 1]
             b == p[i + 2]
             e == graph[FindEdge(a, b)]
  <2>1. /\ i + 1 \in 1..n /\ i + 1 \in 0..n /\ i \in 0..n /\ i + 2 \in 2..Len(p)
        /\ (i + 1) + 1 = i + 2 /\ (i + 1) - 1 = i /\ (i + 2) - 1 = i + 1
    BY <1>1
  <2>2. /\ Joined(a, b) /\ e.len \in Int /\ e.from = a /\ e.to = b
        /\ FindEdge(a, b) \in DOMAIN graph /\ L[i + 1] = L[i] + e.len
    <3> DEFINE ed(j) == FindEdge(p[j], p[j + 1])
    <3>1. \A j \in 1..n :
            /\ Joined(p[j], p[j + 1]) /\ graph[ed(j)].len \in Int
            /\ graph[ed(j)].from = p[j] /\ graph[ed(j)].to = p[j + 1]
            /\ ed(j) \in DOMAIN graph /\ L[j] = L[j - 1] + graph[ed(j)].len
      BY RouteEdges
    <3> HIDE DEF L, n
    <3> QED
      BY <2>1, <3>1
  <2>3. e.len \in Nat
    BY <2>2 DEF Edges, Metric
  <2>4. b \in DOMAIN pred /\ pred[b] = a
    BY <2>1
  <2>5. a \in DOMAIN score /\ b \in DOMAIN score /\ score[b] >= score[a] + Hop(a, b)
    BY <2>4, ViaIsHop DEF SearchInv, Descends
  <2>6. Hop(a, b) = Millimetres(e.len)
    <3>1. PICK j \in DOMAIN graph : /\ graph[j].from = a /\ graph[j].to = b
                                    /\ Hop(a, b) = Cost(graph[j])
      BY <2>2, HopType
    <3>2. j = FindEdge(a, b)
      BY <2>2, <3>1 DEF Metric
    <3> QED
      BY <3>1, <3>2 DEF Cost
  <2>7. e.len <= Unit * Millimetres(e.len) + (Unit - 1) /\ Millimetres(e.len) \in Nat
    BY <2>3, CutToMillimetres
  <2>8. score[a] \in Nat /\ score[b] \in Nat /\ L[i] \in Int
    <3>1. L[i] \in Int
      <4> HIDE DEF L, n
      <4> QED
        BY <1>1, <2>1
    <3>2. \A x \in DOMAIN score : score[x] \in Nat
      BY DEF TypeOK
    <3> HIDE DEF a, b
    <3> QED
      BY <2>5, <3>1, <3>2
  <2>9. L[i] <= Unit * score[a] + (Unit - 1) * i
    BY <1>4
  <2>10. L[i] + e.len <= Unit * score[b] + (Unit - 1) * (i + 1)
    <3>1. \A u, v, x, y, m, k \in Nat : \A l, d \in Int :
            x >= y + m /\ l <= u * y + v * k /\ d <= u * m + v =>
              l + d <= u * x + v * (k + 1)
      <4> SUFFICES ASSUME NEW u \in Nat, NEW v \in Nat, NEW x \in Nat, NEW y \in Nat,
                          NEW m \in Nat, NEW k \in Nat, NEW l \in Int, NEW d \in Int,
                          x >= y + m, l <= u * y + v * k, d <= u * m + v
                   PROVE  l + d <= u * x + v * (k + 1)
        OBVIOUS
      <4>1. u * x >= u * (y + m)
        OBVIOUS
      <4>2. u * (y + m) = u * y + u * m /\ v * (k + 1) = v * k + v
        OBVIOUS
      <4> QED
        BY <4>1, <4>2
    <3>2. score[b] >= score[a] + Millimetres(e.len)
      BY <2>5, <2>6
    <3>3. i \in Nat
      OBVIOUS
    <3> HIDE DEF a, b, e, L
    <3> QED
      BY <1>2, <2>2, <2>7, <2>8, <2>9, <3>1, <3>2, <3>3, Zenon
  <2> QED
    BY <2>1, <2>2, <2>5, <2>10
<1>5. \A i \in 0..n : i \in G
  <2> HIDE DEF G
  <2> QED
    BY <1>1, <1>3, <1>4, UpTo
<1> QED
  BY <1>5

\* Two sides of a triangle are no shorter than the third.
LEMMA SquareTriangle ==
  ASSUME NEW a, NEW b, NEW c, NEW x \in Nat, NEW y \in Nat,
         pos[a] \in Int \X Int, pos[b] \in Int \X Int, pos[c] \in Int \X Int,
         x * x >= SquareOf(a, b), y * y >= SquareOf(b, c)
  PROVE  (x + y) * (x + y) >= SquareOf(a, c)
<1> DEFINE ux == pos[a][1] - pos[b][1]
           uy == pos[a][2] - pos[b][2]
           vx == pos[b][1] - pos[c][1]
           vy == pos[b][2] - pos[c][2]
<1>1. /\ pos[a][1] \in Int /\ pos[a][2] \in Int /\ pos[b][1] \in Int /\ pos[b][2] \in Int
      /\ pos[c][1] \in Int /\ pos[c][2] \in Int
  OBVIOUS
<1>2. ux \in Int /\ uy \in Int /\ vx \in Int /\ vy \in Int
  BY <1>1
<1>3. SquareOf(a, b) = ux * ux + uy * uy /\ SquareOf(b, c) = vx * vx + vy * vy
  BY DEF SquareOf
<1>4. SquareOf(a, c) = (ux + vx) * (ux + vx) + (uy + vy) * (uy + vy)
  <2>1. ux + vx = pos[a][1] - pos[c][1] /\ uy + vy = pos[a][2] - pos[c][2]
    BY <1>1
  <2> QED
    BY <2>1 DEF SquareOf
<1> HIDE DEF ux, uy, vx, vy
<1>5. x * x >= ux * ux + uy * uy /\ y * y >= vx * vx + vy * vy
  BY <1>3
<1> QED
  BY <1>2, <1>4, <1>5, Triangle

\* What is left of a route is no shorter than the straight line to its end.
LEMMA RestIsNoShorter ==
  ASSUME TypeOK, NodesArePlaced, GraphIsFinite, Metric,
         NEW p \in Seq(DOMAIN pos), NEW s, NEW t, IsRoute(p, s, t)
  PROVE  LET n == Len(p) - 1
             L == LengthTo(p)
         IN  \A i \in 0..n : /\ L[n] - L[i] \in Nat
                             /\ (L[n] - L[i]) * (L[n] - L[i]) >= SquareOf(p[i + 1], t)
<1> DEFINE n == Len(p) - 1
           L == LengthTo(p)
           G == {j \in 0..n : LET i == n - j
                              IN  /\ L[n] - L[i] \in Nat
                                  /\ (L[n] - L[i]) * (L[n] - L[i]) >= SquareOf(p[i + 1], t)}
<1>1. n \in Nat /\ L \in [0..n -> Int] /\ Len(p) = n + 1
  BY RouteEdges
<1>2. \A i \in 1..(n + 1) : pos[p[i]] \in Int \X Int
  BY <1>1 DEF NodesArePlaced
<1>3. 0 \in G
  <2>1. p[n + 1] = t
    BY <1>1 DEF IsRoute
  <2>2. SquareOf(t, t) = 0
    BY <1>1, <1>2, <2>1 DEF SquareOf
  <2>3. L[n] - L[n] = 0
    BY <1>1
  <2> QED
    BY <1>1, <2>1, <2>2, <2>3
<1>4. ASSUME NEW j \in 0..(n - 1), j \in G PROVE j + 1 \in G
  <2> DEFINE k == n - j
             a == p[k]
             b == p[k + 1]
             e == graph[FindEdge(a, b)]
             rest == L[n] - L[k]
  <2>1. k \in 1..n /\ k - 1 \in 0..n /\ k - 1 = n - (j + 1) /\ (k - 1) + 1 = k /\ j + 1 \in 0..n
    BY <1>1
  <2>2. /\ e.len \in Int /\ e.from = a /\ e.to = b
        /\ FindEdge(a, b) \in DOMAIN graph /\ L[k] = L[k - 1] + e.len
    <3> DEFINE ed(i) == FindEdge(p[i], p[i + 1])
    <3>1. \A i \in 1..n :
            /\ graph[ed(i)].len \in Int
            /\ graph[ed(i)].from = p[i] /\ graph[ed(i)].to = p[i + 1]
            /\ ed(i) \in DOMAIN graph /\ L[i] = L[i - 1] + graph[ed(i)].len
      BY RouteEdges
    <3> HIDE DEF L, n, k
    <3> QED
      BY <2>1, <3>1
  <2>3. e.len \in Nat /\ e.len * e.len >= SquareOf(a, b)
    BY <2>2 DEF Edges, Metric
  <2>4. rest \in Nat /\ rest * rest >= SquareOf(b, t)
    BY <1>4
  <2>5. L[n] - L[k - 1] = e.len + rest
    <3>1. L[n] \in Int /\ L[k] \in Int /\ L[k - 1] \in Int
      <4>1. n \in 0..n /\ k \in 0..n
        BY <1>1, <2>1
      <4>2. k - 1 \in 0..n
        BY <2>1
      <4> HIDE DEF L, n, k
      <4> QED
        BY <1>1, <4>1, <4>2
    <3>2. rest = L[n] - L[k]
      OBVIOUS
    <3>3. L[k] = L[k - 1] + e.len /\ e.len \in Int
      BY <2>2
    <3> HIDE DEF L, n, k, e, rest
    <3> QED
      BY <3>1, <3>2, <3>3
  <2>6. (e.len + rest) * (e.len + rest) >= SquareOf(a, t)
    <3>1. pos[a] \in Int \X Int /\ pos[b] \in Int \X Int /\ pos[t] \in Int \X Int
      <4>1. k \in 1..(n + 1) /\ k + 1 \in 1..(n + 1) /\ n + 1 \in 1..(n + 1)
        BY <1>1, <2>1
      <4>2. p[n + 1] = t
        BY <1>1 DEF IsRoute
      <4> HIDE DEF n, k
      <4> QED
        BY <1>2, <4>1, <4>2
    <3> HIDE DEF rest, e, a, b
    <3> QED
      BY <2>3, <2>4, <3>1, SquareTriangle
  <2>7. e.len + rest \in Nat
    BY <2>3, <2>4
  <2> QED
    BY <2>1, <2>5, <2>6, <2>7
<1>5. \A j \in 0..n : j \in G
  <2> HIDE DEF G
  <2> QED
    BY <1>1, <1>3, <1>4, UpTo
<1>6. \A i \in 0..n : n - i \in 0..n /\ n - (n - i) = i
  BY <1>1
<1> HIDE DEF n, L
<1> QED
  BY <1>5, <1>6 DEF n, L

RankInv == Descends /\ Relaxed /\ NoCycle(pred) /\ OpenInOrder /\ ClosedInOrder

\* While the route is traced: it follows the tracker from a target that was least, and
\* visits no node twice.
TraceOrder ==
  /\ to \in open /\ IsLeast(to)
  /\ \A i \in 2..Len(path) : path[i] \in DOMAIN pred /\ pred[path[i]] = path[i - 1]
  /\ \A i, j \in 1..Len(path) : path[i] = path[j] => i = j
  /\ \A i \in 1..Len(path) : path[i] \in AboveNow(to)

BestInv ==
  /\ GraphIsFinite /\ NodesArePlaced
  /\ pc \in {"search", "trace"} => RankInv
  /\ pc = "trace" => TraceOrder
  /\ OrderVisitsOnce /\ NearlyShortest /\ NeverUnderstated

\* What is said of answers holds while there is none.
LEMMA NoAnswerYet == plan = NoPlan => OrderVisitsOnce /\ NearlyShortest /\ NeverUnderstated
BY DEF OrderVisitsOnce, NearlyShortest, NeverUnderstated

\* What the search knows only changes with it.
LEMMA RankKept ==
  ASSUME RankInv, pos' = pos, graph' = graph, to' = to,
         open' = open, score' = score, pred' = pred
  PROVE  RankInv'
<1>1. \A a, b : Via(a, b)' = Via(a, b) /\ Succ(a)' = Succ(a)
  BY DEF Via, Succ, Edges
<1>2. \A a : Estimate(a)' = Estimate(a) /\ AboveNow(a)' = AboveNow(a)
  BY DEF Estimate, Heuristic, Straight, SquareOf, AboveNow
<1>3. Descends' /\ Relaxed'
  BY <1>1 DEF RankInv, Descends, Relaxed
<1>4. NoCycle(pred)' /\ OpenInOrder' /\ ClosedInOrder'
  BY <1>2 DEF RankInv, NoCycle, OpenInOrder, ClosedInOrder
<1> QED
  BY <1>3, <1>4 DEF RankInv

\* The map only changes when it is loaded.
LEMMA MapKept ==
  ASSUME GraphIsFinite, NodesArePlaced, pos' = pos, graph' = graph
  PROVE  GraphIsFinite' /\ NodesArePlaced'
BY DEF GraphIsFinite, NodesArePlaced

\* A graph file is finite and places its nodes.
LEMMA InitBest == Init => BestInv
<1> SUFFICES ASSUME Init PROVE BestInv
  OBVIOUS
<1>1. GraphIsFinite /\ NodesArePlaced
  <2>1. CASE \E f \in Files : Load(f)
    <3>1. PICK f \in Files : Load(f)
      BY <2>1
    <3>2. /\ f.edges \in Seq(MapEdge)
          /\ \A n \in DOMAIN f.pos : f.pos[n] \in Int \X Int
      BY <3>1, PlannerAssumption
    <3>3. Len(f.edges) \in Nat /\ DOMAIN graph \subseteq 1..Len(f.edges)
      BY <3>1, <3>2 DEF Load
    <3> QED
      BY <3>1, <3>2, <3>3 DEF GraphIsFinite, NodesArePlaced, Load
  <2>2. CASE EmptyRouter
    <3>1. DOMAIN graph = {} /\ DOMAIN pos = {}
      BY <2>2 DEF EmptyRouter
    <3> QED
      BY <3>1 DEF GraphIsFinite, NodesArePlaced
  <2> QED
    BY <2>1, <2>2 DEF Init
<1> QED
  BY <1>1, NoAnswerYet DEF Init, BestInv

\* A search begins with the start alone.
LEMMA FindPathBest ==
  ASSUME BestInv, NEW s \in Ids, NEW t \in Ids, FindPath(s, t)
  PROVE  BestInv'
<1>1. GraphIsFinite' /\ NodesArePlaced'
  BY MapKept DEF BestInv, FindPath, network
<1>2. OrderVisitsOnce' /\ NearlyShortest' /\ NeverUnderstated'
  BY DEF FindPath, OrderVisitsOnce, NearlyShortest, NeverUnderstated
<1>3. CASE {s, t} \subseteq DOMAIN pos
  <2>1. pc' = "search" /\ open' = {s} /\ score' = [n \in {s} |-> 0] /\ pred' = << >>
    BY <1>3 DEF FindPath
  <2>2. DOMAIN pred' = {} /\ DOMAIN score' \ open' = {}
    BY <2>1
  <2>3. RankInv'
    BY <2>1, <2>2 DEF RankInv, Descends, Relaxed, NoCycle, OpenInOrder, ClosedInOrder
  <2> QED
    BY <1>1, <1>2, <2>1, <2>3 DEF BestInv
<1>4. CASE ~({s, t} \subseteq DOMAIN pos)
  BY <1>1, <1>2, <1>4 DEF BestInv, FindPath
<1> QED
  BY <1>3, <1>4

\* The five parts of RankInv are kept together.
LEMMA ExpandBest ==
  ASSUME IInv, BestInv, NEW n \in open, Expand(n)
  PROVE  BestInv'
<1>1. pc = "search" /\ pc' = pc /\ pos' = pos /\ graph' = graph /\ plan' = plan /\ plan = NoPlan
  BY DEF Expand, network, IInv
<1>2. GraphIsFinite' /\ NodesArePlaced'
  BY <1>1, MapKept DEF BestInv
<1>3. RankInv'
  BY <1>1, ExpandDescends, ExpandRelaxed, ExpandNoCycle, ExpandOpenInOrder, ExpandClosedInOrder
     DEF BestInv, RankInv
<1>4. OrderVisitsOnce' /\ NearlyShortest' /\ NeverUnderstated'
  BY <1>1 DEF OrderVisitsOnce, NearlyShortest, NeverUnderstated
<1> QED
  BY <1>1, <1>2, <1>3, <1>4 DEF BestInv

\* A trace begins with the target alone.
LEMMA ReachTargetBest == IInv /\ BestInv /\ ReachTarget => BestInv'
<1> SUFFICES ASSUME IInv, BestInv, ReachTarget PROVE BestInv'
  OBVIOUS
<1>1. /\ pc = "search" /\ pc' = "trace" /\ path' = <<to>> /\ to \in open /\ IsLeast(to)
      /\ pos' = pos /\ graph' = graph /\ from' = from /\ to' = to /\ open' = open
      /\ score' = score /\ pred' = pred /\ plan' = plan /\ plan = NoPlan
      /\ SearchInv /\ TypeOK
  BY DEF ReachTarget, IInv, network, request, search
<1>2. GraphIsFinite' /\ NodesArePlaced' /\ RankInv'
  BY <1>1, MapKept, RankKept DEF BestInv
<1>3. TraceOrder'
  <2>1. IsLeast(to)'
    <3>1. \A x : Heuristic(x)' = Heuristic(x)
      BY <1>1 DEF Heuristic, Straight, SquareOf
    <3> QED
      BY <1>1, <3>1 DEF IsLeast
  <2>2. to \in AboveNow(to)'
    <3>1. to \in AboveNow(to)
      BY <1>1, AboveIsLeast DEF AboveNow, SearchInv, TypeOK
    <3> QED
      BY <1>1, <3>1 DEF AboveNow
  <2>3. Len(path') = 1 /\ path'[1] = to
    BY <1>1
  <2>4. /\ \A i \in 2..Len(path') : path'[i] \in DOMAIN pred' /\ pred'[path'[i]] = path'[i - 1]
        /\ \A i, j \in 1..Len(path') : path'[i] = path'[j] => i = j
    BY <2>3
  <2>5. \A i \in 1..Len(path') : path'[i] \in AboveNow(to)'
    BY <1>1, <2>2, <2>3
  <2> QED
    BY <1>1, <2>1, <2>4, <2>5 DEF TraceOrder
<1>4. OrderVisitsOnce' /\ NearlyShortest' /\ NeverUnderstated'
  BY <1>1 DEF OrderVisitsOnce, NearlyShortest, NeverUnderstated
<1> QED
  BY <1>1, <1>2, <1>3, <1>4 DEF BestInv

\* Without a route there is no answer to speak of.
LEMMA ExhaustBest == IInv /\ BestInv /\ Exhaust => BestInv'
<1> SUFFICES ASSUME IInv, BestInv, Exhaust PROVE BestInv'
  OBVIOUS
<1>1. pc' = "done" /\ pos' = pos /\ graph' = graph /\ plan' = NoPlan
  BY DEF Exhaust, IInv, network
<1>2. GraphIsFinite' /\ NodesArePlaced'
  BY <1>1, MapKept DEF BestInv
<1>3. OrderVisitsOnce' /\ NearlyShortest' /\ NeverUnderstated'
  BY <1>1 DEF OrderVisitsOnce, NearlyShortest, NeverUnderstated
<1> QED
  BY <1>1, <1>2, <1>3 DEF BestInv

\* A node that is traced twice would lie on a cycle of the tracker.
LEMMA TraceBackBest == IInv /\ BestInv /\ TraceBack => BestInv'
<1> SUFFICES ASSUME IInv, BestInv, TraceBack PROVE BestInv'
  OBVIOUS
<1> DEFINE h == path[1]
           p == pred[h]
           n == Len(path)
<1>1. /\ pc = "trace" /\ pc' = "trace" /\ path' = <<pred[Head(path)]>> \o path
      /\ Head(path) \in DOMAIN pred
      /\ pos' = pos /\ graph' = graph /\ from' = from /\ to' = to /\ open' = open
      /\ score' = score /\ pred' = pred /\ plan' = plan /\ plan = NoPlan
      /\ SearchInv /\ TraceInv /\ TypeOK /\ TraceOrder /\ RankInv
  BY DEF TraceBack, IInv, BestInv, network, request, search
<1>2. path \in Seq(DOMAIN score) /\ n \in Nat /\ n > 0 /\ Head(path) = h /\ h \in DOMAIN pred
  BY <1>1 DEF TypeOK, TraceInv
<1>3. /\ Len(path') = n + 1 /\ path'[1] = p
      /\ \A i \in 2..(n + 1) : path'[i] = path[i - 1]
  BY <1>1, <1>2
<1>4. GraphIsFinite' /\ NodesArePlaced' /\ RankInv'
  BY <1>1, MapKept, RankKept DEF BestInv
<1>5. \A i \in 2..(n + 1) : path'[i] \in DOMAIN pred /\ pred[path'[i]] = path'[i - 1]
  <2> SUFFICES ASSUME NEW i \in 2..(n + 1)
               PROVE  path'[i] \in DOMAIN pred /\ pred[path'[i]] = path'[i - 1]
    OBVIOUS
  <2>1. CASE i = 2
    BY <1>2, <1>3, <2>1
  <2>2. CASE i # 2
    <3>1. i - 1 \in 2..n /\ i - 1 \in 2..(n + 1)
      BY <1>2, <2>2
    <3>2. path'[i] = path[i - 1] /\ path'[i - 1] = path[(i - 1) - 1]
      BY <1>3, <3>1
    <3>3. path[i - 1] \in DOMAIN pred /\ pred[path[i - 1]] = path[(i - 1) - 1]
      BY <1>1, <3>1 DEF TraceOrder
    <3> QED
      BY <3>2, <3>3
  <2> QED
    BY <2>1, <2>2
<1>6. \A j \in 1..n : path[j] # p
  <2> SUFFICES ASSUME NEW j \in 1..n, path[j] = p PROVE FALSE
    OBVIOUS
  <2> DEFINE C == {path[i] : i \in 1..j}
  <2>1. ASSUME NEW i \in 1..j PROVE path[i] \in DOMAIN pred /\ pred[path[i]] \in C
    <3>1. CASE i = 1
      BY <1>2, <3>1
    <3>2. CASE i # 1
      <4>1. i \in 2..n /\ i - 1 \in 1..j
        BY <1>2, <3>2
      <4> QED
        BY <1>1, <4>1 DEF TraceOrder
    <3> QED
      BY <3>1, <3>2
  <2>2. C \in SUBSET DOMAIN pred /\ C # {} /\ \A c \in C : pred[c] \in C
    BY <2>1
  <2> HIDE DEF C
  <2> QED
    BY <1>1, <2>2 DEF RankInv, NoCycle
<1>7. \A i, j \in 1..(n + 1) : path'[i] = path'[j] => i = j
  <2> SUFFICES ASSUME NEW i \in 1..(n + 1), NEW j \in 1..(n + 1), path'[i] = path'[j]
               PROVE  i = j
    OBVIOUS
  <2>1. \A k \in 1..(n + 1) : k # 1 => k \in 2..(n + 1) /\ k - 1 \in 1..n /\ path'[k] = path[k - 1]
    BY <1>2, <1>3
  <2>2. CASE i = 1 \/ j = 1
    BY <1>3, <1>6, <2>1, <2>2
  <2>3. CASE i # 1 /\ j # 1
    <3>1. i - 1 = j - 1
      BY <1>1, <2>1, <2>3 DEF TraceOrder
    <3> QED
      BY <3>1
  <2> QED
    BY <2>2, <2>3
<1>8. \A i \in 1..(n + 1) : path'[i] \in AboveNow(to)
  <2>1. Leads(AboveNow(to), pred)
    <3>1. (\A c \in DOMAIN pred : pred[c] \in DOMAIN score) /\ to \in DOMAIN score
      BY <1>1 DEF SearchInv, TraceOrder, TypeOK
    <3> QED
      BY <3>1, AboveIsLeast DEF AboveNow
  <2>2. \A i \in 1..n : path[i] \in AboveNow(to)
    BY <1>1 DEF TraceOrder
  <2>3. p \in AboveNow(to)
    BY <1>2, <2>1, <2>2 DEF Leads
  <2> SUFFICES ASSUME NEW i \in 1..(n + 1) PROVE path'[i] \in AboveNow(to)
    OBVIOUS
  <2>4. CASE i = 1
    BY <1>3, <2>3, <2>4
  <2>5. CASE i # 1
    <3>1. i \in 2..(n + 1) /\ i - 1 \in 1..n
      BY <1>2, <2>5
    <3> QED
      BY <1>3, <2>2, <3>1
  <2> QED
    BY <2>4, <2>5
<1>9. TraceOrder'
  <2>1. to' \in open' /\ IsLeast(to)' /\ AboveNow(to)' = AboveNow(to)
    <3>1. \A x : Heuristic(x)' = Heuristic(x)
      BY <1>1 DEF Heuristic, Straight, SquareOf
    <3> QED
      BY <1>1, <3>1 DEF TraceOrder, IsLeast, AboveNow
  <2>2. \A i \in 2..Len(path') : path'[i] \in DOMAIN pred' /\ pred'[path'[i]] = path'[i - 1]
    BY <1>1, <1>3, <1>5
  <2>3. \A i, j \in 1..Len(path') : path'[i] = path'[j] => i = j
    BY <1>3, <1>7
  <2>4. \A i \in 1..Len(path') : path'[i] \in AboveNow(to)'
    BY <1>3, <1>8, <2>1
  <2> QED
    BY <2>1, <2>2, <2>3, <2>4 DEF TraceOrder
<1>10. OrderVisitsOnce' /\ NearlyShortest' /\ NeverUnderstated'
  BY <1>1 DEF OrderVisitsOnce, NearlyShortest, NeverUnderstated
<1> QED
  BY <1>1, <1>4, <1>9, <1>10 DEF BestInv

\* What is known of the path that has been traced back to the start.
Traced ==
  /\ TypeOK /\ SearchInv /\ GraphIsFinite /\ NodesArePlaced /\ RankInv /\ TraceOrder
  /\ path \in Seq(DOMAIN pos) /\ IsRoute(path, from, to)

\* The trace ends at the only node reached that leads no further back.
LEMMA ReturnPlanIsTraced ==
  ASSUME IInv, BestInv, ReturnPlan
  PROVE  Traced
<1>1. /\ pc = "trace" /\ Head(path) \notin DOMAIN pred
      /\ TypeOK /\ SearchInv /\ TraceInv /\ GraphIsFinite /\ NodesArePlaced /\ RankInv /\ TraceOrder
  BY DEF ReturnPlan, IInv, BestInv
<1>2. Head(path) = from
  BY <1>1 DEF SearchInv, TraceInv
<1>3. path \in Seq(DOMAIN score) /\ DOMAIN score \subseteq DOMAIN pos
  BY <1>1 DEF TypeOK
<1>4. path \in Seq(DOMAIN pos)
  BY <1>3, SeqIsMonotone
<1> QED
  BY <1>1, <1>2, <1>4 DEF Traced, TraceInv

\* The target was least when it was popped, so that no other node of the path is open.
LEMMA TracedIsClosed ==
  ASSUME Traced
  PROVE  \A j \in 1..(Len(path) - 1) : path[j] \notin open
<1> SUFFICES ASSUME NEW j \in 1..(Len(path) - 1), path[j] \in open PROVE FALSE
  OBVIOUS
<1>1. path[Len(path)] = to /\ Len(path) \in Nat /\ Len(path) > 0
  BY DEF Traced, IsRoute
<1>2. path[j] # to /\ path[j] \in AboveNow(to)
  <2>1. j \in 1..Len(path) /\ Len(path) \in 1..Len(path) /\ j # Len(path)
    BY <1>1
  <2> QED
    BY <1>1, <2>1 DEF Traced, TraceOrder
<1>3. Estimate(path[j]) < Estimate(to) /\ Estimate(to) <= Estimate(path[j])
  BY <1>2 DEF Traced, TraceOrder, RankInv, OpenInOrder, IsLeast, Estimate
<1>4. Estimate(path[j]) \in Nat /\ Estimate(to) \in Nat
  <2>1. \A n \in DOMAIN score : Estimate(n) \in Nat
    <3>1. \A n \in DOMAIN score : Heuristic(n) \in Nat
      BY HeuristicType DEF Traced, TypeOK, SearchInv
    <3> QED
      BY <3>1 DEF Traced, TypeOK, Estimate
  <2> QED
    BY <2>1 DEF Traced, TypeOK, TraceOrder
<1> QED
  BY <1>3, <1>4

\* The plan of a traced path numbers its nodes and edges as VDA 5050 wants.
LEMMA AnswerVisitsOnce ==
  ASSUME Traced, plan' = PlanOf(path)
  PROVE  OrderVisitsOnce'
<1> DEFINE n == Len(path) - 1
           q == PlanOf(path)
<1>1. /\ q.nodes = path /\ Len(q.edges) = n /\ q.edges \in Seq(Ids \X Ids)
      /\ \A i \in 1..n : q.edges[i] = <<path[i], path[i + 1]>>
      /\ n \in Nat /\ Len(path) = n + 1 /\ path \in Seq(DOMAIN pos)
  BY PlanOfRoute, RouteEdges DEF Traced
<1> HIDE DEF n, q
<1>2. DOMAIN q.nodes = 1..(n + 1) /\ DOMAIN q.edges = 1..n
  <2>1. DOMAIN path = 1..Len(path) /\ DOMAIN q.edges = 1..Len(q.edges)
    BY <1>1
  <2> QED
    BY <1>1, <2>1
<1>3. \A i \in 1..(n + 1) : SequenceId(q, i) = (i - 1) + Min({i - 1, n})
  <2>1. Len(q.edges) = n
    BY <1>1
  <2> QED
    BY <2>1, Zenon DEF SequenceId
<1>4. \A i \in 1..(n + 1) : SequenceId(q, i) = 2 * (i - 1)
  <2> SUFFICES ASSUME NEW i \in 1..(n + 1) PROVE SequenceId(q, i) = 2 * (i - 1)
    OBVIOUS
  <2> DEFINE S == {i - 1, n}
  <2>1. S \in SUBSET Nat /\ S # {} /\ i - 1 \in S
    BY <1>1
  <2>2. Min(S) \in S /\ Min(S) <= i - 1
    <3> HIDE DEF S
    <3> QED
      BY <2>1, MinOfNats
  <2>3. Min(S) = i - 1
    <3>1. \A x \in S : x = i - 1 \/ x = n
      OBVIOUS
    <3> HIDE DEF S
    <3> QED
      BY <1>1, <2>2, <3>1
  <2>4. SequenceId(q, i) = (i - 1) + Min(S)
    BY <1>3
  <2> HIDE DEF S
  <2> QED
    BY <2>3, <2>4
<1>5. \A i, j \in 1..(n + 1) : path[i] = path[j] => i = j
  BY <1>1 DEF Traced, TraceOrder
<1> DEFINE ns == OrderNodes(q)
           es == OrderEdges(q)
<1>6. /\ ns = [i \in 1..(n + 1) |-> [nodeId |-> path[i], sequenceId |-> 2 * (i - 1)]]
      /\ es = [i \in 1..n |-> [edgeId |-> <<path[i], path[i + 1]>>, sequenceId |-> 2 * i - 1,
                               startNodeId |-> path[i], endNodeId |-> path[i + 1]]]
  <2>1. ns = [i \in 1..(n + 1) |-> [nodeId |-> path[i], sequenceId |-> 2 * (i - 1)]]
    BY <1>1, <1>2, <1>4 DEF OrderNodes
  <2>2. \A i \in 1..n : SequenceId(q, i) + 1 = 2 * i - 1
    BY <1>1, <1>4
  <2>3. es = [i \in 1..n |-> [edgeId |-> <<path[i], path[i + 1]>>, sequenceId |-> 2 * i - 1,
                              startNodeId |-> path[i], endNodeId |-> path[i + 1]]]
    BY <1>1, <1>2, <2>2 DEF OrderEdges
  <2> QED
    BY <2>1, <2>3
<1>7. /\ Len(es) = Len(ns) - 1
      /\ \A i, j \in DOMAIN ns : ns[i].nodeId = ns[j].nodeId => i = j
      /\ \A i \in DOMAIN ns : ns[i].sequenceId = 2 * (i - 1)
      /\ \A i \in DOMAIN es : /\ es[i].sequenceId = 2 * i - 1
                              /\ es[i].edgeId = <<es[i].startNodeId, es[i].endNodeId>>
  <2> HIDE DEF ns, es
  <2>1. Len(ns) = n + 1 /\ Len(es) = n /\ DOMAIN ns = 1..(n + 1) /\ DOMAIN es = 1..n
    BY <1>1, <1>6
  <2>2. \A i \in 1..(n + 1) : ns[i].nodeId = path[i] /\ ns[i].sequenceId = 2 * (i - 1)
    BY <1>6
  <2>3. \A i \in 1..n : /\ es[i].sequenceId = 2 * i - 1
                        /\ es[i].edgeId = <<es[i].startNodeId, es[i].endNodeId>>
    BY <1>6
  <2>4. \A i, j \in DOMAIN ns : ns[i].nodeId = ns[j].nodeId => i = j
    BY <1>5, <2>1, <2>2
  <2>5. Len(es) = Len(ns) - 1
    BY <1>1, <2>1
  <2> QED
    BY <2>1, <2>2, <2>3, <2>4, <2>5
<1> QED
  BY <1>7 DEF OrderVisitsOnce, q

\* The score of the target bounds the answer from below.
LEMMA AnswerNotUnderstated ==
  ASSUME Traced, \A e \in Edges : e.len >= 0
  PROVE  PlanOf(path).dist >= Unit * score[to]
<1> DEFINE n == Len(path) - 1
<1>1. n \in Nat /\ n \in 0..n /\ path[n + 1] = to
  BY RouteEdges DEF Traced, IsRoute
<1>2. \A i \in 0..n : path[i + 1] \in DOMAIN score /\ Unit * score[path[i + 1]] <= LengthTo(path)[i]
  <2>1. \A j \in 1..n : path[j] \notin open
    BY TracedIsClosed
  <2> QED
    BY <1>1, <2>1, AlongClosed DEF Traced, RankInv
<1>3. PlanOf(path).dist = LengthTo(path)[n]
  BY PlanOfRoute DEF Traced, Length
<1>4. Unit * score[to] <= LengthTo(path)[n]
  <2> HIDE DEF n
  <2> QED
    BY <1>1, <1>2
<1>5. Unit * score[to] \in Int /\ LengthTo(path)[n] \in Int
  <2>1. LengthTo(path) \in [0..n -> Int]
    BY RouteEdges DEF Traced
  <2>2. score[to] \in Nat /\ Unit \in Nat
    BY PlannerAssumption DEF Traced, TypeOK, TraceOrder
  <2> HIDE DEF n
  <2> QED
    BY <1>1, <2>1, <2>2
<1> QED
  BY <1>3, <1>4, <1>5

\* ... and no route from the start to the target is shorter than it.
LEMMA NoRouteIsShorter ==
  ASSUME Traced, Metric, NEW p \in Seq(DOMAIN pos), IsRoute(p, from, to)
  PROVE  Unit * score[to] <= Length(p)
<1> DEFINE n == Len(p) - 1
           L == LengthTo(p)
           firsts == {j \in 1..(n + 1) : p[j] \in open}
<1>1. n \in Nat /\ Len(p) = n + 1 /\ L \in [0..n -> Int]
  BY RouteEdges DEF Traced
<1>2. p[n + 1] = to /\ to \in open
  BY <1>1 DEF IsRoute, Traced, TraceOrder
<1>3. PICK q \in firsts : \A j \in firsts : q <= j
  <2>1. firsts \in SUBSET Nat /\ n + 1 \in firsts
    BY <1>1, <1>2
  <2> HIDE DEF firsts
  <2> QED
    BY <2>1, MinOfNats
<1> DEFINE k == q - 1
           m == p[q]
<1>4. q \in 1..(n + 1) /\ m \in open /\ k \in 0..n /\ k + 1 = q
  BY <1>1
<1>5. \A j \in 1..k : p[j] \notin open
  BY <1>1, <1>3, <1>4
<1>6. Unit * score[m] <= L[k]
  <2>1. \A e \in Edges : e.len >= 0
    BY DEF Metric
  <2>2. \A i \in 0..k : p[i + 1] \in DOMAIN score /\ Unit * score[p[i + 1]] <= L[i]
    <3> HIDE DEF k, L
    <3> QED
      BY <1>4, <1>5, <2>1, AlongClosed DEF Traced, RankInv, L
  <2>3. k \in 0..k
    BY <1>4
  <2> HIDE DEF k, L
  <2> QED
    BY <1>4, <2>2, <2>3 DEF m
<1>7. Unit * Heuristic(m) <= L[n] - L[k]
  <2>1. /\ L[n] - L[k] \in Nat
        /\ (L[n] - L[k]) * (L[n] - L[k]) >= SquareOf(m, to)
    <3>1. \A i \in 0..n : /\ L[n] - L[i] \in Nat
                          /\ (L[n] - L[i]) * (L[n] - L[i]) >= SquareOf(p[i + 1], to)
      BY RestIsNoShorter DEF Traced
    <3> HIDE DEF k, L, n
    <3> QED
      BY <1>4, <3>1
  <2>2. /\ Straight(m, to) \in Nat /\ SquareOf(m, to) \in Nat /\ Heuristic(m) \in Nat
        /\ Straight(m, to) * Straight(m, to) <= SquareOf(m, to)
        /\ Unit * Heuristic(m) <= Straight(m, to)
    <3>1. m \in DOMAIN pos /\ to \in DOMAIN pos
      BY <1>4 DEF Traced, TypeOK, SearchInv
    <3> HIDE DEF m
    <3> QED
      BY <3>1, HeuristicType DEF Traced
  <2>3. Straight(m, to) <= L[n] - L[k]
    <3> DEFINE rest == L[n] - L[k]
               d == Straight(m, to)
    <3>1. d * d <= rest * rest /\ d \in Int /\ rest \in Nat
      <4>1. rest * rest \in Nat /\ d * d \in Nat
        BY <2>1, <2>2
      <4> HIDE DEF rest, d, m
      <4> QED
        BY <2>1, <2>2, <4>1 DEF rest, d
    <3> HIDE DEF rest, d
    <3>2. d <= rest
      BY <3>1, SquaresOrder
    <3> QED
      BY <3>2 DEF rest, d
  <2>4. Unit * Heuristic(m) \in Int
    BY <2>2, PlannerAssumption
  <2> HIDE DEF L, k, n, m
  <2> QED
    BY <2>1, <2>2, <2>3, <2>4
<1>8. score[to] <= score[m] + Heuristic(m) /\ score[to] \in Nat /\ score[m] \in Nat
      /\ Heuristic(m) \in Nat
  <2>1. \A x \in DOMAIN score : score[x] \in Nat /\ Heuristic(x) \in Nat
    BY HeuristicType DEF Traced, TypeOK, SearchInv
  <2>2. m \in DOMAIN score /\ to \in DOMAIN score
    BY <1>2, <1>4 DEF Traced, TypeOK
  <2>3. score[to] + Heuristic(to) <= score[m] + Heuristic(m)
    BY <1>4 DEF Traced, TraceOrder, IsLeast
  <2> HIDE DEF m
  <2> QED
    BY <2>1, <2>2, <2>3
<1>9. L[k] \in Int /\ L[n] - L[k] \in Int /\ L[k] + (L[n] - L[k]) = L[n]
  <2>1. k \in 0..n /\ n \in 0..n
    BY <1>1, <1>4
  <2> HIDE DEF L, k, n
  <2>2. L[k] \in Int /\ L[n] \in Int
    BY <1>1, <2>1
  <2> QED
    BY <2>2
<1>10. Unit * score[to] <= L[k] + (L[n] - L[k])
  <2>1. Unit \in Nat
    BY PlannerAssumption
  <2> HIDE DEF L, k, n, m
  <2> QED
    BY <1>6, <1>7, <1>8, <1>9, <2>1, ScaledSum, Zenon
<1> QED
  BY <1>9, <1>10 DEF Length

\* Each edge of the answer adds less than a millimetre to what its score says.
LEMMA AnswerNearlyShortest ==
  ASSUME Traced, Metric, NEW p \in Seq(DOMAIN pos), IsRoute(p, from, to)
  PROVE  PlanOf(path).dist <= Length(p) + (Unit - 1) * (Len(path) - 1)
<1> DEFINE n == Len(path) - 1
           d == LengthTo(path)[n]
<1>1. n \in Nat /\ n \in 0..n /\ path[n + 1] = to
  BY RouteEdges DEF Traced, IsRoute
<1>2. \A i \in 0..n : LengthTo(path)[i] <= Unit * score[path[i + 1]] + (Unit - 1) * i
  BY AlongTracker DEF Traced, RankInv, TraceOrder
<1>3. d <= Unit * score[to] + (Unit - 1) * n
  <2> HIDE DEF n
  <2> QED
    BY <1>1, <1>2
<1>4. Unit * score[to] <= Length(p)
  BY NoRouteIsShorter
<1>5. PlanOf(path).dist = d
  BY PlanOfRoute DEF Traced, Length
<1>6. d \in Int /\ Length(p) \in Int /\ Unit * score[to] \in Int /\ (Unit - 1) * n \in Int
  <2>1. LengthTo(path) \in [0..n -> Int]
    BY RouteEdges DEF Traced
  <2>2. /\ Len(p) - 1 \in 0..(Len(p) - 1)
        /\ LengthTo(p) \in [0..(Len(p) - 1) -> Int]
    BY RouteEdges DEF Traced
  <2>3. score[to] \in Nat /\ Unit \in Nat
    BY PlannerAssumption DEF Traced, TypeOK, TraceOrder
  <2>4. Length(p) \in Int
    BY <2>2 DEF Length
  <2> HIDE DEF n
  <2> QED
    BY <1>1, <2>1, <2>3, <2>4
<1> HIDE DEF n, d
<1>7. PlanOf(path).dist <= Length(p) + (Unit - 1) * n
  BY <1>3, <1>4, <1>5, <1>6
<1> QED
  BY <1>7 DEF n

\* The answer has the three properties when it is given.
LEMMA ReturnPlanBest == IInv /\ BestInv /\ ReturnPlan => BestInv'
<1> SUFFICES ASSUME IInv, BestInv, ReturnPlan PROVE BestInv'
  OBVIOUS
<1>1. /\ pc' = "done" /\ plan' = PlanOf(path)
      /\ pos' = pos /\ graph' = graph /\ from' = from /\ to' = to /\ score' = score
      /\ GraphIsFinite /\ NodesArePlaced
  BY DEF ReturnPlan, BestInv, network, request, search
<1>2. Traced
  BY ReturnPlanIsTraced
<1>3. GraphIsFinite' /\ NodesArePlaced'
  BY <1>1, MapKept
<1>4. OrderVisitsOnce'
  BY <1>1, <1>2, AnswerVisitsOnce
<1>5. Edges' = Edges
  BY <1>1 DEF Edges
<1>6. NeverUnderstated'
  BY <1>1, <1>2, <1>5, AnswerNotUnderstated DEF NeverUnderstated
<1>7. NearlyShortest'
  <2>1. Metric' => Metric
    <3>1. \A a, b : SquareOf(a, b)' = SquareOf(a, b)
      BY <1>1 DEF SquareOf
    <3> QED
      BY <1>1, <1>5, <3>1 DEF Metric
  <2>2. /\ Routes(from, to)' = Routes(from, to)
        /\ \A p : Length(p)' = Length(p)
    BY <1>1 DEF Routes, IsRoute, Joined, Length, LengthTo, FindEdge
  <2>3. ASSUME NEW p \in Routes(from, to)
        PROVE  p \in Seq(DOMAIN pos) /\ IsRoute(p, from, to)
    BY DEF Routes
  <2>4. plan'.nodes = path
    BY <1>1, <1>2, PlanOfRoute DEF Traced
  <2>5. Metric => \A p \in Routes(from, to) :
                    plan'.dist <= Length(p) + (Unit - 1) * (Len(plan'.nodes) - 1)
    BY <1>1, <1>2, <2>3, <2>4, AnswerNearlyShortest
  <2> QED
    BY <2>1, <2>2, <2>5 DEF NearlyShortest
<1> QED
  BY <1>1, <1>3, <1>4, <1>6, <1>7 DEF BestInv

\* A step that changes nothing keeps everything.
LEMMA StutterBest == BestInv /\ UNCHANGED vars => BestInv'
<1> SUFFICES ASSUME BestInv, UNCHANGED vars PROVE BestInv'
  OBVIOUS
<1>1. /\ pos' = pos /\ graph' = graph /\ pc' = pc /\ from' = from /\ to' = to
      /\ open' = open /\ score' = score /\ pred' = pred /\ path' = path /\ plan' = plan
  BY DEF vars, network, request, search
<1>2. GraphIsFinite' /\ NodesArePlaced' /\ (pc' \in {"search", "trace"} => RankInv')
  BY <1>1, MapKept, RankKept DEF BestInv
<1>3. \A x : Heuristic(x)' = Heuristic(x)
  BY <1>1 DEF Heuristic, Straight, SquareOf
<1>4. pc' = "trace" => TraceOrder'
  BY <1>1, <1>3 DEF BestInv, TraceOrder, IsLeast, AboveNow
<1>5. OrderVisitsOnce'
  BY <1>1 DEF BestInv, OrderVisitsOnce
<1>6. NearlyShortest'
  <2>1. Metric' => Metric
    BY <1>1 DEF Metric, Edges, SquareOf
  <2>2. /\ Routes(from, to)' = Routes(from, to)
        /\ \A p : Length(p)' = Length(p)
    BY <1>1 DEF Routes, IsRoute, Joined, Length, LengthTo, FindEdge
  <2> QED
    BY <1>1, <2>1, <2>2 DEF BestInv, NearlyShortest
<1>7. NeverUnderstated'
  BY <1>1 DEF BestInv, NeverUnderstated, Edges
<1> QED
  BY <1>1, <1>2, <1>4, <1>5, <1>6, <1>7 DEF BestInv

LEMMA NextBest == IInv /\ BestInv /\ [Next]_vars => BestInv'
<1> SUFFICES ASSUME IInv, BestInv, [Next]_vars PROVE BestInv'
  OBVIOUS
<1>1. CASE UNCHANGED vars
  BY <1>1, StutterBest
<1>2. CASE \E s, t \in Ids : FindPath(s, t)
  BY <1>2, FindPathBest
<1>3. CASE Step
  BY <1>3, ExpandBest, ReachTargetBest, ExhaustBest, TraceBackBest, ReturnPlanBest DEF Step
<1> QED
  BY <1>1, <1>2, <1>3 DEF Next

LEMMA InvariantBest == Spec => []BestInv
BY InvariantIInv, InitBest, NextBest, PTL DEF Spec

\* The order of an answer names no node twice, numbers nodes evenly and edges oddly and
\* leads each edge from one node to the next (planner.rs:41-90).
THEOREM OrdersVisitOnce == Spec => []OrderVisitsOnce
<1>1. BestInv => OrderVisitsOnce
  BY DEF BestInv
<1> QED
  BY <1>1, InvariantBest, PTL

\* Where no edge is shorter than the line between its ends and none has a parallel one,
\* no route is shorter than the answer by a millimetre or more for each edge of the
\* answer (planner.rs:185).
THEOREM AnswersNearlyShortest == Spec => []NearlyShortest
<1>1. BestInv => NearlyShortest
  BY DEF BestInv
<1> QED
  BY <1>1, InvariantBest, PTL

\* Where no length is negative, the distance that the allocator compares is never less
\* than the cost that A* found (planner.rs:218).
THEOREM DistanceNeverUnderstated == Spec => []NeverUnderstated
<1>1. BestInv => NeverUnderstated
  BY DEF BestInv
<1> QED
  BY <1>1, InvariantBest, PTL
=================================================================================
