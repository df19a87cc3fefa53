--------------------------- MODULE FleetGrants_proofs ---------------------------
(***************************************************************************)
(* What a granted path is worth, for any fleet, any number of requests, of *)
(* faults and of telemetry tasks, on a map that can only be driven forward: *)
(* the nodes that a robot has still to reach stay leased to it for the time *)
(* to live of its order; the node where it stands may be given up, but only *)
(* by a task whose state is older than the one stored when it looked.  The  *)
(* invariants are shown of any steps that treat leases, tasks and robots as *)
(* the fleet manager does.                                                  *)
(***************************************************************************)
EXTENDS FleetManager_proofs

(* The premises. fleet_return_trip and fleet_lease_expires show what becomes of *)
(* the promise on other maps, and after the time to live.                       *)

\* No two robots have one serial number, whoever makes them.
DistinctSerials == \A r1, r2 \in Robots : Serial[r1] = Serial[r2] => r1 = r2

\* What may be asked of the fleet manager: a robot, where from and where to, and the
\* time to live of the path.
Orders == Robots \X Nodes \X Nodes \X Nat

\* Those of the orders P that are for one robot ask for one time to live.
OneTtl(P) ==
  \A q1, q2 \in Reqs, p1, p2 \in P : q1 # q2 /\ p1[1] = p2[1] => p1[4] = p2[4]

\* The nodes can be ranked so that every route climbs: the map has no cycle.
Climbs(rank) ==
  \A route \in Routes : \A i, j \in DOMAIN route : i < j => rank[route[i]] < rank[route[j]]

Acyclic == \E rank \in [Nodes -> Nat] : Climbs(rank)

Rank == CHOOSE rank \in [Nodes -> Nat] : Climbs(rank)

-------------------------------------------------------------------------------
(* The invariant. *)

\* A robot that was at a can be at b now.
NotPast(a, b) == a = NoNode \/ a = b \/ (a \in Nodes /\ b \in Nodes /\ Rank[a] < Rank[b])

\* A robot at a may have n before it.
Beyond(a, n) == a = NoNode \/ Rank[a] < Rank[n]

\* A request that counts on leases has the time to live of an order of its robot.
GrantKnown(P) ==
  \A q \in Reqs : left[q] > 0 =>
    /\ req[q] \in Requests /\ left[q] <= req[q].ttl
    /\ \E p \in P : p[1] = req[q].robot /\ p[4] = req[q].ttl

\* The states of robot r that the core knows: stored, at hand, or compared with.
Seen(r) ==
  {m \in States : \/ m = snap[r]
                  \/ \E s \in Slots : /\ task[r][s] # NoTask
                                      /\ m \in {task[r][s].msg, task[r][s].old}}

\* Their numbers tell where the robot was first, and it drives forward.
History ==
  \A r \in Robots : \A a \in Seen(r) :
    /\ a.seq <= seq[r] /\ NotPast(a.node, at[r])
    /\ a.seq = seq[r] => a.node = at[r]
    /\ \A b \in Seen(r) : a.seq <= b.seq => NotPast(a.node, b.node)

\* A task that is about to release a node has seen two states that differ in it.
Compares(t) == t.old \in States /\ t.old.node \in Nodes \ {t.msg.node}

Comparisons ==
  \A r \in Robots, s \in Slots : task[r][s].pc = "release" => Compares(task[r][s])

Trail == History /\ Comparisons

AheadLeased ==
  \A q \in Reqs : left[q] > 0 =>
    \A n \in NodesOf(req[q].route) : Beyond(at[req[q].robot], n) => Leased(q, n)

AheadInv(P) == IInv /\ GrantKnown(P) /\ Trail /\ AheadLeased
-------------------------------------------------------------------------------
(* The order of the nodes. *)

LEMMA RankType == Acyclic => Rank \in [Nodes -> Nat] /\ Climbs(Rank)
BY DEF Acyclic, Rank

LEMMA NotPastTrans ==
  ASSUME Acyclic, NEW a \in Places, NEW b \in Places, NEW c \in Places,
         NotPast(a, b), NotPast(b, c)
  PROVE  NotPast(a, c)
BY RankType, NullsAssumption DEF NotPast, Places

\* What is before a robot now was before it then.
LEMMA BeyondBack ==
  ASSUME Acyclic, NEW a \in Places, NEW b \in Places, NEW n \in Nodes,
         NotPast(a, b), Beyond(b, n) \/ (n = b /\ a # b)
  PROVE  Beyond(a, n)
BY RankType, NullsAssumption DEF NotPast, Beyond, Places

\* Where a robot was is not before it.
LEMMA NotBeyond ==
  ASSUME Acyclic, NEW a \in Nodes, NEW b \in Places, NotPast(a, b)
  PROVE  ~Beyond(b, a)
BY RankType, NullsAssumption DEF NotPast, Beyond, Places

\* The node behind the one a robot was at is not the one where it is.
LEMMA LeftBehind ==
  ASSUME Acyclic, NEW a \in Nodes, NEW b \in Places, NEW c \in Places,
         a # b, NotPast(a, b), NotPast(b, c)
  PROVE  a # c
BY RankType, NullsAssumption DEF NotPast, Places

\* On a route a robot has reached only what it has driven through.
LEMMA AheadIs ==
  ASSUME Acyclic, NEW q \in Reqs, req[q].route \in Routes,
         at[req[q].robot] \in Places, NEW n \in Ahead(q)
  PROVE  /\ n \in NodesOf(req[q].route)
         /\ n = at[req[q].robot] \/ Beyond(at[req[q].robot], n)
<1> DEFINE route == req[q].route
           here == at[req[q].robot]
<1>1. CASE here = NoNode
  BY <1>1 DEF Ahead, Beyond
<1>2. CASE here # NoNode
  <2>1. PICK j \in DOMAIN route : n = route[j] /\ \E i \in 1..j : route[i] = here
    BY <1>2 DEF Ahead
  <2>2. PICK i \in 1..j : route[i] = here
    BY <2>1
  <2>3. route \in Seq(Nodes) /\ j \in 1..Len(route)
    BY <2>1, RoutesAssumption
  <2>4. i \in DOMAIN route /\ (i = j \/ i < j)
    BY <2>2, <2>3
  <2>5. i < j => Rank[here] < Rank[n]
    BY <2>1, <2>2, <2>4, RankType DEF Climbs
  <2> QED
    BY <2>1, <2>2, <2>4, <2>5 DEF NodesOf, Beyond
<1> QED
  BY <1>1, <1>2
-------------------------------------------------------------------------------
(* What a step does to the leases and to those who count on them. *)

Reservation(p, route) ==
  /\ route \in Routes /\ ~Occupied(lock, NodesOf(route), Serial[p[1]]) /\ ValidTtl(p[4])
  /\ lock' = Reserve(lock, NodesOf(route), Serial[p[1]], p[4])

Grants(q, p, route) ==
  /\ Reservation(p, route)
  /\ left' = [left EXCEPT ![q] = p[4]]
  /\ req' = [req EXCEPT ![q] = [pc |-> "publish", robot |-> p[1],
                                route |-> route, ttl |-> p[4]]]

Refuses(q, p) ==
  /\ UNCHANGED left /\ \E status \in Statuses : req' = [req EXCEPT ![q] = Closed(status)]
  /\ UNCHANGED lock \/ \E route \in Routes : Reservation(p, route)

SameOrder(q) ==
  /\ req'[q].robot = req[q].robot /\ req'[q].route = req[q].route
  /\ req'[q].ttl = req[q].ttl
  /\ req[q] \in Requests => req'[q] \in Requests

Keeps ==
  /\ UNCHANGED lock
  /\ \A q \in Reqs : left'[q] = 0 \/ (left'[q] = left[q] /\ SameOrder(q))

Releases(r, s) ==
  /\ Gives(r, s, task[r][s].old.node)
  /\ lock' = Release(lock, {task[r][s].old.node}, Serial[r])
  /\ UNCHANGED <<left, req>>

\* What a step may do to the leases, if orders are those in P.
LeaseStep(P) ==
  \/ \E q \in Reqs, p \in P :
       /\ req[q].pc \in {"new", "allocating"} /\ UNCHANGED <<snap, task, at>>
       /\ Refuses(q, p) \/ \E route \in Routes : Grants(q, p, route)
  \/ Keeps
  \/ \E r \in Robots, s \in Slots : Releases(r, s)
  \/ Tick

\* dispatch_order, whoever calls it.
LEMMA DispatchCases ==
  ASSUME IInv, NEW q \in Reqs, NEW p, Dispatch(q, p[1], p[2], p[3], p[4])
  PROVE  Refuses(q, p) \/ \E route \in Routes : Grants(q, p, route)
<1>1. CASE /\ \E status \in Statuses : req' = [req EXCEPT ![q] = Closed(status)]
           /\ UNCHANGED <<lock, left>>
  BY <1>1 DEF Refuses
<1>2. CASE \E route \in Routes : Grants(q, p, route)
  BY <1>2
<1> QED
  BY <1>1, <1>2 DEF Dispatch, Route, Statuses, Grants, Reservation

LEMMA DispatchFailsCases ==
  ASSUME IInv, NEW q \in Reqs, NEW p, DispatchFails(q, p[1], p[2], p[3], p[4])
  PROVE  Refuses(q, p)
BY DEF DispatchFails, Route, Statuses, Refuses, Reservation

LEMMA PostCases ==
  ASSUME IInv, NEW P, NEW q \in Reqs, NEW p \in P,
         \/ PostOrder(q, p[1], p[2], p[3], p[4])
         \/ PostFails(q, p[1], p[2], p[3], p[4])
  PROVE  LeaseStep(P)
<1>1. req[q].pc = "new" /\ UNCHANGED <<snap, task, at>>
  BY DEF PostOrder, PostFails, robots
<1>2. Refuses(q, p) \/ \E route \in Routes : Grants(q, p, route)
  BY DispatchCases, DispatchFailsCases DEF PostOrder, PostFails
<1> QED
  BY <1>1, <1>2 DEF LeaseStep

LEMMA KeepsCases ==
  ASSUME IInv, NEW P, GrantKnown(P),
               \/ \E q \in Reqs : PublishOrder(q) \/ PublishFails(q)
               \/ \E r \in Robots, s \in Slots :
                    \/ SpawnTelemetryTask(r, s) \/ ReadSnapshot(r, s)
                    \/ StoreSnapshot(r, s) \/ TouchHeartbeat(r, s) \/ TelemetryFails(r, s)
               \/ \E r \in Robots : RobotStep(r) \/ LoseOrder(r)
               \/ CoreRestart \/ UNCHANGED vars
  PROVE  Keeps
<1>1. CASE UNCHANGED <<lock, left, req>>
  BY <1>1 DEF Keeps, SameOrder
<1>2. ASSUME NEW q \in Reqs, PublishOrder(q)
      PROVE  Keeps
  <2>1. \A x \in Reqs : SameOrder(x)
    BY <1>2, RequestCases, RequestStepType DEF PublishOrder, IInv, TypeOK, Requests, SameOrder
  <2> QED
    BY <1>2, <2>1 DEF PublishOrder, redis, Keeps
<1>3. ASSUME NEW q \in Reqs, PublishFails(q)
      PROVE  Keeps
  BY <1>3 DEF PublishFails, redis, Keeps, SameOrder, IInv, TypeOK
<1>4. CASE CoreRestart
  <2>1. ASSUME NEW q \in Reqs, left'[q] # 0
        PROVE  left'[q] = left[q] /\ SameOrder(q)
    <3>1. CASE req[q].pc \in {"publish", "allocating"}
      <4>1. left'[q] = left[q] /\ req[q].pc # "publish"
        BY <1>4, <2>1 DEF CoreRestart
      <4>2. req[q] \in Requests
        BY <2>1, <4>1 DEF GrantKnown, IInv, TypeOK
      <4> QED
        BY <3>1, <4>1, <4>2 DEF Requests
    <3>2. CASE req[q].pc \notin {"publish", "allocating"}
      BY <1>4, <3>2 DEF CoreRestart, SameOrder
    <3> QED
      BY <3>1, <3>2
  <2> QED
    BY <1>4, <2>1 DEF CoreRestart, redis, Keeps
<1> QED
  BY <1>1, <1>2, <1>3, <1>4
     DEF SpawnTelemetryTask, ReadSnapshot, StoreSnapshot, TouchHeartbeat, TelemetryFails,
         RobotStep, TakeOrder, Advance, Finish, LoseOrder, redis, vars

LEMMA StepCases ==
  ASSUME IInv, NEW P, Posts \subseteq P, GrantKnown(P), [Next]_vars
  PROVE  LeaseStep(P)
<1>1. ASSUME NEW r \in Robots, NEW s \in Slots, ReleaseOldNode(r, s)
      PROVE  Releases(r, s)
  BY <1>1, GivesNode DEF ReleaseOldNode, Releases
<1> QED
  BY <1>1, PostCases, KeepsCases DEF Next, FaultStep, TelemetryStep, LeaseStep
-------------------------------------------------------------------------------
(* Leases stay. *)

\* A request with time left stays what it is.
LEMMA StaysGranted ==
  ASSUME NEW P \in SUBSET Orders, IInv, GrantKnown(P), IInv', LeaseStep(P), NEW q \in Reqs, left[q] > 0, left'[q] > 0
  PROVE  SameOrder(q) /\ left'[q] <= left[q]
<1>1. req[q] \in Requests /\ req[q].pc \notin {"new", "allocating"} /\ left[q] \in Nat
  BY DEF GrantKnown, Requests, IInv, TypeOK
<1>2. ASSUME NEW x \in Reqs, NEW p \in P, req[x].pc \in {"new", "allocating"},
             Refuses(x, p) \/ \E route \in Routes : Grants(x, p, route)
      PROVE  SameOrder(q) /\ left'[q] = left[q]
  BY <1>1, <1>2 DEF Refuses, Grants, SameOrder, IInv, TypeOK
<1>3. CASE Keeps
  BY <1>1, <1>3 DEF Keeps
<1>4. CASE UNCHANGED <<left, req>>
  BY <1>1, <1>4 DEF SameOrder
<1>5. CASE Tick
  BY <1>1, <1>5 DEF Tick, SameOrder, IInv, TypeOK
<1>6. CASE \E x \in Reqs, p \in P :
             /\ req[x].pc \in {"new", "allocating"} /\ UNCHANGED <<snap, task, at>>
             /\ Refuses(x, p) \/ \E route \in Routes : Grants(x, p, route)
  BY <1>1, <1>2, <1>6
<1>7. CASE \E r \in Robots, s \in Slots : Releases(r, s)
  BY <1>4, <1>7 DEF Releases
<1> QED
  BY <1>3, <1>5, <1>6, <1>7 DEF LeaseStep

\* A reservation of another request leaves q its lease on n.
LEMMA ReservationSpares ==
  ASSUME DistinctSerials, NEW P \in SUBSET Orders, OneTtl(P), IInv, GrantKnown(P),
         NEW q \in Reqs, left[q] > 0, NEW n \in Nodes, Leased(q, n),
         NEW x \in Reqs, x # q, NEW p \in P, NEW route \in Routes,
         Reservation(p, route)
  PROVE  lock'[n].owner = Serial[req[q].robot] /\ lock'[n].ttl >= left[q]
<1>1. req[q] \in Requests /\ left[q] \in Nat /\ p[1] \in Robots
  BY DEF Orders, GrantKnown, IInv, TypeOK
<1>2. req[q].robot \in Robots /\ Serial[req[q].robot] \in Owners
  BY <1>1, RobotsAssumption DEF Requests
<1>3. lock'[n] = IF n \in NodesOf(route) THEN [owner |-> Serial[p[1]], ttl |-> p[4]]
                                         ELSE lock[n]
  BY ReserveAt DEF Reservation
<1>4. CASE n \in NodesOf(route)
  <2>1. lock[n].owner \in {NoOwner, Serial[p[1]]}
    BY <1>4 DEF Reservation, Occupied
  <2>2. Serial[p[1]] = Serial[req[q].robot]
    BY <1>2, <2>1, OwnersAssumption DEF Leased
  <2>3. p[1] = req[q].robot
    BY <1>1, <1>2, <2>2 DEF DistinctSerials
  <2>4. p[4] = req[q].ttl
    BY <2>3 DEF GrantKnown, OneTtl
  <2>5. left[q] <= p[4] /\ p[4] \in Nat
    BY <2>4 DEF Orders, GrantKnown
  <2> QED
    BY <1>1, <1>3, <1>4, <2>2, <2>5
<1>5. CASE n \notin NodesOf(route)
  BY <1>3, <1>5 DEF Leased
<1> QED
  BY <1>4, <1>5

\* Only a telemetry task of its own robot takes a lease that q may count on.
LEMMA LeaseStays ==
  ASSUME DistinctSerials, NEW P \in SUBSET Orders, OneTtl(P), IInv, GrantKnown(P), IInv', LeaseStep(P),
         NEW q \in Reqs, left[q] > 0, left'[q] > 0, NEW n \in Nodes, Leased(q, n),
         \A s \in Slots : ~Gives(req[q].robot, s, n)
  PROVE  Leased(q, n)'
<1>1. req[q] \in Requests /\ req[q].pc \notin {"new", "allocating"} /\ left[q] \in Nat
      /\ req[q].robot \in Robots
  BY DEF GrantKnown, Requests, IInv, TypeOK
<1>2. lock[n] \in Lease /\ Serial[req[q].robot] \in Owners
  BY <1>1, RobotsAssumption DEF IInv, TypeOK, Table
<1>3. req'[q].robot = req[q].robot /\ left'[q] <= left[q] /\ left'[q] \in Nat
  BY StaysGranted DEF SameOrder, IInv, TypeOK
<1>4. lock[n].ttl \in Nat
  BY <1>2, LeaseCases
<1>5. ASSUME NEW x \in Reqs, NEW p \in P, req[x].pc \in {"new", "allocating"},
             Refuses(x, p) \/ \E route \in Routes : Grants(x, p, route)
      PROVE  Leased(q, n)'
  <2>1. x # q
    BY <1>1, <1>5
  <2>2. CASE UNCHANGED lock
    BY <1>1, <1>3, <1>4, <2>2 DEF Leased
  <2>3. ASSUME NEW route \in Routes, Reservation(p, route)
        PROVE  Leased(q, n)'
    <3>1. lock'[n].owner = Serial[req[q].robot] /\ lock'[n].ttl >= left[q]
      BY <2>1, <2>3, ReservationSpares
    <3>2. lock'[n].ttl \in Nat
      BY LeaseCases DEF IInv, TypeOK, Table
    <3> QED
      BY <1>1, <1>3, <3>1, <3>2 DEF Leased
  <2> QED
    BY <1>5, <2>2, <2>3 DEF Refuses, Grants
<1>6. CASE UNCHANGED lock
  BY <1>1, <1>3, <1>4, <1>6 DEF Leased
<1>7. ASSUME NEW r \in Robots, NEW s \in Slots, Releases(r, s)
      PROVE  Leased(q, n)'
  <2>1. lock'[n] = IF n \in {task[r][s].old.node} /\ lock[n].owner = Serial[r]
                   THEN NoLease ELSE lock[n]
    BY <1>7, ReleaseAt DEF Releases
  <2>2. lock[n].owner = Serial[r] => r = req[q].robot
    BY <1>1 DEF DistinctSerials, Leased
  <2>3. lock'[n] = lock[n]
    BY <1>7, <2>1, <2>2 DEF Releases
  <2> QED
    BY <1>1, <1>3, <1>4, <2>3 DEF Leased
<1>8. CASE Tick
  <2>1. left'[q] = left[q] - 1 /\ left[q] > 1
    BY <1>1, <1>8 DEF Tick, IInv, TypeOK
  <2>2. lock[n].ttl > 1
    BY <1>1, <1>4, <2>1 DEF Leased
  <2>3. lock'[n].owner = lock[n].owner /\ lock'[n].ttl = lock[n].ttl - 1
    BY <1>8, <2>2, ElapseAt DEF Tick, IInv, TypeOK
  <2> QED
    BY <1>1, <1>3, <1>4, <2>1, <2>3 DEF Leased
<1> QED
  BY <1>5, <1>6, <1>7, <1>8 DEF LeaseStep, Keeps

\* Who comes to count on leases has just been granted them.
LEMMA NewGrant ==
  ASSUME NEW P \in SUBSET Orders, IInv, GrantKnown(P), IInv', LeaseStep(P), NEW q \in Reqs, ~(left[q] > 0), left'[q] > 0
  PROVE  \E p \in P, route \in Routes :
           Grants(q, p, route) /\ UNCHANGED <<snap, task, at>>
<1>1. left[q] = 0
  BY DEF IInv, TypeOK
<1>2. ASSUME NEW x \in Reqs, NEW p \in P, UNCHANGED <<snap, task, at>>,
             Refuses(x, p) \/ \E route \in Routes : Grants(x, p, route)
      PROVE  \E route \in Routes : Grants(q, p, route)
  <2>1. ~Refuses(x, p)
    BY <1>1 DEF Refuses
  <2>2. PICK route \in Routes : Grants(x, p, route)
    BY <1>2, <2>1
  <2>3. x = q
    BY <1>1, <2>2 DEF Grants, IInv, TypeOK
  <2> QED
    BY <2>2, <2>3
<1>3. ~Keeps
  BY <1>1 DEF Keeps
<1>4. ~Tick
  BY <1>1 DEF Tick, IInv, TypeOK
<1>5. UNCHANGED left => FALSE
  BY <1>1
<1> QED
  BY <1>2, <1>3, <1>4, <1>5 DEF LeaseStep, Releases

LEMMA GrantKnownStep ==
  ASSUME NEW P \in SUBSET Orders, IInv, GrantKnown(P), IInv', LeaseStep(P)
  PROVE  GrantKnown(P)'
<1> SUFFICES ASSUME NEW q \in Reqs, left'[q] > 0
             PROVE  /\ req'[q] \in Requests /\ left'[q] <= req'[q].ttl
                    /\ \E p \in P : p[1] = req'[q].robot /\ p[4] = req'[q].ttl
  BY DEF GrantKnown
<1>1. left[q] \in Nat /\ left'[q] \in Nat
  BY DEF IInv, TypeOK
<1>2. CASE left[q] > 0
  <2>1. SameOrder(q) /\ left'[q] <= left[q]
    BY <1>2, StaysGranted
  <2>2. req[q].ttl \in Nat
    BY <1>2 DEF GrantKnown, Requests
  <2> QED
    BY <1>1, <1>2, <2>1, <2>2 DEF GrantKnown, SameOrder
<1>3. CASE ~(left[q] > 0)
  <2>1. PICK p \in P, route \in Routes : Grants(q, p, route)
    BY <1>3, NewGrant
  <2>2. p[1] \in Robots /\ p[4] \in Nat
    BY DEF Orders
  <2>3. /\ req'[q] = [pc |-> "publish", robot |-> p[1], route |-> route, ttl |-> p[4]]
        /\ left'[q] = p[4]
    BY <2>1 DEF Grants, IInv, TypeOK
  <2> QED
    BY <2>2, <2>3 DEF Requests
<1> QED
  BY <1>2, <1>3

\* What a new grant gives.
LEMMA GrantLeases ==
  ASSUME IInv, NEW P \in SUBSET Orders, NEW q \in Reqs, NEW p \in P, NEW route \in Routes,
         Grants(q, p, route), NEW n \in Nodes, n \in NodesOf(req'[q].route)
  PROVE  Leased(q, n)'
<1>1. /\ req'[q] = [pc |-> "publish", robot |-> p[1], route |-> route, ttl |-> p[4]]
      /\ left'[q] = p[4] /\ p[4] \in Nat
  BY DEF Orders, Grants, IInv, TypeOK
<1>2. lock'[n] = [owner |-> Serial[p[1]], ttl |-> p[4]]
  BY <1>1, ReserveAt DEF Grants, Reservation
<1> QED
  BY <1>1, <1>2 DEF Leased
-------------------------------------------------------------------------------
(* Robots drive forward, and what is known of them follows. *)

DrivesForward ==
  \A r \in Robots : /\ NotPast(at[r], at'[r]) /\ seq[r] <= seq'[r]
                    /\ at'[r] = at[r] \/ seq[r] < seq'[r]

LEMMA Forward ==
  ASSUME Acyclic, IInv, [Next]_vars
  PROVE  DrivesForward
<1> SUFFICES ASSUME NEW r \in Robots
             PROVE  /\ NotPast(at[r], at'[r]) /\ seq[r] <= seq'[r]
                    /\ at'[r] = at[r] \/ seq[r] < seq'[r]
  BY DEF DrivesForward
<1>0. seq[r] \in Nat
  BY DEF IInv, TypeOK
<1>1. CASE UNCHANGED <<at, seq>>
  BY <1>0, <1>1 DEF NotPast
<1>2. ASSUME NEW x \in Robots, UNCHANGED at, seq' = [seq EXCEPT ![x] = @ + 1]
      PROVE  NotPast(at[r], at'[r]) /\ seq[r] <= seq'[r] /\ at'[r] = at[r]
  <2>1. seq'[r] \in {seq[r], seq[r] + 1}
    BY <1>2 DEF IInv, TypeOK
  <2> QED
    BY <1>0, <1>2, <2>1 DEF NotPast
<1>3. ASSUME NEW x \in Robots, Advance(x)
      PROVE  /\ NotPast(at[r], at'[r]) /\ seq[r] <= seq'[r]
             /\ at'[r] = at[r] \/ seq[r] < seq'[r]
  <2> DEFINE route == req[order[x]].route
  <2>1. route \in Routes /\ route \in Seq(Nodes)
    <3>1. req[order[x]] \in Requests
      BY <1>3, RequestCases DEF Advance, IInv, TypeOK, OrdersPublished
    <3> QED
      BY <3>1, RoutesAssumption DEF Requests
  <2>2. PICK i \in DOMAIN route :
          /\ IF at[x] = NoNode THEN i = 1 ELSE i > 1 /\ route[i - 1] = at[x]
          /\ at' = [at EXCEPT ![x] = route[i]]
    BY <1>3 DEF Advance
  <2>3. IF r = x THEN seq'[r] = seq[r] + 1 ELSE seq'[r] = seq[r] /\ at'[r] = at[r]
    BY <1>3, <2>2 DEF Advance, IInv, TypeOK
  <2>4. at'[x] = route[i] /\ route[i] \in Nodes
    BY <2>1, <2>2 DEF IInv, TypeOK
  <2>5. NotPast(at[x], at'[x])
    <3>1. CASE at[x] # NoNode
      <4>1. i - 1 \in DOMAIN route /\ i - 1 < i /\ route[i - 1] = at[x]
        BY <2>1, <2>2, <3>1
      <4>2. Rank[at[x]] < Rank[route[i]] /\ at[x] \in Nodes
        BY <2>1, <2>2, <4>1, RankType DEF Climbs
      <4> QED
        BY <2>4, <4>2 DEF NotPast
    <3> QED
      BY <3>1 DEF NotPast
  <2> QED
    BY <1>0, <2>3, <2>5 DEF NotPast
<1>4. ASSUME NEW x \in Robots, TakeOrder(x) \/ Finish(x)
      PROVE  UNCHANGED at /\ (UNCHANGED seq \/ seq' = [seq EXCEPT ![x] = @ + 1])
  BY <1>4 DEF TakeOrder, Finish
<1> QED
  BY <1>1, <1>2, <1>3, <1>4
     DEF Next, FaultStep, RobotStep, TelemetryStep, PostOrder, PostFails, PublishOrder,
         PublishFails, SpawnTelemetryTask, ReadSnapshot, ReleaseOldNode, StoreSnapshot,
         TouchHeartbeat, TelemetryFails, CoreRestart, LoseOrder, Tick, robots, vars

\* What a telemetry task becomes: it begins with the robot's state; it sees that
\* the robot left the stored node; it goes on or ends, and may have stored its state.
Begins(r, s, t) ==
  /\ task[r][s] = NoTask /\ UNCHANGED snap
  /\ t.pc = "read" /\ t.msg = State(r) /\ t.old = NoSnap

SeesMove(r, s, t) ==
  /\ task[r][s] \in Tasks /\ UNCHANGED snap
  /\ Moved(r, t.msg) /\ t.pc = "release" /\ t.msg = task[r][s].msg /\ t.old = snap[r]

GoesOn(r, s, t) ==
  /\ task[r][s] \in Tasks
  /\ t # NoTask => /\ t.pc # "release" /\ t.msg = task[r][s].msg
                   /\ t.old \in {task[r][s].old, NoSnap}
  /\ UNCHANGED snap \/ snap' = [snap EXCEPT ![r] = task[r][s].msg]

TaskMoves(r, s, t) ==
  /\ task' = [task EXCEPT ![r][s] = t] /\ UNCHANGED <<at, seq>>
  /\ Begins(r, s, t) \/ SeesMove(r, s, t) \/ GoesOn(r, s, t)

LEMMA TaskMovesOn ==
  ASSUME IInv, NEW r \in Robots, NEW s \in Slots,
         TelemetryStep(r, s) \/ TelemetryFails(r, s)
  PROVE  \E t \in Tasks \cup {NoTask} : TaskMoves(r, s, t)
<1> DEFINE u == task[r][s]
<1>1. u \in Tasks /\ UNCHANGED <<at, seq>>
  BY TaskCases DEF TelemetryStep, ReadSnapshot, ReleaseOldNode, StoreSnapshot,
     TouchHeartbeat, TelemetryFails, robots, IInv, TypeOK
<1>2. ASSUME NEW t \in Tasks, t.pc # "release", t.msg = u.msg, t.old \in {u.old, NoSnap},
             task' = [task EXCEPT ![r][s] = t],
             UNCHANGED snap \/ snap' = [snap EXCEPT ![r] = u.msg]
      PROVE  \E x \in Tasks \cup {NoTask} : TaskMoves(r, s, x)
  BY <1>1, <1>2 DEF TaskMoves, GoesOn
<1>3. ASSUME task' = [task EXCEPT ![r][s] = NoTask],
             UNCHANGED snap \/ snap' = [snap EXCEPT ![r] = u.msg]
      PROVE  \E x \in Tasks \cup {NoTask} : TaskMoves(r, s, x)
  BY <1>1, <1>3 DEF TaskMoves, GoesOn
<1>4. ASSUME NEW pc \in {"store", "beat"}, task' = [task EXCEPT ![r][s].pc = pc],
             UNCHANGED snap \/ snap' = [snap EXCEPT ![r] = u.msg]
      PROVE  \E x \in Tasks \cup {NoTask} : TaskMoves(r, s, x)
  <2> DEFINE t == [u EXCEPT !.pc = pc]
  <2>1. t \in Tasks /\ t.pc = pc /\ t.msg = u.msg /\ t.old = u.old
    BY <1>1, TaskStepType DEF Tasks
  <2>2. task' = [task EXCEPT ![r][s] = t]
    BY <1>4
  <2> HIDE DEF t
  <2> QED
    BY <1>2, <1>4, <2>1, <2>2
<1>5. ASSUME task' = [task EXCEPT ![r][s] = Compared(@)], UNCHANGED snap
      PROVE  \E x \in Tasks \cup {NoTask} : TaskMoves(r, s, x)
  <2> DEFINE t == Compared(u)
  <2>1. t \in Tasks /\ t.pc = "store" /\ t.msg = u.msg /\ t.old = NoSnap
    BY <1>1, ComparedType
  <2>2. task' = [task EXCEPT ![r][s] = t]
    BY <1>5
  <2> HIDE DEF t
  <2> QED
    BY <1>2, <1>5, <2>1, <2>2
<1>6. CASE ReadSnapshot(r, s)
  <2>1. CASE Moved(r, u.msg)
    <3> DEFINE t == [u EXCEPT !.pc = "release", !.old = snap[r]]
    <3>1. snap[r] \in States \cup {NoSnap}
      BY DEF IInv, TypeOK
    <3>2. t \in Tasks /\ t.pc = "release" /\ t.msg = u.msg /\ t.old = snap[r]
      BY <1>1, <3>1, TaskReleaseType DEF Tasks
    <3>3. task' = [task EXCEPT ![r][s] = t] /\ UNCHANGED snap
      BY <1>6, <2>1 DEF ReadSnapshot, redis
    <3> HIDE DEF t
    <3> QED
      BY <1>1, <2>1, <3>2, <3>3 DEF TaskMoves, SeesMove
  <2>2. CASE ~Moved(r, u.msg)
    <3>1. task' = [task EXCEPT ![r][s].pc = "store"] /\ UNCHANGED snap
      BY <1>6, <2>2 DEF ReadSnapshot, redis
    <3> QED
      BY <1>4, <3>1
  <2> QED
    BY <2>1, <2>2
<1>7. CASE ReleaseOldNode(r, s) \/ StoreSnapshot(r, s) \/ TouchHeartbeat(r, s)
  BY <1>3, <1>4, <1>5, <1>7 DEF ReleaseOldNode, StoreSnapshot, TouchHeartbeat
<1>8. CASE TelemetryFails(r, s)
  BY <1>3, <1>5, <1>8 DEF TelemetryFails
<1> QED
  BY <1>6, <1>7, <1>8 DEF TelemetryStep

LEMMA TaskBegins ==
  ASSUME IInv, NEW r \in Robots, NEW s \in Slots, SpawnTelemetryTask(r, s)
  PROVE  \E t \in Tasks \cup {NoTask} : TaskMoves(r, s, t)
<1> DEFINE t == [pc |-> "read", msg |-> State(r), old |-> NoSnap]
<1>1. t \in Tasks /\ t.pc = "read" /\ t.old = NoSnap /\ t.msg = State(r)
  BY StateType DEF IInv, Tasks
<1>2. task' = [task EXCEPT ![r][s] = t]
  BY DEF SpawnTelemetryTask
<1> HIDE DEF t
<1> QED
  BY <1>1, <1>2 DEF SpawnTelemetryTask, TaskMoves, Begins, redis, robots

\* What a step may do to the telemetry tasks and the stored states: of a robot nothing
\* becomes known but where it is, and a release follows from a comparison.
Learns(r) ==
  \/ Seen(r)' \subseteq Seen(r)
  \/ Seen(r)' \subseteq Seen(r) \cup {State(r)} /\ at'[r] = at[r] /\ seq'[r] = seq[r]

TelemetryMoves ==
  /\ \A r \in Robots : Learns(r)
  /\ \A r \in Robots, s \in Slots : task'[r][s].pc = "release" =>
       task'[r][s] = task[r][s] \/ Compares(task'[r][s])

LEMMA TaskLearns ==
  ASSUME IInv, NEW r \in Robots, NEW s \in Slots, NEW t \in Tasks \cup {NoTask},
         TaskMoves(r, s, t)
  PROVE  TelemetryMoves
<1>1. \A x \in Robots, y \in Slots :
        task'[x][y] = IF x = r /\ y = s THEN t ELSE task[x][y]
  BY DEF TaskMoves, IInv, TypeOK
<1>2. \A x \in Robots : snap'[x] = snap[x]
                        \/ (x = r /\ task[r][s] # NoTask /\ snap'[x] = task[r][s].msg)
  <2>1. task[r][s] \in Tasks => task[r][s] # NoTask
    BY DEF Tasks, NoTask
  <2> QED
    BY <2>1 DEF TaskMoves, Begins, SeesMove, GoesOn, IInv, TypeOK
<1>3. NoSnap \notin States
  BY SnapCases
<1>4. t # NoTask => {t.msg, t.old} \cap States \subseteq Seen(r) \cup {State(r)}
  <2>1. task[r][s] \in Tasks => {task[r][s].msg, task[r][s].old} \cap States \subseteq Seen(r)
    BY DEF Seen, Tasks, NoTask
  <2>2. snap[r] \in States => snap[r] \in Seen(r)
    BY DEF Seen
  <2> QED
    BY <1>3, <2>1, <2>2 DEF TaskMoves, Begins, SeesMove, GoesOn
<1>5. ASSUME NEW x \in Robots, NEW m \in Seen(x)'
      PROVE  m \in Seen(x) \cup {State(x)}
  <2>1. m \in States
    BY DEF Seen
  <2>2. CASE m = snap'[x]
    BY <1>2, <2>1, <2>2 DEF Seen
  <2>3. ASSUME NEW y \in Slots, task'[x][y] # NoTask, m \in {task'[x][y].msg, task'[x][y].old}
        PROVE  m \in Seen(x) \cup {State(x)}
    <3>1. CASE x = r /\ y = s
      BY <1>1, <1>4, <2>1, <2>3, <3>1
    <3>2. CASE ~(x = r /\ y = s)
      BY <1>1, <2>1, <2>3, <3>2 DEF Seen
    <3> QED
      BY <3>1, <3>2
  <2> QED
    BY <2>2, <2>3 DEF Seen
<1>6. \A x \in Robots : Learns(x)
  BY <1>5 DEF Learns, TaskMoves
<1>7. ASSUME t.pc = "release" PROVE Compares(t)
  <2>1. Moved(r, t.msg) /\ t.old = snap[r]
    BY <1>7 DEF TaskMoves, Begins, SeesMove, GoesOn, NoTask
  <2> QED
    BY <2>1, SnapCases DEF Moved, Compares, States, Places, IInv, TypeOK
<1> QED
  BY <1>1, <1>6, <1>7 DEF TelemetryMoves

LEMMA NothingLearnt ==
  ASSUME \/ UNCHANGED <<task, snap>>
         \/ UNCHANGED snap /\ task' = [r \in Robots |-> [s \in Slots |-> NoTask]]
  PROVE  TelemetryMoves
<1>1. CASE UNCHANGED <<task, snap>>
  BY <1>1 DEF TelemetryMoves, Learns, Seen
<1>2. CASE UNCHANGED snap /\ task' = [r \in Robots |-> [s \in Slots |-> NoTask]]
  <2>1. \A r \in Robots, s \in Slots : task'[r][s] = NoTask
    BY <1>2
  <2>2. \A r \in Robots : Seen(r)' \subseteq Seen(r)
    BY <1>2, <2>1 DEF Seen
  <2> QED
    BY <2>1, <2>2 DEF TelemetryMoves, Learns, NoTask
<1> QED
  BY <1>1, <1>2

LEMMA TelemetryCases ==
  ASSUME IInv, [Next]_vars
  PROVE  TelemetryMoves
<1>1. CASE \E r \in Robots, s \in Slots :
             SpawnTelemetryTask(r, s) \/ TelemetryStep(r, s) \/ TelemetryFails(r, s)
  BY <1>1, TaskMovesOn, TaskBegins, TaskLearns
<1>2. CASE CoreRestart
  BY <1>2, NothingLearnt DEF CoreRestart, redis
<1>3. CASE UNCHANGED <<task, snap>>
  BY <1>3, NothingLearnt
<1> QED
  BY <1>1, <1>2, <1>3
     DEF Next, FaultStep, RobotStep, PostOrder, PostFails, PublishOrder, PublishFails,
         TakeOrder, LoseOrder, Advance, Finish, Tick, redis, vars

LEMMA HistoryStep ==
  ASSUME Acyclic, IInv, IInv', History, DrivesForward, TelemetryMoves
  PROVE  History'
<1> SUFFICES ASSUME NEW r \in Robots, NEW a \in Seen(r)'
             PROVE  /\ a.seq <= seq'[r] /\ NotPast(a.node, at'[r])
                    /\ a.seq = seq'[r] => a.node = at'[r]
                    /\ \A b \in Seen(r)' : a.seq <= b.seq => NotPast(a.node, b.node)
  BY DEF History, NotPast
<1>1. /\ seq[r] \in Nat /\ seq'[r] \in Nat /\ at[r] \in Places /\ at'[r] \in Places
      /\ \A m \in Seen(r) \cup Seen(r)' : m.seq \in Nat /\ m.node \in Places
  BY DEF IInv, TypeOK, Seen, States
<1>2. CASE Seen(r)' \subseteq Seen(r)
  <2>1. /\ a.seq <= seq[r] /\ NotPast(a.node, at[r]) /\ (a.seq = seq[r] => a.node = at[r])
        /\ \A b \in Seen(r)' : a.seq <= b.seq => NotPast(a.node, b.node)
    BY <1>2 DEF History
  <2>2. /\ NotPast(at[r], at'[r]) /\ seq[r] <= seq'[r]
        /\ at'[r] = at[r] \/ seq[r] < seq'[r]
    BY DEF DrivesForward
  <2>3. NotPast(a.node, at'[r])
    BY <1>1, <2>1, <2>2, NotPastTrans
  <2> QED
    BY <1>1, <2>1, <2>2, <2>3
<1>3. CASE Seen(r)' \subseteq Seen(r) \cup {State(r)} /\ at'[r] = at[r] /\ seq'[r] = seq[r]
  <2>1. State(r).seq = seq[r] /\ State(r).node = at[r]
    BY DEF State
  <2>2. ASSUME NEW m \in Seen(r)'
        PROVE  /\ m.seq <= seq[r] /\ NotPast(m.node, at[r])
               /\ m.seq = seq[r] => m.node = at[r]
    BY <1>1, <1>3, <2>1 DEF History, NotPast
  <2>3. ASSUME NEW b \in Seen(r)', a.seq <= b.seq PROVE NotPast(a.node, b.node)
    <3>1. CASE a \in Seen(r) /\ b \in Seen(r)
      BY <2>3, <3>1 DEF History
    <3>2. CASE b = State(r)
      BY <2>1, <2>2, <3>2
    <3>3. CASE a = State(r)
      <4>1. b.seq = seq[r]
        BY <1>1, <2>1, <2>2, <2>3, <3>3
      <4> QED
        BY <2>1, <2>2, <3>3, <4>1 DEF NotPast
    <3> QED
      BY <1>3, <3>1, <3>2, <3>3
  <2> QED
    BY <1>3, <2>2, <2>3
<1> QED
  BY <1>2, <1>3 DEF TelemetryMoves, Learns

LEMMA TrailStep ==
  ASSUME Acyclic, IInv, IInv', Trail, DrivesForward, TelemetryMoves
  PROVE  Trail'
<1>1. Comparisons'
  BY DEF Trail, Comparisons, Compares, TelemetryMoves
<1> QED
  BY <1>1, HistoryStep DEF Trail

\* The node a task is to release is not ahead of its robot, and behind it if the
\* task was not overtaken.
LEMMA ReleasesBehind ==
  ASSUME Acyclic, IInv, Trail, NEW r \in Robots, NEW s \in Slots, task[r][s].pc = "release"
  PROVE  /\ task[r][s].old.node \in Nodes
         /\ NotPast(task[r][s].old.node, at[r])
         /\ ~Overtaken(task[r][s]) => task[r][s].old.node # at[r]
<1> DEFINE t == task[r][s]
<1>1. t # NoTask /\ t \in Tasks
  BY TaskCases DEF NoTask, IInv, TypeOK
<1>2. t.msg \in Seen(r) /\ t.old \in Seen(r) /\ t.old.node \in Nodes \ {t.msg.node}
  BY <1>1 DEF Seen, Trail, Comparisons, Compares, Tasks
<1>3. /\ t.msg.seq \in Nat /\ t.old.seq \in Nat /\ t.msg.node \in Places /\ at[r] \in Places
  BY <1>2 DEF Seen, States, IInv, TypeOK
<1>4. NotPast(t.old.node, at[r]) /\ NotPast(t.msg.node, at[r])
      /\ (t.old.seq <= t.msg.seq => NotPast(t.old.node, t.msg.node))
  BY <1>2 DEF Trail, History
<1> QED
  BY <1>2, <1>3, <1>4, LeftBehind DEF Overtaken
-------------------------------------------------------------------------------
(* The nodes ahead. *)

\* A step of a system in which the fleet manager is given the orders in P.
FleetMoves(P) == IInv' /\ LeaseStep(P) /\ TelemetryMoves /\ DrivesForward

LEMMA NextMoves ==
  ASSUME Acyclic, IInv, NEW P, Posts \subseteq P, GrantKnown(P), [Next]_vars
  PROVE  FleetMoves(P)
BY NextIInv, StepCases, TelemetryCases, Forward DEF FleetMoves

LEMMA PostsAreOrders == Posts \in SUBSET Orders
BY PostsAssumption DEF Orders

LEMMA RouteNodes ==
  ASSUME NEW P, IInv, GrantKnown(P), NEW q \in Reqs, left[q] > 0
  PROVE  /\ req[q] \in Requests /\ req[q].robot \in Robots /\ req[q].route \in Routes
         /\ at[req[q].robot] \in Places /\ NodesOf(req[q].route) \subseteq Nodes
BY RoutesAssumption DEF GrantKnown, IInv, TypeOK, Requests, NodesOf

LEMMA AheadLeasedStep ==
  ASSUME DistinctSerials, Acyclic, NEW P \in SUBSET Orders, OneTtl(P),
         AheadInv(P), FleetMoves(P)
  PROVE  AheadLeased'
<1> SUFFICES ASSUME NEW q \in Reqs, left'[q] > 0, NEW n \in NodesOf(req'[q].route),
                    Beyond(at'[req'[q].robot], n)
             PROVE  Leased(q, n)'
  BY DEF AheadLeased, Beyond
<1>1. CASE left[q] > 0
  <2> DEFINE r == req[q].robot
  <2>1. /\ r \in Robots /\ n \in NodesOf(req[q].route) /\ n \in Nodes
        /\ req'[q].robot = r /\ at[r] \in Places
    BY <1>1, StaysGranted, RouteNodes DEF SameOrder, AheadInv, FleetMoves
  <2>2. at'[r] \in Places
    BY <2>1 DEF AheadInv, FleetMoves, IInv, TypeOK
  <2>3. Beyond(at[r], n)
    BY <2>1, <2>2, BeyondBack DEF FleetMoves, DrivesForward
  <2>4. Leased(q, n)
    BY <1>1, <2>1, <2>3 DEF AheadInv, AheadLeased
  <2>5. ASSUME NEW s \in Slots PROVE ~Gives(r, s, n)
    BY <2>1, <2>3, ReleasesBehind, NotBeyond DEF Gives, AheadInv
  <2> QED
    BY <1>1, <2>1, <2>4, <2>5, LeaseStays DEF AheadInv, FleetMoves
<1>2. CASE ~(left[q] > 0)
  <2>1. PICK p \in P, route \in Routes : Grants(q, p, route)
    BY <1>2, NewGrant DEF AheadInv, FleetMoves
  <2>2. n \in Nodes
    <3>1. req'[q].route = route
      BY <2>1 DEF Grants, AheadInv, IInv, TypeOK
    <3> QED
      BY <3>1, RoutesAssumption DEF NodesOf
  <2> QED
    BY <2>1, <2>2, GrantLeases DEF AheadInv
<1> QED
  BY <1>1, <1>2

LEMMA NextAheadInv ==
  ASSUME DistinctSerials, Acyclic, NEW P \in SUBSET Orders, OneTtl(P),
         AheadInv(P), FleetMoves(P)
  PROVE  AheadInv(P)'
BY GrantKnownStep, TrailStep, AheadLeasedStep DEF AheadInv, FleetMoves

LEMMA InitTrail == Init => Trail
<1> SUFFICES ASSUME Init PROVE Trail
  OBVIOUS
<1>1. \A r \in Robots : Seen(r) = {}
  BY SnapCases DEF Init, Seen
<1> QED
  BY <1>1 DEF Init, Trail, History, Comparisons, NoTask

LEMMA InitAheadInv ==
  ASSUME Init, NEW P
  PROVE  AheadInv(P)
<1>1. GrantKnown(P) /\ AheadLeased
  BY DEF Init, GrantKnown, AheadLeased
<1> QED
  BY <1>1, InitTrail, InitIInv DEF AheadInv

LEMMA AheadIsKept ==
  ASSUME Acyclic, NEW P, AheadInv(P)
  PROVE  NodesAheadKept
BY AheadIs, RouteNodes DEF AheadInv, AheadLeased, NodesAheadKept, Leased

LEMMA InvariantAheadInv ==
  ASSUME DistinctSerials, OneTtl(Posts), Acyclic
  PROVE  Spec => []AheadInv(Posts)
<1>1. Init => AheadInv(Posts)
  BY InitAheadInv
<1>2. AheadInv(Posts) /\ [Next]_vars => AheadInv(Posts)'
  BY NextMoves, NextAheadInv, PostsAreOrders DEF AheadInv
<1> QED
  BY <1>1, <1>2, PTL DEF Spec

\* However telemetry tasks overtake each other, calls fail and other orders reserve
\* paths: the nodes that a robot has still to reach stay leased to it (fleet_manager.rs:63).
THEOREM NodesAheadAreKept ==
  ASSUME DistinctSerials, OneTtl(Posts), Acyclic
  PROVE  Spec => []NodesAheadKept
<1>1. AheadInv(Posts) => NodesAheadKept
  BY AheadIsKept
<1> QED
  BY <1>1, InvariantAheadInv, PTL
-------------------------------------------------------------------------------
(* The node under the robot. *)

\* What overlapping tasks may do to a lease that q counts on.
LEMMA OnlyLateTasksTake ==
  ASSUME DistinctSerials, Acyclic, NEW P \in SUBSET Orders, OneTtl(P),
         AheadInv(P), FleetMoves(P), NEW q \in Reqs, left[q] > 0, left'[q] > 0,
         NEW n \in Ahead(q), Leased(q, n), ~Leased(q, n)'
  PROVE  LET r == req[q].robot
         IN  n = at[r] /\ \E s \in Slots : Gives(r, s, n) /\ Overtaken(task[r][s])
<1> DEFINE r == req[q].robot
<1>1. /\ r \in Robots /\ at[r] \in Places /\ req[q].route \in Routes
      /\ NodesOf(req[q].route) \subseteq Nodes
  BY RouteNodes DEF AheadInv
<1>2. n \in Nodes /\ (n = at[r] \/ Beyond(at[r], n))
  BY <1>1, AheadIs
<1>3. PICK s \in Slots : Gives(r, s, n)
  BY <1>2, LeaseStays DEF AheadInv, FleetMoves
<1>4. /\ NotPast(n, at[r])
      /\ ~Overtaken(task[r][s]) => n # at[r]
  BY <1>1, <1>3, ReleasesBehind DEF Gives, AheadInv
<1>5. n = at[r]
  BY <1>1, <1>2, <1>4, NotBeyond
<1> QED
  BY <1>3, <1>4, <1>5

LEMMA InOrderBehind ==
  ASSUME Acyclic, IInv, Trail
  PROVE  InOrderReleasesAreBehind
BY ReleasesBehind DEF InOrderReleasesAreBehind

\* What of a path is leased to one robot is leased to no other.
LEMMA PathsMeetUnderRobots ==
  ASSUME DistinctSerials, Acyclic, NEW P, AheadInv(P)
  PROVE  ReservationsMeetUnderRobots
<1> SUFFICES ASSUME NEW q1 \in Reqs, NEW q2 \in Reqs, left[q1] > 0, left[q2] > 0,
                    req[q1].robot # req[q2].robot, NEW n \in Ahead(q1), n \in Ahead(q2),
                    n \notin {at[req[q1].robot], at[req[q2].robot]}
             PROVE  FALSE
  BY DEF ReservationsMeetUnderRobots
<1>1. lock[n].owner = Serial[req[q1].robot] /\ lock[n].owner = Serial[req[q2].robot]
  BY AheadIsKept DEF NodesAheadKept, Leased
<1> QED
  BY <1>1, RouteNodes DEF DistinctSerials, AheadInv

\* A task that was not overtaken gives up only a node its robot has left, whatever
\* other tasks of that robot do meanwhile (fleet_manager.rs:89).
THEOREM ReleasesAreBehind ==
  ASSUME Acyclic
  PROVE  Spec => []InOrderReleasesAreBehind
<1>1. Init => IInv /\ Trail
  BY InitIInv, InitTrail
<1>2. IInv /\ Trail /\ [Next]_vars => IInv' /\ Trail'
  BY NextIInv, TelemetryCases, Forward, TrailStep
<1>3. IInv /\ Trail => InOrderReleasesAreBehind
  BY InOrderBehind
<1> QED
  BY <1>1, <1>2, <1>3, PTL DEF Spec

\* Of a granted path nothing is lost before its time but the node under the robot, and
\* that only to a task of this robot that was overtaken (fleet_manager.rs:101, main.rs:122).
THEOREM GrantsLostToLateTasks ==
  ASSUME DistinctSerials, OneTtl(Posts), Acyclic
  PROVE  Spec => GrantLostOnlyToLateTask
<1>1. AheadInv(Posts) /\ [Next]_vars =>
        [\A q \in Reqs : left[q] > 0 /\ left'[q] > 0 =>
           \A n \in Ahead(q) : Leased(q, n) /\ ~Leased(q, n)' =>
             LET r == req[q].robot IN
             /\ n = at[r]
             /\ \E s \in Slots : Gives(r, s, n) /\ Overtaken(task[r][s])]_vars
  <2> SUFFICES ASSUME AheadInv(Posts), [Next]_vars, NEW q \in Reqs, left[q] > 0, left'[q] > 0,
                      NEW n \in Ahead(q), Leased(q, n), ~Leased(q, n)'
               PROVE  LET r == req[q].robot IN
                      /\ n = at[r]
                      /\ \E s \in Slots : Gives(r, s, n) /\ Overtaken(task[r][s])
    OBVIOUS
  <2>1. FleetMoves(Posts)
    BY NextMoves DEF AheadInv
  <2> QED
    BY <2>1, OnlyLateTasksTake, PostsAreOrders
<1> QED
  BY <1>1, InvariantAheadInv, PTL DEF GrantLostOnlyToLateTask, Spec

\* So two robots may rely on one node at a time only where one of them stands
\* (README.md:137).
THEOREM ReservationsMeet ==
  ASSUME DistinctSerials, OneTtl(Posts), Acyclic
  PROVE  Spec => []ReservationsMeetUnderRobots
<1>1. AheadInv(Posts) => ReservationsMeetUnderRobots
  BY PathsMeetUnderRobots
<1> QED
  BY <1>1, InvariantAheadInv, PTL
===============================================================================
