-------------------------- MODULE TaskAllocator_proofs --------------------------
(***************************************************************************)
(* The allocator for any map, fleet and tasks: the candidate it has is the *)
(* closest of the available robots whose states it has read, whatever      *)
(* telemetry, other requests, faults and restarts do between the reads.    *)
(* The invariant adds that a robot still to be read has a stored state,    *)
(* and that the candidate's distance is the one of the state that was read. *)
(* What FleetGrants_proofs shows of leases and of granted paths holds with  *)
(* the allocator's dispatches too, though it dispatches by old states.      *)
(***************************************************************************)
EXTENDS TaskAllocator, FleetGrants_proofs

\* The state of r was read, it was available and it can reach the task's node.
Fits(a, r) ==
  /\ a.read[r] # NoSnap /\ Available(a.read[r])
  /\ Route(a.read[r].node, a.from) # {}

Far(a, r) == CHOOSE d \in Distances(a.read[r].node, a.from) : TRUE

Closest(a) ==
  IF a.best = NoCandidate THEN \A r \in Robots : ~Fits(a, r)
  ELSE /\ Fits(a, a.best.robot) /\ a.best.node = a.read[a.best.robot].node
       /\ a.best.dist = Far(a, a.best.robot)
       /\ \A r \in Robots : Fits(a, r) => a.best.dist <= Far(a, r)

\* A robot that is still to be read has not been read, and has a stored state.
KeysToRead(a, stored) == \A r \in a.keys : a.read[r] = NoSnap /\ stored[r] # NoSnap

AllocInv ==
  /\ IInv
  /\ alloc \in [Reqs -> Allocs \cup {NoAlloc}]
  /\ \A q \in Reqs : req[q].pc = "allocating" =>
       alloc[q] \in Allocs /\ KeysToRead(alloc[q], snap) /\ Closest(alloc[q])
-------------------------------------------------------------------------------
(* The candidate. *)

LEMMA NullCandidate == \A c \in Candidate : c # NoCandidate
BY AllocatorAssumption DEF Candidate, NoCandidate

\* Where there is a route, find_path answers one length.
LEMMA OneDistance ==
  ASSUME NEW a, NEW b, Route(a, b) # {}
  PROVE  LET d == CHOOSE x \in Distances(a, b) : TRUE
         IN  Distances(a, b) = {d} /\ d \in Nat
<1>1. PICK p \in Route(a, b) : TRUE
  OBVIOUS
<1>2. \A x \in Route(a, b) : x \in Routes /\ Distance[x] = Distance[p]
  BY DistanceAssumption DEF Route
<1>3. Distances(a, b) = {Distance[p]}
  BY <1>1, <1>2 DEF Distances
<1>4. Distance[p] \in Nat
  BY <1>2, DistanceAssumption
<1>5. (CHOOSE x \in {Distance[p]} : TRUE) = Distance[p]
  OBVIOUS
<1> QED
  BY <1>3, <1>4, <1>5

LEMMA NoDistance ==
  ASSUME NEW a, NEW b, Route(a, b) = {}
  PROVE  Distances(a, b) = {}
BY DEF Distances

\* The state of r is read: the candidate is the closest of those read so far.
LEMMA BestIsClosest ==
  ASSUME TypeOK, NEW a \in Allocs, NEW r \in a.keys, KeysToRead(a, snap), Closest(a),
         NEW b, b = [from |-> a.from, to |-> a.to, keys |-> a.keys \ {r},
                     best |-> Best(a, r, snap[r]), read |-> [a.read EXCEPT ![r] = snap[r]]]
  PROVE  b \in Allocs /\ KeysToRead(b, snap) /\ Closest(b)
<1> DEFINE m == snap[r]
           far == CHOOSE d \in Distances(m.node, a.from) : TRUE
<1>1. /\ r \in Robots /\ a.from \in Nodes /\ a.to \in Nodes /\ a.keys \subseteq Robots
      /\ a.best \in Candidate \cup {NoCandidate}
      /\ a.read \in [Robots -> States \cup {NoSnap}]
  BY DEF Allocs
<1>2. m \in States /\ m # NoSnap /\ a.read[r] = NoSnap
  BY <1>1, SnapCases DEF TypeOK, KeysToRead
<1>3. /\ b.from = a.from /\ b.best = Best(a, r, m) /\ b.keys = a.keys \ {r}
      /\ b.read[r] = m /\ \A x \in Robots \ {r} : b.read[x] = a.read[x]
  BY <1>1
<1>4. Fits(b, r) <=> Available(m) /\ Route(m.node, a.from) # {}
  BY <1>2, <1>3 DEF Fits
<1>5. \A x \in Robots \ {r} : (Fits(b, x) <=> Fits(a, x)) /\ Far(b, x) = Far(a, x)
  BY <1>3 DEF Fits, Far
<1>6. Far(b, r) = far
  BY <1>3 DEF Far
<1>7. ~Fits(a, r)
  BY <1>2 DEF Fits
<1>8. a.best # NoCandidate => a.best \in Candidate /\ a.best.robot \in Robots \ {r}
  BY <1>1, <1>7 DEF Closest, Candidate
<1>9. Available(m) => m.node \in Nodes
  BY <1>2 DEF Available, States, Places
<1> HIDE DEF m
<1>10. Fits(b, r) => Distances(m.node, a.from) = {far} /\ far \in Nat
  BY <1>4, OneDistance
<1>11. ~Fits(b, r) => Best(a, r, m) = a.best
  <2>1. ASSUME ~Available(m) PROVE Best(a, r, m) = a.best
    BY <2>1 DEF Best
  <2>2. ASSUME Route(m.node, a.from) = {} PROVE Best(a, r, m) = a.best
    BY <2>2, NoDistance DEF Best
  <2> QED
    BY <1>4, <2>1, <2>2
<1>12. Fits(b, r) =>
         Best(a, r, m) = IF Closer(far, a.best)
                         THEN [robot |-> r, node |-> m.node, dist |-> far] ELSE a.best
  BY <1>4, <1>10 DEF Best
<1> HIDE DEF far
<1>13. CASE Fits(b, r) /\ Closer(far, a.best)
  <2>1. far \in Nat /\ Available(m)
    BY <1>4, <1>13, <1>10
  <2>2. b.best = [robot |-> r, node |-> m.node, dist |-> far]
    BY <1>3, <1>13, <1>12
  <2>3. b.best \in Candidate
    BY <1>1, <1>9, <2>1, <2>2 DEF Candidate
  <2>4. ASSUME NEW x \in Robots, Fits(b, x) PROVE far <= Far(b, x)
    <3>1. CASE x = r
      BY <1>6, <2>1, <3>1
    <3>2. CASE x # r
      <4>1. Fits(a, x) /\ Far(b, x) = Far(a, x)
        BY <1>5, <2>4, <3>2
      <4>2. a.best # NoCandidate /\ a.best.dist <= Far(a, x)
        BY <4>1 DEF Closest
      <4>3. far < a.best.dist /\ a.best.dist \in Nat
        BY <1>8, <1>13, <4>2 DEF Closer, Candidate
      <4>4. Far(a, x) \in Nat
        BY <4>1, OneDistance DEF Fits, Far
      <4> QED
        BY <2>1, <4>1, <4>2, <4>3, <4>4
    <3> QED
      BY <3>1, <3>2
  <2>5. b \in Allocs
    BY <1>1, <1>2, <2>3 DEF Allocs, m
  <2>6. Closest(b)
    <3>1. b.best # NoCandidate /\ b.best.robot = r /\ b.best.node = m.node /\ b.best.dist = far
      BY <2>2, <2>3, NullCandidate
    <3>2. /\ Fits(b, b.best.robot) /\ b.best.node = b.read[b.best.robot].node
          /\ b.best.dist = Far(b, b.best.robot)
          /\ \A x \in Robots : Fits(b, x) => b.best.dist <= Far(b, x)
      BY <1>3, <1>6, <1>13, <2>4, <3>1
    <3> QED
      BY <3>1, <3>2 DEF Closest
  <2> QED
    BY <1>3, <2>5, <2>6 DEF KeysToRead, Allocs
<1>14. CASE ~(Fits(b, r) /\ Closer(far, a.best))
  <2>1. b.best = a.best
    BY <1>3, <1>14, <1>11, <1>12
  <2>2. CASE a.best = NoCandidate
    <3>1. ~Fits(b, r)
      BY <1>14, <2>2 DEF Closer
    <3> QED
      BY <1>1, <1>2, <1>3, <1>5, <2>1, <2>2, <3>1 DEF Closest, KeysToRead, Allocs, m
  <2>3. CASE a.best # NoCandidate
    <3>1. ASSUME Fits(b, r) PROVE a.best.dist <= far
      <4>1. far \in Nat
        BY <1>10, <3>1
      <4> QED
        BY <1>8, <1>14, <2>3, <3>1, <4>1 DEF Closer, Candidate
    <3>2. Closest(b)
      BY <1>3, <1>5, <1>6, <1>8, <2>1, <2>3, <3>1 DEF Closest
    <3>3. b \in Allocs /\ KeysToRead(b, snap)
      BY <1>1, <1>2, <1>3, <2>1 DEF KeysToRead, Allocs, m
    <3> QED
      BY <3>2, <3>3
  <2> QED
    BY <2>2, <2>3
<1> QED
  BY <1>13, <1>14
-------------------------------------------------------------------------------
(* What the fleet manager does between the reads. *)

\* A stored state is replaced and never removed.
LEMMA SnapshotsStay ==
  ASSUME IInv, [Next]_vars, NEW r \in Robots, snap[r] # NoSnap
  PROVE  snap'[r] # NoSnap
<1>1. ASSUME NEW x \in Robots, NEW s \in Slots, task[x][s].pc = "store",
             snap' = [snap EXCEPT ![x] = task[x][s].msg]
      PROVE  snap'[r] # NoSnap
  <2>1. task[x][s].msg \in States
    BY <1>1, TaskCases DEF IInv, TypeOK, Tasks
  <2> QED
    BY <1>1, <2>1, SnapCases DEF IInv, TypeOK
<1>2. CASE UNCHANGED snap
  BY <1>2
<1>3. ASSUME NEW q \in Reqs, NEW p \in Posts,
             \/ PostOrder(q, p[1], p[2], p[3], p[4])
             \/ PostFails(q, p[1], p[2], p[3], p[4])
      PROVE  UNCHANGED snap
  BY <1>3 DEF PostOrder, PostFails
<1>4. ASSUME NEW q \in Reqs, PublishOrder(q) \/ PublishFails(q) PROVE UNCHANGED snap
  BY <1>4 DEF PublishOrder, PublishFails, redis
<1>5. ASSUME NEW x \in Robots, NEW s \in Slots,
             \/ SpawnTelemetryTask(x, s) \/ ReadSnapshot(x, s)
             \/ ReleaseOldNode(x, s) \/ TouchHeartbeat(x, s)
      PROVE  UNCHANGED snap
  BY <1>5 DEF SpawnTelemetryTask, ReadSnapshot, ReleaseOldNode, TouchHeartbeat, redis
<1>6. ASSUME NEW x \in Robots, NEW s \in Slots, StoreSnapshot(x, s) \/ TelemetryFails(x, s)
      PROVE  snap'[r] # NoSnap
  BY <1>1, <1>2, <1>6 DEF StoreSnapshot, TelemetryFails
<1>7. ASSUME NEW x \in Robots, RobotStep(x) \/ LoseOrder(x) PROVE UNCHANGED snap
  BY <1>7 DEF RobotStep, TakeOrder, Advance, Finish, LoseOrder, redis
<1>8. Tick \/ CoreRestart \/ UNCHANGED vars => UNCHANGED snap
  BY DEF Tick, CoreRestart, vars, redis
<1> QED
  BY <1>2, <1>3, <1>4, <1>5, <1>6, <1>7, <1>8 DEF Next, FaultStep, TelemetryStep

\* What Dispatch writes is no allocation, and leaves the other requests alone.
LEMMA DispatchEnds ==
  ASSUME TypeOK, NEW q \in Reqs, NEW r, NEW start, NEW target, NEW ttl,
         Dispatch(q, r, start, target, ttl)
  PROVE  /\ req'[q].pc # "allocating"
         /\ \A x \in Reqs \ {q} : req'[x] = req[x]
BY DEF Dispatch, Closed, TypeOK

\* No step of the fleet manager begins an allocation.
LEMMA NoneAllocates ==
  ASSUME IInv, [Next]_vars, NEW q \in Reqs, req'[q].pc = "allocating"
  PROVE  req[q].pc = "allocating"
<1>1. ASSUME NEW x \in Reqs, NEW p \in Posts, PostOrder(x, p[1], p[2], p[3], p[4])
      PROVE  req[q].pc = "allocating"
  BY <1>1, DispatchEnds DEF PostOrder, IInv
<1>2. ASSUME NEW x \in Reqs, NEW p \in Posts, PostFails(x, p[1], p[2], p[3], p[4])
      PROVE  req[q].pc = "allocating"
  BY <1>2 DEF PostFails, DispatchFails, Closed, IInv, TypeOK
<1>3. ASSUME NEW x \in Reqs, PublishFails(x) PROVE req[q].pc = "allocating"
  BY <1>3 DEF PublishFails, Closed, IInv, TypeOK
<1>4. ASSUME NEW x \in Reqs, PublishOrder(x) PROVE req[q].pc = "allocating"
  <2>1. req[x] \in Requests
    BY <1>4, RequestCases DEF PublishOrder, IInv, TypeOK
  <2>2. req'[x].pc = "accepted" /\ \A y \in Reqs \ {x} : req'[y] = req[y]
    BY <1>4, <2>1 DEF PublishOrder, Requests, IInv, TypeOK
  <2> QED
    BY <2>2
<1>5. ASSUME NEW x \in Robots, NEW s \in Slots,
             \/ SpawnTelemetryTask(x, s) \/ TelemetryStep(x, s) \/ TelemetryFails(x, s)
      PROVE  UNCHANGED req
  BY <1>5 DEF SpawnTelemetryTask, TelemetryStep, ReadSnapshot, ReleaseOldNode,
              StoreSnapshot, TouchHeartbeat, TelemetryFails
<1>6. ASSUME NEW x \in Robots, RobotStep(x) \/ LoseOrder(x) PROVE UNCHANGED req
  BY <1>6 DEF RobotStep, TakeOrder, Advance, Finish, LoseOrder
<1>7. CASE CoreRestart
  BY <1>7 DEF CoreRestart, Closed, IInv, TypeOK
<1>8. Tick \/ UNCHANGED vars => UNCHANGED req
  BY DEF Tick, vars
<1> QED
  BY <1>1, <1>2, <1>3, <1>4, <1>5, <1>6, <1>7, <1>8 DEF Next, FaultStep
-------------------------------------------------------------------------------
(* The actions of the allocator. *)

LEMMA InitAllocInv == AllocInit => AllocInv
BY InitIInv DEF AllocInit, AllocInv, Init, Closed

\* Request q is not allocating any more, and the states are as they were.
LEMMA AllocationEnds ==
  ASSUME AllocInv, IInv', NEW q \in Reqs, UNCHANGED snap,
         req'[q].pc # "allocating", \A x \in Reqs \ {q} : req'[x] = req[x],
         alloc' = [alloc EXCEPT ![q] = NoAlloc]
  PROVE  AllocInv'
<1>1. alloc' \in [Reqs -> Allocs \cup {NoAlloc}]
  BY DEF AllocInv
<1>2. ASSUME NEW x \in Reqs, req'[x].pc = "allocating"
      PROVE  alloc'[x] \in Allocs /\ KeysToRead(alloc'[x], snap') /\ Closest(alloc'[x])
  <2>1. x # q /\ alloc'[x] = alloc[x] /\ req[x].pc = "allocating"
    BY <1>2 DEF AllocInv
  <2> QED
    BY <2>1 DEF AllocInv
<1> QED
  BY <1>1, <1>2 DEF AllocInv

LEMMA PostTaskStep ==
  ASSUME AllocInv, NEW q \in Reqs, NEW t \in Transports, PostTask(q, t[1], t[2])
  PROVE  AllocInv'
<1> DEFINE keys == {r \in Robots : snap[r] # NoSnap}
           a == [from |-> t[1], to |-> t[2], keys |-> keys, best |-> NoCandidate,
                 read |-> [r \in Robots |-> NoSnap]]
<1>1. TypeOK /\ IInv /\ req[q].pc = "new"
  BY DEF AllocInv, IInv, PostTask
<1>2. PICK status \in Statuses : req' = [req EXCEPT ![q] = Closed(status)]
  BY DEF PostTask, Statuses
<1>3. IInv'
  <2>1. Closed(status) \in {Closed(x) : x \in Statuses}
    OBVIOUS
  <2>2. /\ lock' \in Table /\ left' \in [Reqs -> Nat] /\ faults' \in 0..MaxFaults
        /\ UNCHANGED <<snap, beat, task, inbox, robots>>
    BY <1>1, FaultType DEF PostTask, redis, TypeOK
  <2> QED
    BY <1>1, <1>2, <2>1, <2>2, RequestStep
<1>4. UNCHANGED snap
  BY DEF PostTask, redis
<1>5. CASE UNCHANGED alloc /\ req' = [req EXCEPT ![q] = Closed("unavailable")]
  <2>1. \A x \in Reqs : req'[x].pc = "allocating" => req[x].pc = "allocating"
    BY <1>1, <1>5 DEF TypeOK, Closed
  <2> QED
    BY <1>3, <1>4, <1>5, <2>1 DEF AllocInv
<1>6. CASE req' = [req EXCEPT ![q] = Closed("allocating")] /\ alloc' = [alloc EXCEPT ![q] = a]
  <2>1. a \in Allocs
    BY TransportsAssumption DEF Allocs
  <2>2. alloc' \in [Reqs -> Allocs \cup {NoAlloc}]
    BY <1>6, <2>1 DEF AllocInv
  <2>3. KeysToRead(a, snap') /\ Closest(a)
    BY <1>4 DEF KeysToRead, Closest, Fits
  <2>4. alloc'[q] = a /\ \A x \in Reqs \ {q} : alloc'[x] = alloc[x] /\ req'[x] = req[x]
    BY <1>1, <1>6 DEF AllocInv, TypeOK
  <2> HIDE DEF a
  <2>5. ASSUME NEW x \in Reqs, req'[x].pc = "allocating"
        PROVE  alloc'[x] \in Allocs /\ KeysToRead(alloc'[x], snap') /\ Closest(alloc'[x])
    <3>1. CASE x = q
      BY <2>1, <2>3, <2>4, <3>1
    <3>2. CASE x # q
      <4>1. alloc'[x] = alloc[x] /\ req[x].pc = "allocating"
        BY <2>4, <2>5, <3>2
      <4> QED
        BY <1>4, <4>1 DEF AllocInv
    <3> QED
      BY <3>1, <3>2
  <2> QED
    BY <1>3, <2>2, <2>5 DEF AllocInv
<1> QED
  BY <1>5, <1>6 DEF PostTask

LEMMA EvaluateStep ==
  ASSUME AllocInv, NEW q \in Reqs, NEW r \in Robots, EvaluateCandidate(q, r)
  PROVE  AllocInv'
<1> DEFINE a == alloc[q]
           b == [from |-> a.from, to |-> a.to, keys |-> a.keys \ {r},
                 best |-> Best(a, r, snap[r]), read |-> [a.read EXCEPT ![r] = snap[r]]]
<1>1. /\ TypeOK /\ a \in Allocs /\ r \in a.keys /\ KeysToRead(a, snap) /\ Closest(a)
      /\ UNCHANGED vars
  BY DEF AllocInv, IInv, EvaluateCandidate
<1>2. b \in Allocs /\ KeysToRead(b, snap) /\ Closest(b)
  BY <1>1, BestIsClosest
<1>3. /\ alloc' = [x \in Reqs |-> alloc'[x]]
      /\ alloc'[q] = b /\ \A x \in Reqs \ {q} : alloc'[x] = alloc[x]
  <2>1. q \in DOMAIN alloc /\ a = alloc[q]
    BY DEF AllocInv
  <2>2. alloc' = [alloc EXCEPT ![q].keys = @ \ {r}, ![q].best = Best(a, r, snap[r]),
                               ![q].read[r] = snap[r]]
    BY DEF EvaluateCandidate
  <2>3. /\ alloc' = [x \in Reqs |-> alloc'[x]]
        /\ \A x \in Reqs \ {q} : alloc'[x] = alloc[x]
    BY <2>2 DEF AllocInv
  <2>4. alloc'[q] = [a EXCEPT !.keys = @ \ {r}, !.best = Best(a, r, snap[r]), !.read[r] = snap[r]]
    BY <2>1, <2>2
  <2>5. alloc'[q] = b
    BY <1>1, <2>4 DEF Allocs
  <2> QED
    BY <2>3, <2>5
<1>4. IInv'
  BY <1>1, NextIInv DEF AllocInv
<1>5. alloc' \in [Reqs -> Allocs \cup {NoAlloc}]
  BY <1>2, <1>3 DEF AllocInv
<1>6. snap' = snap /\ req' = req
  BY <1>1 DEF vars, redis
<1> HIDE DEF a, b
<1>7. ASSUME NEW x \in Reqs, req'[x].pc = "allocating"
      PROVE  alloc'[x] \in Allocs /\ KeysToRead(alloc'[x], snap') /\ Closest(alloc'[x])
  <2>1. CASE x = q
    BY <1>2, <1>3, <1>6, <2>1
  <2>2. CASE x # q
    BY <1>3, <1>6, <1>7, <2>2 DEF AllocInv
  <2> QED
    BY <2>1, <2>2
<1> QED
  BY <1>4, <1>5, <1>7 DEF AllocInv

\* What the candidate of an allocation that is dispatched is worth.
LEMMA BestType ==
  ASSUME AllocInv, NEW q \in Reqs, req[q].pc = "allocating", alloc[q].best # NoCandidate
  PROVE  /\ alloc[q].best.robot \in Robots /\ alloc[q].best.node \in Nodes
         /\ alloc[q].to \in Nodes
BY DEF AllocInv, Allocs, Candidate

LEMMA DispatchBestStep ==
  ASSUME AllocInv, NEW q \in Reqs, DispatchBest(q)
  PROVE  AllocInv'
<1> DEFINE best == alloc[q].best
<1>1. /\ IInv /\ TypeOK /\ req[q].pc = "allocating"
      /\ UNCHANGED <<snap, beat, task, inbox, robots, faults>>
      /\ alloc' = [alloc EXCEPT ![q] = NoAlloc]
  BY DEF AllocInv, IInv, DispatchBest
<1>2. CASE best = NoCandidate
  <2>1. req' = [req EXCEPT ![q] = Closed("unavailable")] /\ UNCHANGED <<lock, left>>
    BY <1>2 DEF DispatchBest
  <2>2. Closed("unavailable") \in {Closed(x) : x \in Statuses}
    BY DEF Statuses
  <2>3. lock' \in Table /\ left' \in [Reqs -> Nat] /\ faults' \in 0..MaxFaults
    BY <1>1, <2>1 DEF TypeOK
  <2>4. IInv'
    BY <1>1, <2>1, <2>2, <2>3, RequestStep
  <2>5. req'[q].pc # "allocating" /\ \A x \in Reqs \ {q} : req'[x] = req[x]
    BY <1>1, <2>1 DEF TypeOK, Closed
  <2> QED
    BY <1>1, <2>4, <2>5, AllocationEnds
<1>3. CASE best # NoCandidate
  <2>1. Dispatch(q, best.robot, best.node, alloc[q].to, TaskTtl) /\ best.robot \in Robots
    BY <1>1, <1>3, BestType DEF DispatchBest
  <2>2. TaskTtl \in Nat
    BY AllocatorAssumption
  <2>3. /\ lock' \in Table /\ left' \in [Reqs -> Nat]
        /\ \E c \in Requests \cup {Closed(status) : status \in Statuses} :
             c.pc # "accepted" /\ req' = [req EXCEPT ![q] = c]
    BY <1>1, <2>1, <2>2, DispatchType
  <2>4. faults' \in 0..MaxFaults
    BY <1>1 DEF TypeOK
  <2>5. IInv'
    BY <1>1, <2>3, <2>4, RequestStep
  <2>6. req'[q].pc # "allocating" /\ \A x \in Reqs \ {q} : req'[x] = req[x]
    BY <1>1, <2>1, DispatchEnds
  <2> QED
    BY <1>1, <2>5, <2>6, AllocationEnds
<1> QED
  BY <1>2, <1>3

LEMMA AllocationFailsStep ==
  ASSUME AllocInv, NEW q \in Reqs, AllocationFails(q)
  PROVE  AllocInv'
<1> DEFINE best == alloc[q].best
<1>1. /\ IInv /\ TypeOK /\ req[q].pc = "allocating" /\ Fault
      /\ UNCHANGED <<snap, beat, task, inbox, robots>>
      /\ alloc' = [alloc EXCEPT ![q] = NoAlloc]
  BY DEF AllocInv, IInv, AllocationFails, DispatchFails
<1>2. /\ left' \in [Reqs -> Nat] /\ faults' \in 0..MaxFaults
      /\ \E status \in Statuses : status # "allocating" /\ req' = [req EXCEPT ![q] = Closed(status)]
  BY <1>1, FaultType DEF AllocationFails, DispatchFails, TypeOK, Statuses
<1>3. lock' \in Table
  <2>1. CASE UNCHANGED lock
    BY <1>1, <2>1 DEF TypeOK
  <2>2. CASE best # NoCandidate /\ DispatchFails(q, best.robot, best.node, alloc[q].to, TaskTtl)
    <3>1. best.robot \in Robots /\ TaskTtl \in Nat
      BY <1>1, <2>2, BestType, AllocatorAssumption
    <3> HIDE DEF best
    <3> QED
      BY <1>1, <2>2, <3>1, ReserveType, RobotsAssumption DEF DispatchFails, TypeOK
  <2> QED
    BY <2>1, <2>2 DEF AllocationFails
<1>4. PICK status \in Statuses :
        status # "allocating" /\ req' = [req EXCEPT ![q] = Closed(status)]
  BY <1>2
<1>5. IInv'
  <2>1. Closed(status) \in {Closed(x) : x \in Statuses}
    OBVIOUS
  <2> QED
    BY <1>1, <1>2, <1>3, <1>4, <2>1, RequestStep
<1>6. req'[q].pc # "allocating" /\ \A x \in Reqs \ {q} : req'[x] = req[x]
  BY <1>1, <1>4 DEF TypeOK, Closed
<1> QED
  BY <1>1, <1>5, <1>6, AllocationEnds

LEMMA FleetStepKeeps == AllocInv /\ FleetStep => AllocInv'
<1> SUFFICES ASSUME AllocInv, FleetStep PROVE AllocInv'
  OBVIOUS
<1>1. IInv /\ [Next]_vars /\ IInv'
  BY NextIInv DEF AllocInv, FleetStep
<1>2. alloc' \in [Reqs -> Allocs \cup {NoAlloc}]
  BY DEF AllocInv, FleetStep
<1>3. ASSUME NEW x \in Reqs, req'[x].pc = "allocating"
      PROVE  alloc'[x] \in Allocs /\ KeysToRead(alloc'[x], snap') /\ Closest(alloc'[x])
  <2>1. req[x].pc = "allocating" /\ alloc'[x] = alloc[x]
    BY <1>1, <1>3, NoneAllocates DEF FleetStep
  <2>2. alloc[x] \in Allocs /\ KeysToRead(alloc[x], snap) /\ Closest(alloc[x])
    BY <2>1 DEF AllocInv
  <2>3. KeysToRead(alloc[x], snap')
    BY <1>1, <2>2, SnapshotsStay DEF KeysToRead, Allocs
  <2> QED
    BY <2>1, <2>2, <2>3
<1> QED
  BY <1>1, <1>2, <1>3 DEF AllocInv
-------------------------------------------------------------------------------
LEMMA NextAllocInv == AllocInv /\ [AllocNext]_avars => AllocInv'
<1> SUFFICES ASSUME AllocInv, [AllocNext]_avars PROVE AllocInv'
  OBVIOUS
<1>1. ASSUME NEW q \in Reqs, NEW t \in Transports, PostTask(q, t[1], t[2]) PROVE AllocInv'
  BY <1>1, PostTaskStep
<1>2. ASSUME NEW q \in Reqs, NEW r \in Robots, EvaluateCandidate(q, r) PROVE AllocInv'
  BY <1>2, EvaluateStep
<1>3. ASSUME NEW q \in Reqs, DispatchBest(q) \/ AllocationFails(q) PROVE AllocInv'
  BY <1>3, DispatchBestStep, AllocationFailsStep
<1>4. CASE FleetStep
  BY <1>4, FleetStepKeeps
<1>5. CASE UNCHANGED avars
  <2>1. UNCHANGED vars /\ UNCHANGED alloc
    BY <1>5 DEF avars
  <2>2. IInv'
    BY <2>1, NextIInv DEF AllocInv
  <2>3. UNCHANGED snap /\ UNCHANGED req
    BY <2>1 DEF vars, redis
  <2> QED
    BY <2>1, <2>2, <2>3 DEF AllocInv
<1> QED
  BY <1>1, <1>2, <1>3, <1>4, <1>5 DEF AllocNext

\* The allocations keep their types while the whole fleet manager runs between
\* their reads, and with them every variable of the fleet manager.
THEOREM AllocTypeCorrect == AllocSpec => []AllocTypeOK
<1>1. AllocInv => AllocTypeOK
  BY DEF AllocInv, AllocTypeOK, IInv
<1> QED
  BY <1>1, InitAllocInv, NextAllocInv, PTL DEF AllocSpec

\* Of the states read so far the candidate's shows the closest available robot,
\* in whatever order the keys are read.
THEOREM ClosestIsChosen == AllocSpec => []ClosestChosen
<1>1. AllocInv => ClosestChosen
  BY DEF AllocInv, Closest, Fits, Far, ClosestChosen
<1> QED
  BY <1>1, InitAllocInv, NextAllocInv, PTL DEF AllocSpec
-------------------------------------------------------------------------------
(* What the fleet manager promises it keeps when tasks are allocated too. *)

\* The orders of the allocator, and all there are.
TaskOrders == Robots \X Nodes \X Nodes \X {TaskTtl}

AllOrders == Posts \cup TaskOrders

LEMMA AllAreOrders == AllOrders \in SUBSET Orders
BY PostsAssumption, AllocatorAssumption DEF AllOrders, TaskOrders, Orders

\* A request without a path counts on no leases.
LEMMA NothingGranted ==
  ASSUME IInv, NEW P, GrantKnown(P), NEW q \in Reqs, req[q].pc \in {"new", "allocating"}
  PROVE  left[q] = 0
<1>1. left[q] \in Nat
  BY DEF IInv, TypeOK
<1>2. req[q] \notin Requests
  BY DEF Requests
<1> QED
  BY <1>1, <1>2 DEF GrantKnown

\* A task that is refused, or whose robots are to be read, changes no lease.
LEMMA PostTaskKeeps ==
  ASSUME IInv, NEW P, GrantKnown(P), NEW q \in Reqs, NEW from, NEW to, PostTask(q, from, to)
  PROVE  Keeps
<1>1. req[q].pc = "new" /\ UNCHANGED <<lock, left>>
  BY DEF PostTask, redis
<1>2. \A x \in Reqs \ {q} : req'[x] = req[x]
  BY DEF PostTask, IInv, TypeOK
<1>3. left[q] = 0
  BY <1>1, NothingGranted
<1> QED
  BY <1>1, <1>2, <1>3 DEF Keeps, SameOrder

LEMMA AllocatedCases ==
  ASSUME AllocInv, NEW q \in Reqs, req[q].pc = "allocating", UNCHANGED <<snap, task, at>>,
         alloc[q].best # NoCandidate,
         LET best == alloc[q].best
         IN  \/ Dispatch(q, best.robot, best.node, alloc[q].to, TaskTtl)
             \/ DispatchFails(q, best.robot, best.node, alloc[q].to, TaskTtl)
  PROVE  LeaseStep(AllOrders)
<1> DEFINE best == alloc[q].best
           p == <<best.robot, best.node, alloc[q].to, TaskTtl>>
<1>1. p \in AllOrders
  BY BestType DEF AllOrders, TaskOrders
<1>2. Refuses(q, p) \/ \E route \in Routes : Grants(q, p, route)
  <2>1. IInv
    BY DEF AllocInv
  <2>2. /\ p[1] = best.robot /\ p[2] = best.node /\ p[3] = alloc[q].to /\ p[4] = TaskTtl
    OBVIOUS
  <2>3. Dispatch(q, p[1], p[2], p[3], p[4]) \/ DispatchFails(q, p[1], p[2], p[3], p[4])
    BY <2>2
  <2> HIDE DEF p
  <2> QED
    BY <2>1, <2>3, DispatchCases, DispatchFailsCases
<1> HIDE DEF p
<1> QED
  BY <1>1, <1>2 DEF LeaseStep

\* A task without a candidate is closed and changes no lease.
LEMMA NoCandidateKeeps ==
  ASSUME IInv, NEW P, GrantKnown(P), NEW q \in Reqs, req[q].pc = "allocating",
         UNCHANGED <<lock, left>>, req' = [req EXCEPT ![q] = Closed("unavailable")]
  PROVE  Keeps
<1>1. left[q] = 0
  BY NothingGranted
<1>2. \A x \in Reqs \ {q} : req'[x] = req[x]
  BY DEF IInv, TypeOK
<1> QED
  BY <1>1, <1>2 DEF Keeps, SameOrder

LEMMA AllocLeaseStep ==
  ASSUME AllocInv, GrantKnown(AllOrders), [AllocNext]_avars
  PROVE  LeaseStep(AllOrders)
<1>1. IInv /\ Posts \subseteq AllOrders
  BY DEF AllocInv, AllOrders
<1>2. CASE [Next]_vars
  BY <1>1, <1>2, StepCases
<1>3. ASSUME NEW q \in Reqs, NEW t \in Transports, PostTask(q, t[1], t[2])
      PROVE  LeaseStep(AllOrders)
  BY <1>1, <1>3, PostTaskKeeps DEF LeaseStep
<1>4. ASSUME NEW q \in Reqs, DispatchBest(q) \/ AllocationFails(q)
      PROVE  LeaseStep(AllOrders)
  <2>1. req[q].pc = "allocating" /\ UNCHANGED <<snap, task, at>>
    BY <1>4 DEF DispatchBest, AllocationFails, robots
  <2>2. CASE UNCHANGED <<lock, left>> /\ req' = [req EXCEPT ![q] = Closed("unavailable")]
    BY <1>1, <2>1, <2>2, NoCandidateKeeps DEF LeaseStep
  <2> QED
    BY <1>4, <2>1, <2>2, AllocatedCases DEF DispatchBest, AllocationFails
<1> QED
  BY <1>2, <1>3, <1>4 DEF AllocNext, FleetStep, EvaluateCandidate, avars

\* To the fleet manager's tasks and robots the allocator does nothing.
LEMMA AllocMoves ==
  ASSUME Acyclic, AllocInv, [AllocNext]_avars
  PROVE  IInv' /\ TelemetryMoves /\ DrivesForward
<1>1. IInv /\ IInv'
  BY NextAllocInv DEF AllocInv
<1>2. CASE [Next]_vars
  BY <1>1, <1>2, TelemetryCases, Forward
<1>3. CASE UNCHANGED <<snap, task, at, seq>>
  <2>1. TelemetryMoves
    BY <1>3, NothingLearnt
  <2>2. \A r \in Robots : seq[r] \in Nat
    BY <1>1 DEF IInv, TypeOK
  <2> QED
    BY <1>1, <1>3, <2>1, <2>2 DEF DrivesForward, NotPast
<1> QED
  BY <1>2, <1>3 DEF AllocNext, FleetStep, EvaluateCandidate, PostTask, DispatchBest,
     AllocationFails, redis, robots, avars

LEMMA AllocFleetMoves ==
  ASSUME Acyclic, AllocInv, GrantKnown(AllOrders), [AllocNext]_avars
  PROVE  FleetMoves(AllOrders)
BY AllocMoves, AllocLeaseStep DEF FleetMoves

LEMMA InvariantAllocAhead ==
  ASSUME DistinctSerials, OneTtl(AllOrders), Acyclic
  PROVE  AllocSpec => [](AllocInv /\ AheadInv(AllOrders))
<1>1. AllocInit => AllocInv /\ AheadInv(AllOrders)
  BY InitAllocInv, InitAheadInv DEF AllocInit
<1>2. AllocInv /\ AheadInv(AllOrders) /\ [AllocNext]_avars
        => AllocInv' /\ AheadInv(AllOrders)'
  BY NextAllocInv, AllocFleetMoves, NextAheadInv, AllAreOrders DEF AheadInv
<1> QED
  BY <1>1, <1>2, PTL DEF AllocSpec

\* The nodes that a robot has still to reach stay leased to it, whether its order was
\* posted or allocated (fleet_manager.rs:63, task_allocator.rs:121).
THEOREM TasksKeepNodesAhead ==
  ASSUME DistinctSerials, OneTtl(AllOrders), Acyclic
  PROVE  AllocSpec => []NodesAheadKept
<1>1. AheadInv(AllOrders) => NodesAheadKept
  BY AheadIsKept
<1> QED
  BY <1>1, InvariantAllocAhead, PTL

\* Of a path granted to a task or a post nothing is lost before its time but the node
\* under the robot, and that only to a telemetry task of this robot that was overtaken
\* (fleet_manager.rs:101, main.rs:122).
THEOREM TasksLoseGrantsToLateTasks ==
  ASSUME DistinctSerials, OneTtl(AllOrders), Acyclic
  PROVE  AllocSpec => GrantLostOnlyToLateTask
<1>1. AllocInv /\ AheadInv(AllOrders) /\ [AllocNext]_avars =>
        [\A q \in Reqs : left[q] > 0 /\ left'[q] > 0 =>
           \A n \in Ahead(q) : Leased(q, n) /\ ~Leased(q, n)' =>
             LET r == req[q].robot IN
             /\ n = at[r]
             /\ \E s \in Slots : Gives(r, s, n) /\ Overtaken(task[r][s])]_vars
  <2> SUFFICES ASSUME AllocInv, AheadInv(AllOrders), [AllocNext]_avars,
                      NEW q \in Reqs, left[q] > 0, left'[q] > 0,
                      NEW n \in Ahead(q), Leased(q, n), ~Leased(q, n)'
               PROVE  LET r == req[q].robot IN
                      /\ n = at[r]
                      /\ \E s \in Slots : Gives(r, s, n) /\ Overtaken(task[r][s])
    OBVIOUS
  <2>1. FleetMoves(AllOrders)
    BY AllocFleetMoves DEF AheadInv
  <2> QED
    BY <2>1, OnlyLateTasksTake, AllAreOrders
<1> QED
  BY <1>1, InvariantAllocAhead, PTL DEF GrantLostOnlyToLateTask, AllocSpec

\* So two robots that were sent by tasks or posts may rely on one node at a time only
\* where one of them stands (README.md:137).
THEOREM TasksMeetUnderRobots ==
  ASSUME DistinctSerials, OneTtl(AllOrders), Acyclic
  PROVE  AllocSpec => []ReservationsMeetUnderRobots
<1>1. AheadInv(AllOrders) => ReservationsMeetUnderRobots
  BY PathsMeetUnderRobots
<1> QED
  BY <1>1, InvariantAllocAhead, PTL

LEMMA AllocLeases ==
  ASSUME AllocInv, [AllocNext]_avars, NEW n \in Nodes, Lost(n)
  PROVE  LegallyLost(n)
<1>1. IInv /\ TypeOK
  BY DEF AllocInv, IInv
<1>2. CASE [Next]_vars
  BY <1>1, <1>2, NextLeases
<1>3. CASE UNCHANGED lock
  BY <1>3 DEF Lost
<1>4. ASSUME NEW q \in Reqs, DispatchBest(q) \/ AllocationFails(q)
      PROVE  FALSE
  BY <1>1, <1>3, <1>4, ReserveTakesNothing
     DEF DispatchBest, AllocationFails, Dispatch, DispatchFails, Lost
<1> QED
  BY <1>2, <1>3, <1>4 DEF AllocNext, FleetStep, EvaluateCandidate, PostTask, redis, avars

\* An allocation takes no lease from anyone: a lease is lost only by running out or to
\* its own robot's telemetry (fleet_manager.rs:182, 215).
THEOREM TasksStealNoLease == AllocSpec => LeaseLostOnlyToOwnerOrTime
<1>1. AllocInv /\ [AllocNext]_avars =>
        [\A n \in Nodes :
           lock'[n].owner # lock[n].owner /\ lock[n] # NoLease =>
             \/ lock[n].ttl = 1 /\ lock' = Elapse(lock)
             \/ \E r \in Robots, s \in Slots :
                  Serial[r] = lock[n].owner /\ Gives(r, s, n)]_vars
  BY AllocLeases DEF Lost, LegallyLost
<1> QED
  BY <1>1, InitAllocInv, NextAllocInv, PTL DEF AllocSpec, LeaseLostOnlyToOwnerOrTime
===============================================================================
