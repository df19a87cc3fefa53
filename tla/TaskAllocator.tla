----------------------------- MODULE TaskAllocator -----------------------------
(***************************************************************************)
(* TaskAllocator::allocate_and_dispatch (task_allocator.rs) on top of the  *)
(* fleet manager.  A task names a node to start from and a node to go to;  *)
(* the allocator lists the stored robot states (KEYS), reads them one by   *)
(* one (GET), keeps the closest available robot, and dispatches it through *)
(* dispatch_order.  Every KEYS, GET and dispatch is an .await: telemetry,  *)
(* other requests and the robots move between them.                        *)
(***************************************************************************)
EXTENDS FleetManager

CONSTANTS
  Distance,   \* total_distance_m of each route
  Transports, \* the tasks clients post: from_node and to_node
  TaskTtl,    \* the 60 seconds for which a task's path is reserved, in ticks
  NoRobot     \* no candidate yet

\* find_path answers one length for given ends, though there may be several routes.
ASSUME DistanceAssumption ==
  /\ Distance \in [Routes -> Nat]
  /\ \A p1, p2 \in Routes : p1[1] = p2[1] /\ Last(p1) = Last(p2) => Distance[p1] = Distance[p2]
ASSUME TransportsAssumption == Transports \subseteq Nodes \X Nodes
ASSUME AllocatorAssumption == TaskTtl \in Nat /\ NoRobot \notin Robots

VARIABLE
  alloc   \* the local variables of each allocation, and the states it has read

avars == <<vars, alloc>>

NoAlloc == [from |-> NoNode]

Candidate == [robot : Robots, node : Nodes, dist : Nat]

NoCandidate == [robot |-> NoRobot]

Allocs == [from : Nodes, to : Nodes, keys : SUBSET Robots,
           best : Candidate \cup {NoCandidate},
           read : [Robots -> States \cup {NoSnap}]]

AllocInit == Init /\ alloc = [q \in Reqs |-> NoAlloc]

\* The distances find_path gives from a to b: one, or none if there is no route.
Distances(a, b) == {Distance[route] : route \in Route(a, b)}

\* battery >= 20, not driving, no order, at a node.
Available(state) ==
  /\ state.charge >= 20
  /\ ~state.driving /\ state.order = NoReq
  /\ state.node # NoNode

\* The KEYS command: it fails, it finds no stored state and the task is refused, or
\* the states it finds are to be read.
PostTask(q, from, to) ==
  /\ req[q].pc = "new"
  /\ \/ /\ Fault
        /\ req' = [req EXCEPT ![q] = Closed("unavailable")]
        /\ UNCHANGED alloc
     \/ /\ \A r \in Robots : snap[r] = NoSnap
        /\ req' = [req EXCEPT ![q] = Closed("unavailable")]
        /\ UNCHANGED <<alloc, faults>>
     \/ /\ \E r \in Robots : snap[r] # NoSnap
        /\ req' = [req EXCEPT ![q] = Closed("allocating")]
        /\ alloc' = [alloc EXCEPT ![q] =
                       [from |-> from, to |-> to,
                        keys |-> {r \in Robots : snap[r] # NoSnap},
                        best |-> NoCandidate, read |-> [r \in Robots |-> NoSnap]]]
        /\ UNCHANGED faults
  /\ UNCHANGED <<redis, task, inbox, robots, left>>

\* Mutant: the first available robot is taken.
FirstFound(dist, best) == best = NoCandidate

\* A candidate replaces the best one only if it is strictly closer.
Closer(dist, best) == best = NoCandidate \/ dist < best.dist

\* Mutant: an available robot without a route is at a distance of -1.
BestUnrouted(a, r, state) ==
  LET dists == IF ~Available(state) THEN {}
               ELSE IF Route(state.node, a.from) = {} THEN {0 - 1}
               ELSE Distances(state.node, a.from)
  IN  IF \E d \in dists : Closer(d, a.best)
      THEN [robot |-> r, node |-> state.node, dist |-> CHOOSE d \in dists : TRUE]
      ELSE a.best

\* The candidate after the state of r has been read.
Best(a, r, state) ==
  LET dists == IF Available(state) THEN Distances(state.node, a.from) ELSE {}
  IN  IF \E d \in dists : Closer(d, a.best)
      THEN [robot |-> r, node |-> state.node, dist |-> CHOOSE d \in dists : TRUE]
      ELSE a.best

\* One round of the loop: GET the state of r, check and compare it.
EvaluateCandidate(q, r) ==
  /\ req[q].pc = "allocating"
  /\ r \in alloc[q].keys
  /\ alloc' = [alloc EXCEPT ![q].keys = @ \ {r},
                            ![q].best = Best(alloc[q], r, snap[r]),
                            ![q].read[r] = snap[r]]
  /\ UNCHANGED vars

\* All states have been read: no candidate, or dispatch_order for the best one,
\* from the node it stood on when its state was read.
DispatchBest(q) ==
  /\ req[q].pc = "allocating" /\ alloc[q].keys = {}
  /\ LET best == alloc[q].best IN
     IF best = NoCandidate
     THEN req' = [req EXCEPT ![q] = Closed("unavailable")] /\ UNCHANGED <<lock, left>>
     ELSE Dispatch(q, best.robot, best.node, alloc[q].to, TaskTtl)
  /\ alloc' = [alloc EXCEPT ![q] = NoAlloc]
  /\ UNCHANGED <<snap, beat, task, inbox, robots, faults>>

\* A GET fails, or the reservation does.
AllocationFails(q) ==
  /\ req[q].pc = "allocating"
  /\ LET best == alloc[q].best IN
     \/ /\ alloc[q].keys # {}
        /\ Fault
        /\ req' = [req EXCEPT ![q] = Closed("unavailable")]
        /\ UNCHANGED <<lock, left>>
     \/ /\ alloc[q].keys = {} /\ best # NoCandidate
        /\ DispatchFails(q, best.robot, best.node, alloc[q].to, TaskTtl)
  /\ alloc' = [alloc EXCEPT ![q] = NoAlloc]
  /\ UNCHANGED <<snap, beat, task, inbox, robots>>

\* The rest of the system; a restart of the core ends the allocations.
FleetStep ==
  /\ Next
  /\ alloc' = [q \in Reqs |-> IF req'[q].pc = "allocating" THEN alloc[q] ELSE NoAlloc]

AllocNext ==
  \/ \E q \in Reqs :
       \/ \E t \in Transports : PostTask(q, t[1], t[2])
       \/ \E r \in Robots : EvaluateCandidate(q, r)
       \/ DispatchBest(q) \/ AllocationFails(q)
  \/ FleetStep

AllocSpec == AllocInit /\ [][AllocNext]_avars
-------------------------------------------------------------------------------
\* The allocations have their type.
AllocTypeOK == TypeOK /\ alloc \in [Reqs -> Allocs \cup {NoAlloc}]

\* task_allocator.rs:105 "Dispatch task to closest available candidate": of the
\* states read so far, whatever changed since, the candidate's shows an available
\* robot that can reach the task's node, and no other such robot is closer.
ClosestChosen ==
  \A q \in Reqs : req[q].pc = "allocating" =>
    LET a == alloc[q]
        Fit(r) == /\ a.read[r] # NoSnap /\ Available(a.read[r])
                  /\ Route(a.read[r].node, a.from) # {}
        dist(r) == CHOOSE d \in Distances(a.read[r].node, a.from) : TRUE
    IN  IF a.best = NoCandidate THEN ~\E r \in Robots : Fit(r)
        ELSE /\ Fit(a.best.robot) /\ a.best.node = a.read[a.best.robot].node
             /\ \A r \in Robots : Fit(r) => dist(a.best.robot) <= dist(r)

\* A step in which the allocator obtains the path of request q.
Allocates(q) == req[q].pc = "allocating" /\ req'[q].pc = "publish"

\* task_allocator.rs:75 "must not be driving or executing an active order": a task
\* goes to a robot that has no order, neither current nor on its way.
AssignsIdleRobot ==
  [][\A q \in Reqs : Allocates(q) =>
       LET r == req'[q].robot IN
       /\ order[r] = NoReq /\ inbox[r] = <<>>
       /\ ~\E p \in Reqs : req[p].pc = "publish" /\ req[p].robot = r]_avars
===============================================================================
