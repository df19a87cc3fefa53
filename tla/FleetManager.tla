----------------------------- MODULE FleetManager -----------------------------
(***************************************************************************)
(* The core of the fleet manager: orders posted over REST (api.rs) are     *)
(* routed, their paths reserved in Redis and the orders published over     *)
(* Zenoh (fleet_manager.rs, dispatch_order); every state a robot publishes *)
(* is handled by a telemetry task of its own (main.rs) that releases the   *)
(* node the robot left, stores the state and touches the heartbeat         *)
(* (fleet_manager.rs, update_robot_state).  Each .await on Redis or Zenoh  *)
(* ends an action: the tasks of all robots and all requests interleave     *)
(* there.  Robots are external: they take orders and report states.        *)
(***************************************************************************)
EXTENDS LeaseTable, Sequences

CONSTANTS
  Robots,        \* (manufacturer, serial number) pairs
  Serial,        \* the serial number of each robot
  Charge,        \* the battery charge each robot reports, in percent
  NoNode,        \* the empty lastNodeId of a robot that has reached no node
  Routes,        \* the node sequences find_path returns on this map
  Reqs, NoReq,   \* the requests of one behaviour, and none
  Slots,         \* BOUND: the telemetry tasks of one robot alive at a time
  Posts,         \* the requests clients post: robot, start, target and lock_ttl_secs
  Starts,        \* where the robots can be when the core starts
  HeartbeatTtl,  \* the 5 seconds of the heartbeat key, in ticks
  MaxFaults      \* BOUND: failed calls, lost messages, crashes per behaviour

Places == Nodes \cup {NoNode}

ASSUME RobotsAssumption == Serial \in [Robots -> Owners] /\ Charge \in [Robots -> Nat]
ASSUME NullsAssumption == NoNode \notin Nodes /\ NoReq \notin Reqs
ASSUME RoutesAssumption == Routes \subseteq Seq(Nodes) \ {<<>>}
ASSUME PostsAssumption == Posts \subseteq Robots \X Nodes \X Nodes \X Nat
ASSUME StartsAssumption == Starts \subseteq [Robots -> Places]
ASSUME BoundsAssumption == HeartbeatTtl \in Nat \ {0} /\ MaxFaults \in Nat

VARIABLES
  lock,    \* Redis: the lease keys
  snap,    \* Redis: hitkote:robot:<mfr>:<sn>:state, the last stored state
  beat,    \* Redis: the time to live of the heartbeat key, 0 when absent
  task,    \* core: the telemetry tasks
  req,     \* core: the HTTP requests
  inbox,   \* Zenoh: the orders on their way to each robot
  at, order, seq,  \* robots: last node, current order, number of the state
  left,    \* what a granted request may count on: the time left of its leases
  faults   \* the faults that have happened

redis == <<lock, snap, beat>>
robots == <<at, order, seq>>
vars == <<redis, task, req, inbox, robots, left, faults>>
-------------------------------------------------------------------------------
States == [seq : Nat, node : Places, order : Reqs \cup {NoReq},
           driving : BOOLEAN, charge : Nat]

NoSnap == [seq |-> 0]

NoTask == [pc |-> "none"]

\* msg is the state at hand, old the stored state it is compared with, as long as
\* the comparison lasts.
Tasks == [pc : {"read", "release", "store", "beat"}, msg : States,
          old : States \cup {NoSnap}]

\* A request without a reservation: not yet posted, waiting for TaskAllocator to
\* choose a robot, or answered with an error.
Closed(status) == [pc |-> status]

Statuses == {"new", "allocating", "noroute", "occupied", "failed", "unavailable"}

\* A request with a reservation: its order is to be published, or was.
Requests == [pc : {"publish", "accepted"}, robot : Robots, route : Routes, ttl : Nat]

NodesOf(route) == {route[i] : i \in DOMAIN route}

Last(route) == route[Len(route)]

\* The nodes of q's route that its robot has still to leave.
Ahead(q) ==
  LET route == req[q].route
      here == at[req[q].robot]
  IN  IF here = NoNode THEN NodesOf(route)
      ELSE {route[j] : j \in {k \in DOMAIN route :
                                \E i \in 1..k : route[i] = here}}

\* The state robot r would publish now.
State(r) ==
  [seq |-> seq[r], node |-> at[r], order |-> order[r],
   driving |-> order[r] # NoReq /\ at[r] # Last(req[order[r]].route),
   charge |-> Charge[r]]

Init ==
  /\ lock = [n \in Nodes |-> NoLease]
  /\ snap = [r \in Robots |-> NoSnap]
  /\ beat = [r \in Robots |-> 0]
  /\ task = [r \in Robots |-> [s \in Slots |-> NoTask]]
  /\ req = [q \in Reqs |-> Closed("new")]
  /\ inbox = [r \in Robots |-> <<>>]
  /\ at \in Starts
  /\ order = [r \in Robots |-> NoReq]
  /\ seq = [r \in Robots |-> 1]
  /\ left = [q \in Reqs |-> 0]
  /\ faults = 0

\* A call fails, a message is lost or a process stops, within the bound.
Fault == faults < MaxFaults /\ faults' = faults + 1
-------------------------------------------------------------------------------
(* The requests: dispatch_order_handler and FleetManager::dispatch_order. *)

Route(start, target) ==
  {route \in Routes : route[1] = start /\ Last(route) = target}

\* find_path, and try_reserve_path on the route it found: no route, a node of the
\* route occupied, a time to live Redis refuses, or the path is leased to the robot.
Dispatch(q, r, start, target, ttl) ==
  \/ /\ Route(start, target) = {}
     /\ req' = [req EXCEPT ![q] = Closed("noroute")]
     /\ UNCHANGED <<lock, left>>
  \/ \E route \in Route(start, target) :
       \/ /\ Occupied(lock, NodesOf(route), Serial[r])
          /\ req' = [req EXCEPT ![q] = Closed("occupied")]
          /\ UNCHANGED <<lock, left>>
       \/ /\ ~Occupied(lock, NodesOf(route), Serial[r]) /\ ~ValidTtl(ttl)
          /\ req' = [req EXCEPT ![q] = Closed("failed")]
          /\ UNCHANGED <<lock, left>>
       \/ /\ ~Occupied(lock, NodesOf(route), Serial[r]) /\ ValidTtl(ttl)
          /\ lock' = Reserve(lock, NodesOf(route), Serial[r], ttl)
          /\ left' = [left EXCEPT ![q] = ttl]
          /\ req' = [req EXCEPT ![q] = [pc |-> "publish", robot |-> r,
                                        route |-> route, ttl |-> ttl]]

PostOrder(q, r, start, target, ttl) ==
  /\ req[q].pc = "new"
  /\ Dispatch(q, r, start, target, ttl)
  /\ UNCHANGED <<snap, beat, task, inbox, robots, faults>>

\* The reservation fails on the connection, before or after Redis ran the script,
\* or the client hangs up and axum drops the handler at this .await.
DispatchFails(q, r, start, target, ttl) ==
  \E route \in Route(start, target) :
    /\ Fault
    /\ \/ UNCHANGED lock
       \/ /\ ~Occupied(lock, NodesOf(route), Serial[r]) /\ ValidTtl(ttl)
          /\ lock' = Reserve(lock, NodesOf(route), Serial[r], ttl)
    /\ req' = [req EXCEPT ![q] = Closed("failed")]
    /\ UNCHANGED left

PostFails(q, r, start, target, ttl) ==
  /\ req[q].pc = "new"
  /\ DispatchFails(q, r, start, target, ttl)
  /\ UNCHANGED <<snap, beat, task, inbox, robots>>

\* zenoh.put of the order; the request is answered 202.
PublishOrder(q) ==
  /\ req[q].pc = "publish"
  /\ inbox' = [inbox EXCEPT ![req[q].robot] = Append(@, q)]
  /\ req' = [req EXCEPT ![q].pc = "accepted"]
  /\ UNCHANGED <<redis, task, robots, left, faults>>

\* The put fails or the handler is dropped: nothing gives the leases back.
PublishFails(q) ==
  /\ req[q].pc = "publish"
  /\ Fault
  /\ req' = [req EXCEPT ![q] = Closed("failed")]
  /\ left' = [left EXCEPT ![q] = 0]
  /\ UNCHANGED <<redis, task, inbox, robots>>
-------------------------------------------------------------------------------
(* Telemetry: the listener of main.rs and FleetManager::update_robot_state. *)

\* The robot publishes its state, which is queued for the listener and then for the
\* runtime, in no order: from now on it is a task that has yet to take its first
\* step, however long that takes and wherever the robot drives in the meantime.
SpawnTelemetryTask(r, s) ==
  /\ task[r][s] = NoTask
  /\ task' = [task EXCEPT ![r][s] = [pc |-> "read", msg |-> State(r), old |-> NoSnap]]
  /\ UNCHANGED <<redis, req, inbox, robots, left, faults>>

\* Mutant: old_node is not compared with new_node.
MovedAlways(r, msg) ==
  /\ snap[r] # NoSnap
  /\ snap[r].node # NoNode

\* The stored state names a node, and not the one of the new state.
Moved(r, msg) ==
  /\ snap[r] # NoSnap
  /\ snap[r].node \notin {NoNode, msg.node}

\* Mutant: a state that shows no transition is not stored.
ReadSnapshotSkipsStore(r, s) ==
  /\ task[r][s].pc = "read"
  /\ task' = [task EXCEPT ![r][s] =
                IF Moved(r, @.msg)
                THEN [@ EXCEPT !.pc = "release", !.old = snap[r]]
                ELSE [@ EXCEPT !.pc = "beat"]]
  /\ UNCHANGED <<redis, req, inbox, robots, left, faults>>

\* get_robot_state: the previous state decides whether a node was left.
ReadSnapshot(r, s) ==
  /\ task[r][s].pc = "read"
  /\ task' = [task EXCEPT ![r][s] =
                IF Moved(r, @.msg)
                THEN [@ EXCEPT !.pc = "release", !.old = snap[r]]
                ELSE [@ EXCEPT !.pc = "store"]]
  /\ UNCHANGED <<redis, req, inbox, robots, left, faults>>

\* The comparison is over, the stored state it was made with forgotten.
Compared(t) == [t EXCEPT !.pc = "store", !.old = NoSnap]

\* Mutant: the new node is released in place of the old one.
ReleaseNewNode(r, s) ==
  /\ task[r][s].pc = "release"
  /\ lock' = Release(lock, {task[r][s].msg.node}, Serial[r])
  /\ task' = [task EXCEPT ![r][s] = Compared(@)]
  /\ UNCHANGED <<snap, beat, req, inbox, robots, left, faults>>

\* Mutant: a robot that left a node gives up all its leases.
ReleaseAll(r, s) ==
  /\ task[r][s].pc = "release"
  /\ lock' = Release(lock, Nodes, Serial[r])
  /\ task' = [task EXCEPT ![r][s] = Compared(@)]
  /\ UNCHANGED <<snap, beat, req, inbox, robots, left, faults>>

\* release_node_lock on the node that was left; its result is only logged.
ReleaseOldNode(r, s) ==
  /\ task[r][s].pc = "release"
  /\ lock' = Release(lock, {task[r][s].old.node}, Serial[r])
  /\ task' = [task EXCEPT ![r][s] = Compared(@)]
  /\ UNCHANGED <<snap, beat, req, inbox, robots, left, faults>>

\* Mutant: SET NX of the state key.
StoreOnce(r, s) ==
  /\ task[r][s].pc = "store"
  /\ snap' = [snap EXCEPT ![r] = IF @ = NoSnap THEN task[r][s].msg ELSE @]
  /\ task' = [task EXCEPT ![r][s].pc = "beat"]
  /\ UNCHANGED <<lock, beat, req, inbox, robots, left, faults>>

\* SET of the state key.
StoreSnapshot(r, s) ==
  /\ task[r][s].pc = "store"
  /\ snap' = [snap EXCEPT ![r] = task[r][s].msg]
  /\ task' = [task EXCEPT ![r][s].pc = "beat"]
  /\ UNCHANGED <<lock, beat, req, inbox, robots, left, faults>>

\* Mutant: the heartbeat renews the leases of its robot.
TouchAndRenew(r, s) ==
  /\ task[r][s].pc = "beat"
  /\ beat' = [beat EXCEPT ![r] = HeartbeatTtl]
  /\ lock' = Reserve(lock, {n \in Nodes : lock[n].owner = Serial[r]}, Serial[r], MaxTtl)
  /\ task' = [task EXCEPT ![r][s] = NoTask]
  /\ UNCHANGED <<snap, req, inbox, robots, left, faults>>

\* SETEX of the heartbeat key; the task is done.
TouchHeartbeat(r, s) ==
  /\ task[r][s].pc = "beat"
  /\ beat' = [beat EXCEPT ![r] = HeartbeatTtl]
  /\ task' = [task EXCEPT ![r][s] = NoTask]
  /\ UNCHANGED <<lock, snap, req, inbox, robots, left, faults>>

\* A Redis call of the task fails.  A failed read or release is skipped; a
\* failed SET, which Redis may have executed all the same, or SETEX ends the task.
TelemetryFails(r, s) ==
  /\ Fault
  /\ \/ /\ task[r][s].pc \in {"read", "release"}
        /\ task' = [task EXCEPT ![r][s] = Compared(@)]
        /\ UNCHANGED snap
     \/ /\ task[r][s].pc = "store"
        /\ task' = [task EXCEPT ![r][s] = NoTask]
        /\ snap' \in {snap, [snap EXCEPT ![r] = task[r][s].msg]}
     \/ /\ task[r][s].pc = "beat"
        /\ task' = [task EXCEPT ![r][s] = NoTask]
        /\ UNCHANGED snap
  /\ UNCHANGED <<lock, beat, req, inbox, robots, left>>

\* The core process dies and is restarted: its tasks and requests are gone,
\* Redis, the robots and the orders already put on Zenoh are not.
CoreRestart ==
  /\ Fault
  /\ task' = [r \in Robots |-> [s \in Slots |-> NoTask]]
  /\ req' = [q \in Reqs |-> IF req[q].pc \in {"publish", "allocating"}
                            THEN Closed("failed") ELSE req[q]]
  /\ left' = [q \in Reqs |-> IF req[q].pc = "publish" THEN 0 ELSE left[q]]
  /\ UNCHANGED <<redis, inbox, robots>>
-------------------------------------------------------------------------------
(* The robots, as VDA 5050 has them and as the core relies on. *)

\* r takes the next order it receives, in place of its current one, if the
\* route passes where it is; otherwise it rejects the order.
TakeOrder(r) ==
  /\ inbox[r] # <<>>
  /\ inbox' = [inbox EXCEPT ![r] = Tail(@)]
  /\ IF Ahead(Head(inbox[r])) # {}
     THEN /\ order' = [order EXCEPT ![r] = Head(inbox[r])]
          /\ seq' = [seq EXCEPT ![r] = @ + 1]
     ELSE UNCHANGED <<order, seq>>
  /\ UNCHANGED <<redis, task, req, at, left, faults>>

LoseOrder(r) ==
  /\ inbox[r] # <<>>
  /\ Fault
  /\ inbox' = [inbox EXCEPT ![r] = Tail(@)]
  /\ UNCHANGED <<redis, task, req, robots, left>>

\* r reaches the next node of its route.
Advance(r) ==
  /\ order[r] # NoReq
  /\ LET route == req[order[r]].route IN
     \E i \in DOMAIN route :
       /\ IF at[r] = NoNode THEN i = 1 ELSE i > 1 /\ route[i - 1] = at[r]
       /\ at' = [at EXCEPT ![r] = route[i]]
  /\ seq' = [seq EXCEPT ![r] = @ + 1]
  /\ UNCHANGED <<redis, task, req, inbox, order, left, faults>>

\* r has reached the end of its route and is idle again.
Finish(r) ==
  /\ order[r] # NoReq
  /\ at[r] = Last(req[order[r]].route)
  /\ order' = [order EXCEPT ![r] = NoReq]
  /\ seq' = [seq EXCEPT ![r] = @ + 1]
  /\ UNCHANGED <<redis, task, req, inbox, at, left, faults>>

\* Time passes: keys expire.
Tick ==
  /\ lock' = Elapse(lock)
  /\ beat' = [r \in Robots |-> IF beat[r] > 0 THEN beat[r] - 1 ELSE 0]
  /\ left' = [q \in Reqs |-> IF left[q] > 0 THEN left[q] - 1 ELSE 0]
  /\ UNCHANGED <<snap, task, req, inbox, robots, faults>>
-------------------------------------------------------------------------------
TelemetryStep(r, s) ==
  \/ ReadSnapshot(r, s) \/ ReleaseOldNode(r, s)
  \/ StoreSnapshot(r, s) \/ TouchHeartbeat(r, s)

RobotStep(r) == TakeOrder(r) \/ Advance(r) \/ Finish(r)

FaultStep ==
  \/ \E q \in Reqs, p \in Posts : PostFails(q, p[1], p[2], p[3], p[4])
  \/ \E q \in Reqs : PublishFails(q)
  \/ \E r \in Robots, s \in Slots : TelemetryFails(r, s)
  \/ \E r \in Robots : LoseOrder(r)
  \/ CoreRestart

Next ==
  \/ \E q \in Reqs, p \in Posts : PostOrder(q, p[1], p[2], p[3], p[4])
  \/ \E q \in Reqs : PublishOrder(q)
  \/ \E r \in Robots, s \in Slots : SpawnTelemetryTask(r, s) \/ TelemetryStep(r, s)
  \/ \E r \in Robots : RobotStep(r)
  \/ Tick
  \/ FaultStep

Spec == Init /\ [][Next]_vars

\* The tokio runtime runs every task that can run, robots publish their state
\* periodically, Redis's clock runs.  Robots and clients owe nothing.
Fairness ==
  /\ WF_vars(Tick)
  /\ \A r \in Robots :
       /\ WF_vars(\E s \in Slots : SpawnTelemetryTask(r, s))
       /\ \A s \in Slots : WF_vars(TelemetryStep(r, s))
  /\ \A q \in Reqs : WF_vars(PublishOrder(q))

FairSpec == Spec /\ Fairness
-------------------------------------------------------------------------------
\* Every variable has its type.
TypeOK ==
  /\ lock \in Table
  /\ snap \in [Robots -> States \cup {NoSnap}]
  /\ beat \in [Robots -> 0..HeartbeatTtl]
  /\ task \in [Robots -> [Slots -> Tasks \cup {NoTask}]]
  /\ req \in [Reqs -> Requests \cup {Closed(status) : status \in Statuses}]
  /\ inbox \in [Robots -> Seq(Reqs)]
  /\ at \in [Robots -> Places]
  /\ order \in [Robots -> Reqs \cup {NoReq}]
  /\ seq \in [Robots -> Nat \ {0}]
  /\ left \in [Reqs -> Nat]
  /\ faults \in 0..MaxFaults

Leased(q, n) == /\ lock[n].owner = Serial[req[q].robot]
                /\ lock[n].ttl >= left[q]

\* A task that compares its state with a newer one, stored since it was published.
Overtaken(t) == t.old.seq > t.msg.seq

\* A step in which task s of robot r gives up node n, which its comparison says r left.
Gives(r, s, n) ==
  /\ task[r][s].pc = "release" /\ task[r][s].old.node = n
  /\ task'[r][s].pc = "store"

\* The promise of dispatch_order (fleet_manager.rs:63): from the moment a path
\* is reserved until its time to live is over, every node the robot has still to
\* leave on this path is leased to it and does not expire earlier, while
\* telemetry tasks release nodes, other orders reserve paths and calls fail.
GrantHonoured ==
  \A q \in Reqs : left[q] > 0 => \A n \in Ahead(q) : Leased(q, n)

\* The part of that promise that even telemetry tasks that overtake each other
\* cannot break on a map without cycles: a late task may give up the node where
\* the robot stands, but never one that the robot has still to reach.
NodesAheadKept ==
  \A q \in Reqs : left[q] > 0 =>
    \A n \in Ahead(q) \ {at[req[q].robot]} : Leased(q, n)

\* And how the rest of the promise gets broken (fleet_manager.rs:101-106, main.rs:122):
\* while a request counts on its leases, a node its robot has still to leave is lost
\* only if it is the one under the robot, and only to a telemetry task of that very
\* robot that compares its state with a newer one.
GrantLostOnlyToLateTask ==
  [][\A q \in Reqs : left[q] > 0 /\ left'[q] > 0 =>
       \A n \in Ahead(q) : Leased(q, n) /\ ~Leased(q, n)' =>
         LET r == req[q].robot IN
         /\ n = at[r]
         /\ \E s \in Slots : Gives(r, s, n) /\ Overtaken(task[r][s])]_vars

\* README.md:137, the lease is exclusive: no two robots may at the same time rely
\* on reservations of a node that both have still to leave.
ExclusiveReservation ==
  \A q1, q2 \in Reqs :
    left[q1] > 0 /\ left[q2] > 0 /\ req[q1].robot # req[q2].robot
      => Ahead(q1) \cap Ahead(q2) = {}

\* What overlapping tasks leave of it: only a node where one of them stands.
ReservationsMeetUnderRobots ==
  \A q1, q2 \in Reqs :
    left[q1] > 0 /\ left[q2] > 0 /\ req[q1].robot # req[q2].robot
      => Ahead(q1) \cap Ahead(q2) \subseteq {at[req[q1].robot], at[req[q2].robot]}

\* fleet_manager.rs:89 "automatically releases the previous node lock when the
\* robot moves to a new node": the node a telemetry task is about to release is
\* never the node where its robot stands.
ReleasesOnlyLeftNodes ==
  \A r \in Robots, s \in Slots :
    task[r][s].pc = "release" => task[r][s].old.node # at[r]

\* fleet_manager.rs:89, of the tasks that were not overtaken: however late such a task
\* is, and whatever other tasks have stored since it read, the node it is about to
\* release is one its robot has left.
InOrderReleasesAreBehind ==
  \A r \in Robots, s \in Slots :
    task[r][s].pc = "release" /\ ~Overtaken(task[r][s])
      => task[r][s].old.node # at[r]

\* README.md:137 and the owner checks of both scripts (fleet_manager.rs:182, 215):
\* a lease is lost, or passes to another robot, only by running out or in the step
\* in which a telemetry task of its own robot gives up this very node.
LeaseLostOnlyToOwnerOrTime ==
  [][\A n \in Nodes :
       lock'[n].owner # lock[n].owner /\ lock[n] # NoLease =>
         \/ lock[n].ttl = 1 /\ lock' = Elapse(lock)
         \/ \E r \in Robots, s \in Slots :
              Serial[r] = lock[n].owner /\ Gives(r, s, n)]_vars

\* fleet_manager.rs:127-131, the state is stored before the heartbeat is touched:
\* a robot with a live heartbeat has a stored state.
OnlineHasSnapshot == \A r \in Robots : beat[r] > 0 => snap[r] # NoSnap

\* However its states overtook each other, were lost or failed to be stored: once
\* a robot stays as it is, its periodic states make the stored one the true one.
SnapshotCatchesUp == \A r \in Robots : <>[](snap[r] = State(r))

\* README.md:24 "leased TTL spatial traffic locks [...] to prevent warehouse
\* deadlocks upon system crashes": when the requests are over, whatever failed on
\* the way, every node ends up free.
LeasesLapse == \A n \in Nodes : <>[](lock[n] = NoLease)

\* README.md:137 "Exclusive topological node lease": two robots that execute
\* orders are never on the same node.
NodeExclusive ==
  \A r1, r2 \in Robots :
    order[r1] # NoReq /\ order[r2] # NoReq /\ at[r1] = at[r2] /\ at[r1] # NoNode
      => r1 = r2
===============================================================================
