-------------------------- MODULE FleetManager_proofs --------------------------
(***************************************************************************)
(* The fleet manager for any robots, map, requests, telemetry tasks and    *)
(* faults: type correctness, the heartbeat is never ahead of the stored    *)
(* state, and no robot ever takes away another robot's lease.              *)
(***************************************************************************)
EXTENDS FleetManager, LeaseTable_proofs, SequenceTheorems

\* The orders that robots execute or receive have been published.
OrdersPublished ==
  /\ \A r \in Robots : order[r] # NoReq => req[order[r]].pc = "accepted"
  /\ \A r \in Robots : \A i \in 1..Len(inbox[r]) : req[inbox[r][i]].pc = "accepted"

\* A task that is about to touch the heartbeat has seen the state stored.
BeatAfterStore ==
  \A r \in Robots, s \in Slots : task[r][s].pc = "beat" => snap[r] # NoSnap

IInv == TypeOK /\ OrdersPublished /\ BeatAfterStore /\ OnlineHasSnapshot
-------------------------------------------------------------------------------
(* The values that the actions write have their types. *)

LEMMA TaskStepType ==
  ASSUME NEW t \in Tasks, NEW pc \in {"read", "release", "store", "beat"}
  PROVE  [t EXCEPT !.pc = pc] \in Tasks
BY DEF Tasks

LEMMA TaskReleaseType ==
  ASSUME NEW t \in Tasks, NEW m \in States \cup {NoSnap}
  PROVE  [t EXCEPT !.pc = "release", !.old = m] \in Tasks
BY DEF Tasks

LEMMA ComparedType ==
  ASSUME NEW t \in Tasks
  PROVE  /\ Compared(t) \in Tasks /\ Compared(t).pc = "store"
         /\ Compared(t).msg = t.msg /\ Compared(t).old = NoSnap
BY DEF Compared, Tasks

LEMMA RequestStepType ==
  ASSUME NEW c \in Requests, NEW pc \in {"publish", "accepted"}
  PROVE  [c EXCEPT !.pc = pc] \in Requests
BY DEF Requests

\* A task slot is free, or holds a task that is not.
LEMMA TaskCases ==
  ASSUME NEW t \in Tasks \cup {NoTask}
  PROVE  /\ t.pc # "none" <=> t \in Tasks
         /\ t = NoTask <=> t.pc = "none"
BY DEF Tasks, NoTask

\* A request has a reservation exactly when its phase says so.
LEMMA RequestCases ==
  ASSUME NEW c \in Requests \cup {Closed(status) : status \in Statuses}
  PROVE  c.pc \in {"publish", "accepted"} <=> c \in Requests
BY DEF Requests, Closed, Statuses

LEMMA SnapCases ==
  ASSUME NEW m \in States \cup {NoSnap}
  PROVE  m # NoSnap <=> m \in States
<1>1. ASSUME NEW x \in States PROVE x # NoSnap
  <2>1. DOMAIN x = {"seq", "node", "order", "driving", "charge"}
    BY DEF States
  <2>2. DOMAIN NoSnap = {"seq"}
    BY DEF NoSnap
  <2> QED
    BY <2>1, <2>2
<1> QED
  BY <1>1

LEMMA StateType ==
  ASSUME TypeOK, NEW r \in Robots
  PROVE  State(r) \in States
<1> DEFINE moving == order[r] # NoReq /\ at[r] # Last(req[order[r]].route)
<1>1. moving \in BOOLEAN
  OBVIOUS
<1>2. /\ seq[r] \in Nat /\ at[r] \in Places /\ order[r] \in Reqs \cup {NoReq}
      /\ Charge[r] \in Nat
  BY RobotsAssumption DEF TypeOK
<1>3. State(r) = [seq |-> seq[r], node |-> at[r], order |-> order[r],
                  driving |-> moving, charge |-> Charge[r]]
  BY DEF State
<1> HIDE DEF moving
<1> QED
  BY <1>1, <1>2, <1>3 DEF States

\* The initial state.
LEMMA InitIInv == Init => IInv
<1> SUFFICES ASSUME Init PROVE IInv
  OBVIOUS
<1>1. TypeOK
  BY NoLeaseType, StartsAssumption, BoundsAssumption
     DEF Init, TypeOK, Table, Statuses, Closed
<1>2. OrdersPublished /\ BeatAfterStore /\ OnlineHasSnapshot
  BY DEF Init, OrdersPublished, BeatAfterStore, OnlineHasSnapshot, NoTask
<1> QED
  BY <1>1, <1>2 DEF IInv
-------------------------------------------------------------------------------
(* The requests. *)

\* What Dispatch writes: a reservation for q with its leases, or an error.
LEMMA DispatchType ==
  ASSUME TypeOK, NEW q \in Reqs, NEW r \in Robots, NEW start, NEW target, NEW ttl \in Nat,
         Dispatch(q, r, start, target, ttl)
  PROVE  /\ lock' \in Table /\ left' \in [Reqs -> Nat]
         /\ \E c \in Requests \cup {Closed(status) : status \in Statuses} :
              c.pc # "accepted" /\ req' = [req EXCEPT ![q] = c]
<1>1. CASE /\ req' = [req EXCEPT ![q] = Closed("noroute")]
           /\ UNCHANGED <<lock, left>>
  BY <1>1 DEF TypeOK, Closed, Statuses
<1>2. ASSUME NEW route \in Route(start, target),
             \/ req' = [req EXCEPT ![q] = Closed("occupied")]
             \/ req' = [req EXCEPT ![q] = Closed("failed")],
             UNCHANGED <<lock, left>>
      PROVE  /\ lock' \in Table /\ left' \in [Reqs -> Nat]
             /\ \E c \in Requests \cup {Closed(status) : status \in Statuses} :
                  c.pc # "accepted" /\ req' = [req EXCEPT ![q] = c]
  BY <1>2 DEF TypeOK, Closed, Statuses
<1>3. ASSUME NEW route \in Route(start, target), ValidTtl(ttl),
             lock' = Reserve(lock, NodesOf(route), Serial[r], ttl),
             left' = [left EXCEPT ![q] = ttl],
             req' = [req EXCEPT ![q] = [pc |-> "publish", robot |-> r,
                                        route |-> route, ttl |-> ttl]]
      PROVE  /\ lock' \in Table /\ left' \in [Reqs -> Nat]
             /\ \E c \in Requests \cup {Closed(status) : status \in Statuses} :
                  c.pc # "accepted" /\ req' = [req EXCEPT ![q] = c]
  <2>1. lock' \in Table
    BY <1>3, ReserveType, RobotsAssumption DEF TypeOK
  <2>2. [pc |-> "publish", robot |-> r, route |-> route, ttl |-> ttl] \in Requests
    BY DEF Requests, Route
  <2> QED
    BY <1>3, <2>1, <2>2 DEF TypeOK
<1> QED
  BY <1>1, <1>2, <1>3 DEF Dispatch

\* A request that is new or in progress changes; the orders of robots are others.
LEMMA RequestStep ==
  ASSUME IInv, NEW q \in Reqs, req[q].pc # "accepted",
         NEW c \in Requests \cup {Closed(status) : status \in Statuses},
         req' = [req EXCEPT ![q] = c],
         lock' \in Table, left' \in [Reqs -> Nat], faults' \in 0..MaxFaults,
         UNCHANGED <<snap, beat, task, inbox, robots>>
  PROVE  IInv'
<1>1. TypeOK'
  BY DEF IInv, TypeOK, robots
<1>2. OrdersPublished'
  <2>1. ASSUME NEW p \in Reqs, req[p].pc = "accepted"
        PROVE  req'[p].pc = "accepted"
    BY <2>1 DEF IInv, TypeOK
  <2>2. ASSUME NEW r \in Robots, order'[r] # NoReq PROVE req'[order'[r]].pc = "accepted"
    BY <2>1, <2>2 DEF IInv, TypeOK, OrdersPublished, robots
  <2>3. ASSUME NEW r \in Robots, NEW i \in 1..Len(inbox'[r])
        PROVE  req'[inbox'[r][i]].pc = "accepted"
    <3>1. inbox'[r] = inbox[r] /\ inbox[r] \in Seq(Reqs)
      BY DEF IInv, TypeOK
    <3>2. inbox[r][i] \in Reqs /\ req[inbox[r][i]].pc = "accepted"
      BY <3>1 DEF IInv, OrdersPublished
    <3> QED
      BY <2>1, <3>1, <3>2
  <2> QED
    BY <2>2, <2>3 DEF OrdersPublished
<1>3. BeatAfterStore' /\ OnlineHasSnapshot'
  BY DEF IInv, BeatAfterStore, OnlineHasSnapshot
<1> QED
  BY <1>1, <1>2, <1>3 DEF IInv

LEMMA FaultType == TypeOK /\ Fault => faults' \in 0..MaxFaults
BY BoundsAssumption DEF TypeOK, Fault

LEMMA PostOrderStep ==
  ASSUME IInv, NEW q \in Reqs, NEW p \in Posts, PostOrder(q, p[1], p[2], p[3], p[4])
  PROVE  IInv'
<1>1. p[1] \in Robots /\ p[4] \in Nat
  BY PostsAssumption
<1>2. PICK c \in Requests \cup {Closed(status) : status \in Statuses} :
        req' = [req EXCEPT ![q] = c]
  BY <1>1, DispatchType DEF PostOrder, IInv
<1>3. lock' \in Table /\ left' \in [Reqs -> Nat]
  BY <1>1, DispatchType DEF PostOrder, IInv
<1>4. faults' \in 0..MaxFaults
  BY DEF PostOrder, IInv, TypeOK
<1> QED
  BY <1>2, <1>3, <1>4, RequestStep DEF PostOrder

LEMMA PostFailsStep ==
  ASSUME IInv, NEW q \in Reqs, NEW p \in Posts, PostFails(q, p[1], p[2], p[3], p[4])
  PROVE  IInv'
<1>1. p[1] \in Robots /\ p[4] \in Nat
  BY PostsAssumption
<1>2. lock' \in Table
  BY <1>1, ReserveType, RobotsAssumption DEF PostFails, DispatchFails, IInv, TypeOK
<1>3. Closed("failed") \in {Closed(status) : status \in Statuses}
  BY DEF Statuses
<1>4. left' \in [Reqs -> Nat] /\ faults' \in 0..MaxFaults
  BY FaultType DEF PostFails, DispatchFails, IInv, TypeOK
<1> QED
  BY <1>2, <1>3, <1>4, RequestStep DEF PostFails, DispatchFails

LEMMA PublishFailsStep ==
  ASSUME IInv, NEW q \in Reqs, PublishFails(q)
  PROVE  IInv'
<1>1. Closed("failed") \in {Closed(status) : status \in Statuses}
  BY DEF Statuses
<1>2. lock' \in Table /\ left' \in [Reqs -> Nat] /\ faults' \in 0..MaxFaults
  BY FaultType DEF PublishFails, redis, IInv, TypeOK
<1> QED
  BY <1>1, <1>2, RequestStep DEF PublishFails, redis

\* The order is on Zenoh, and its request accepted.
LEMMA PublishOrderStep ==
  ASSUME IInv, NEW q \in Reqs, PublishOrder(q)
  PROVE  IInv'
<1> DEFINE to == req[q].robot
<1>1. req[q] \in Requests /\ to \in Robots
  BY RequestCases DEF PublishOrder, IInv, TypeOK, Requests
<1>2. req' = [req EXCEPT ![q] = [req[q] EXCEPT !.pc = "accepted"]]
      /\ [req[q] EXCEPT !.pc = "accepted"] \in Requests
      /\ [req[q] EXCEPT !.pc = "accepted"].pc = "accepted"
  BY <1>1, RequestStepType DEF PublishOrder, Requests
<1>3. inbox[to] \in Seq(Reqs)
  BY <1>1 DEF IInv, TypeOK
<1>4. inbox' = [inbox EXCEPT ![to] = Append(inbox[to], q)]
      /\ Append(inbox[to], q) \in Seq(Reqs)
  BY <1>3, AppendProperties DEF PublishOrder
<1>5. TypeOK'
  <2>1. req' \in [Reqs -> Requests \cup {Closed(status) : status \in Statuses}]
    BY <1>2 DEF IInv, TypeOK
  <2>2. inbox' \in [Robots -> Seq(Reqs)]
    BY <1>4 DEF IInv, TypeOK
  <2> QED
    BY <2>1, <2>2 DEF PublishOrder, redis, robots, IInv, TypeOK
<1>6. \A p \in Reqs : req[p].pc = "accepted" \/ p = q => req'[p].pc = "accepted"
  BY <1>2 DEF IInv, TypeOK
<1>7. OrdersPublished'
  <2>1. ASSUME NEW r \in Robots, order'[r] # NoReq PROVE req'[order'[r]].pc = "accepted"
    BY <1>6, <2>1 DEF PublishOrder, robots, IInv, TypeOK, OrdersPublished
  <2>2. ASSUME NEW r \in Robots, NEW i \in 1..Len(inbox'[r])
        PROVE  req'[inbox'[r][i]].pc = "accepted"
    <3>1. inbox[r] \in Seq(Reqs) /\ \A j \in 1..Len(inbox[r]) : req[inbox[r][j]].pc = "accepted"
      BY DEF IInv, TypeOK, OrdersPublished
    <3>2. inbox'[r][i] = q \/ (i \in 1..Len(inbox[r]) /\ inbox'[r][i] = inbox[r][i])
      <4>1. CASE r = to
        <5>1. inbox'[r] = Append(inbox[r], q)
          BY <1>4, <4>1 DEF IInv, TypeOK
        <5> QED
          BY <3>1, <5>1, AppendProperties
      <4>2. CASE r # to
        BY <1>4, <4>2 DEF IInv, TypeOK
      <4> QED
        BY <4>1, <4>2
    <3> QED
      BY <1>6, <3>1, <3>2
  <2> QED
    BY <2>1, <2>2 DEF OrdersPublished
<1>8. BeatAfterStore' /\ OnlineHasSnapshot'
  BY DEF PublishOrder, redis, IInv, BeatAfterStore, OnlineHasSnapshot
<1> QED
  BY <1>5, <1>7, <1>8 DEF IInv
-------------------------------------------------------------------------------
(* Telemetry. *)

\* A step of one telemetry task that leaves requests and robots alone.
LEMMA TaskStep ==
  ASSUME IInv, NEW r \in Robots, NEW s \in Slots, NEW t \in Tasks \cup {NoTask},
         task' = [task EXCEPT ![r][s] = t],
         lock' \in Table, snap' \in [Robots -> States \cup {NoSnap}],
         beat' \in [Robots -> 0..HeartbeatTtl], faults' \in 0..MaxFaults,
         \A x \in Robots : snap[x] # NoSnap => snap'[x] # NoSnap,
         t.pc = "beat" => snap'[r] # NoSnap,
         \A x \in Robots : beat'[x] > 0 => beat[x] > 0 \/ snap'[x] # NoSnap,
         UNCHANGED <<req, inbox, robots, left>>
  PROVE  IInv'
<1>1. TypeOK'
  BY DEF IInv, TypeOK, robots
<1>2. OrdersPublished'
  BY DEF IInv, OrdersPublished, robots
<1>3. BeatAfterStore'
  BY DEF IInv, TypeOK, BeatAfterStore
<1>4. OnlineHasSnapshot'
  BY DEF IInv, OnlineHasSnapshot
<1> QED
  BY <1>1, <1>2, <1>3, <1>4 DEF IInv

LEMMA SpawnStep ==
  ASSUME IInv, NEW r \in Robots, NEW s \in Slots, SpawnTelemetryTask(r, s)
  PROVE  IInv'
<1> DEFINE t == [pc |-> "read", msg |-> State(r), old |-> NoSnap]
<1>1. t \in Tasks
  BY StateType DEF IInv, Tasks
<1>2. t.pc # "beat"
  OBVIOUS
<1>3. task' = [task EXCEPT ![r][s] = t]
  BY DEF SpawnTelemetryTask
<1>4. /\ lock' \in Table /\ snap' \in [Robots -> States \cup {NoSnap}]
      /\ beat' \in [Robots -> 0..HeartbeatTtl] /\ faults' \in 0..MaxFaults
      /\ snap' = snap /\ beat' = beat
  BY DEF SpawnTelemetryTask, redis, IInv, TypeOK
<1> HIDE DEF t
<1> QED
  BY <1>1, <1>2, <1>3, <1>4, TaskStep DEF SpawnTelemetryTask

LEMMA ReadStep ==
  ASSUME IInv, NEW r \in Robots, NEW s \in Slots, ReadSnapshot(r, s)
  PROVE  IInv'
<1> DEFINE t == task[r][s]
<1>1. t \in Tasks
  BY TaskCases DEF ReadSnapshot, IInv, TypeOK
<1>2. CASE Moved(r, t.msg)
  <2> DEFINE u == [t EXCEPT !.pc = "release", !.old = snap[r]]
  <2>1. snap[r] \in States \cup {NoSnap}
    BY DEF IInv, TypeOK
  <2>2. u \in Tasks
    BY <1>1, <2>1, TaskReleaseType
  <2>3. u.pc # "beat"
    BY <1>1 DEF Tasks
  <2>4. task' = [task EXCEPT ![r][s] = u]
    BY <1>2 DEF ReadSnapshot
  <2>5. /\ lock' \in Table /\ snap' \in [Robots -> States \cup {NoSnap}]
        /\ beat' \in [Robots -> 0..HeartbeatTtl] /\ faults' \in 0..MaxFaults
        /\ snap' = snap /\ beat' = beat
    BY DEF ReadSnapshot, redis, IInv, TypeOK
  <2> HIDE DEF u
  <2> QED
    BY <2>2, <2>3, <2>4, <2>5, TaskStep DEF ReadSnapshot
<1>3. CASE ~Moved(r, t.msg)
  <2> DEFINE u == [t EXCEPT !.pc = "store"]
  <2>2. u \in Tasks
    BY <1>1, TaskStepType
  <2>3. u.pc # "beat"
    BY <1>1 DEF Tasks
  <2>4. task' = [task EXCEPT ![r][s] = u]
    BY <1>3 DEF ReadSnapshot
  <2>5. /\ lock' \in Table /\ snap' \in [Robots -> States \cup {NoSnap}]
        /\ beat' \in [Robots -> 0..HeartbeatTtl] /\ faults' \in 0..MaxFaults
        /\ snap' = snap /\ beat' = beat
    BY DEF ReadSnapshot, redis, IInv, TypeOK
  <2> HIDE DEF u
  <2> QED
    BY <2>2, <2>3, <2>4, <2>5, TaskStep DEF ReadSnapshot
<1> QED
  BY <1>2, <1>3

LEMMA ReleaseStep ==
  ASSUME IInv, NEW r \in Robots, NEW s \in Slots, ReleaseOldNode(r, s)
  PROVE  IInv'
<1> DEFINE u == Compared(task[r][s])
<1>1. task[r][s] \in Tasks
  BY TaskCases DEF ReleaseOldNode, IInv, TypeOK
<1>2. u \in Tasks /\ u.pc # "beat"
  BY <1>1, ComparedType
<1>3. task' = [task EXCEPT ![r][s] = u]
  BY DEF ReleaseOldNode
<1>4. /\ lock' \in Table /\ snap' \in [Robots -> States \cup {NoSnap}]
      /\ beat' \in [Robots -> 0..HeartbeatTtl] /\ faults' \in 0..MaxFaults
      /\ snap' = snap /\ beat' = beat
  BY ReleaseType DEF ReleaseOldNode, IInv, TypeOK
<1> HIDE DEF u
<1> QED
  BY <1>2, <1>3, <1>4, TaskStep DEF ReleaseOldNode

\* The stored state of r, whether or not it was stored before.
LEMMA StoreStep ==
  ASSUME IInv, NEW r \in Robots, NEW s \in Slots, StoreSnapshot(r, s)
  PROVE  IInv'
<1> DEFINE u == [task[r][s] EXCEPT !.pc = "beat"]
<1>1. task[r][s] \in Tasks
  BY TaskCases DEF StoreSnapshot, IInv, TypeOK
<1>2. u \in Tasks /\ task[r][s].msg \in States
  BY <1>1, TaskStepType DEF Tasks
<1>3. task' = [task EXCEPT ![r][s] = u]
  BY DEF StoreSnapshot
<1>4. /\ snap' \in [Robots -> States \cup {NoSnap}] /\ snap'[r] # NoSnap
      /\ \A x \in Robots : snap[x] # NoSnap => snap'[x] # NoSnap
  BY <1>2, SnapCases DEF StoreSnapshot, IInv, TypeOK
<1>5. /\ lock' \in Table /\ beat' \in [Robots -> 0..HeartbeatTtl]
      /\ faults' \in 0..MaxFaults /\ beat' = beat
  BY DEF StoreSnapshot, IInv, TypeOK
<1> HIDE DEF u
<1> QED
  BY <1>2, <1>3, <1>4, <1>5, TaskStep DEF StoreSnapshot

LEMMA BeatStep ==
  ASSUME IInv, NEW r \in Robots, NEW s \in Slots, TouchHeartbeat(r, s)
  PROVE  IInv'
<1>1. task' = [task EXCEPT ![r][s] = NoTask] /\ NoTask.pc # "beat"
  BY DEF TouchHeartbeat, NoTask
<1>2. /\ lock' \in Table /\ snap' \in [Robots -> States \cup {NoSnap}]
      /\ faults' \in 0..MaxFaults /\ snap' = snap
  BY DEF TouchHeartbeat, IInv, TypeOK
<1>3. snap[r] # NoSnap
  BY DEF TouchHeartbeat, IInv, BeatAfterStore
<1>4. /\ beat' \in [Robots -> 0..HeartbeatTtl]
      /\ \A x \in Robots : beat'[x] > 0 => beat[x] > 0 \/ snap'[x] # NoSnap
  BY <1>2, <1>3, BoundsAssumption DEF TouchHeartbeat, IInv, TypeOK
<1> QED
  BY <1>1, <1>2, <1>4, TaskStep DEF TouchHeartbeat

LEMMA TelemetryFailsStep ==
  ASSUME IInv, NEW r \in Robots, NEW s \in Slots, TelemetryFails(r, s)
  PROVE  IInv'
<1>1. /\ lock' \in Table /\ beat' \in [Robots -> 0..HeartbeatTtl]
      /\ faults' \in 0..MaxFaults /\ beat' = beat
  BY FaultType DEF TelemetryFails, IInv, TypeOK
<1>2. CASE /\ task[r][s].pc \in {"read", "release"}
           /\ task' = [task EXCEPT ![r][s] = Compared(@)]
           /\ UNCHANGED snap
  <2> DEFINE u == Compared(task[r][s])
  <2>1. task[r][s] \in Tasks
    BY <1>2, TaskCases DEF IInv, TypeOK
  <2>2. u \in Tasks /\ u.pc # "beat"
    BY <2>1, ComparedType
  <2>3. task' = [task EXCEPT ![r][s] = u]
    BY <1>2
  <2>4. snap' \in [Robots -> States \cup {NoSnap}] /\ snap' = snap
    BY <1>2 DEF IInv, TypeOK
  <2> HIDE DEF u
  <2> QED
    BY <1>1, <2>2, <2>3, <2>4, TaskStep DEF TelemetryFails
<1>3. CASE /\ task[r][s].pc \in {"store", "beat"}
           /\ task' = [task EXCEPT ![r][s] = NoTask]
           /\ \/ UNCHANGED snap
              \/ task[r][s].pc = "store" /\ snap' = [snap EXCEPT ![r] = task[r][s].msg]
  <2>1. task[r][s].msg \in States
    BY <1>3, TaskCases DEF IInv, TypeOK, Tasks
  <2>2. /\ snap' \in [Robots -> States \cup {NoSnap}]
        /\ \A x \in Robots : snap[x] # NoSnap => snap'[x] # NoSnap
    BY <1>3, <2>1, SnapCases DEF IInv, TypeOK
  <2>3. NoTask.pc # "beat"
    BY DEF NoTask
  <2> QED
    BY <1>1, <1>3, <2>2, <2>3, TaskStep DEF TelemetryFails
<1> QED
  BY <1>2, <1>3 DEF TelemetryFails

LEMMA RestartStep == IInv /\ CoreRestart => IInv'
<1> SUFFICES ASSUME IInv, CoreRestart PROVE IInv'
  OBVIOUS
<1>1. Closed("failed") \in {Closed(status) : status \in Statuses}
  BY DEF Statuses
<1>2. /\ req' \in [Reqs -> Requests \cup {Closed(status) : status \in Statuses}]
      /\ \A q \in Reqs : req[q].pc = "accepted" => req'[q] = req[q]
  BY <1>1 DEF CoreRestart, IInv, TypeOK
<1>3. TypeOK'
  BY <1>2, FaultType DEF CoreRestart, redis, robots, IInv, TypeOK
<1>4. OrdersPublished'
  <2>1. ASSUME NEW r \in Robots, NEW i \in 1..Len(inbox'[r])
        PROVE  req'[inbox'[r][i]].pc = "accepted"
    <3>1. inbox'[r] = inbox[r] /\ inbox[r] \in Seq(Reqs)
      BY DEF CoreRestart, IInv, TypeOK
    <3>2. inbox[r][i] \in Reqs /\ req[inbox[r][i]].pc = "accepted"
      BY <3>1 DEF IInv, OrdersPublished
    <3> QED
      BY <1>2, <3>1, <3>2
  <2>2. ASSUME NEW r \in Robots, order'[r] # NoReq PROVE req'[order'[r]].pc = "accepted"
    BY <1>2, <2>2 DEF CoreRestart, robots, IInv, TypeOK, OrdersPublished
  <2> QED
    BY <2>1, <2>2 DEF OrdersPublished
<1>5. BeatAfterStore' /\ OnlineHasSnapshot'
  BY DEF CoreRestart, redis, NoTask, IInv, BeatAfterStore, OnlineHasSnapshot
<1> QED
  BY <1>3, <1>4, <1>5 DEF IInv
-------------------------------------------------------------------------------
(* The robots and the clock. *)

\* A step of a robot leaves Redis and the core alone.
LEMMA RobotOnly ==
  ASSUME IInv, TypeOK', OrdersPublished', UNCHANGED <<redis, task, req>>
  PROVE  IInv'
BY DEF redis, IInv, BeatAfterStore, OnlineHasSnapshot

\* A robot's first order in its inbox leaves it.
LEMMA InboxTail ==
  ASSUME IInv, NEW r \in Robots, inbox[r] # <<>>,
         inbox' = [inbox EXCEPT ![r] = Tail(@)], UNCHANGED req
  PROVE  /\ inbox' \in [Robots -> Seq(Reqs)]
         /\ Head(inbox[r]) \in Reqs /\ req[Head(inbox[r])].pc = "accepted"
         /\ \A x \in Robots : \A i \in 1..Len(inbox'[x]) : req'[inbox'[x][i]].pc = "accepted"
<1>1. inbox[r] \in Seq(Reqs) /\ \A x \in Robots : inbox[x] \in Seq(Reqs)
  BY DEF IInv, TypeOK
<1>2. /\ Tail(inbox[r]) \in Seq(Reqs) /\ Len(Tail(inbox[r])) = Len(inbox[r]) - 1
      /\ Head(inbox[r]) \in Reqs /\ Head(inbox[r]) = inbox[r][1]
      /\ \A i \in 1..Len(Tail(inbox[r])) : Tail(inbox[r])[i] = inbox[r][i + 1]
  BY <1>1, HeadTailProperties
<1>3. inbox' \in [Robots -> Seq(Reqs)]
  BY <1>2 DEF IInv, TypeOK
<1>4. \A x \in Robots : inbox'[x] = IF x = r THEN Tail(inbox[r]) ELSE inbox[x]
  BY DEF IInv, TypeOK
<1>5. Len(inbox[r]) \in Nat /\ Len(inbox[r]) # 0
  BY <1>1, EmptySeq, LenProperties
<1>6. req[Head(inbox[r])].pc = "accepted"
  BY <1>2, <1>5 DEF IInv, OrdersPublished
<1>7. ASSUME NEW x \in Robots, NEW i \in 1..Len(inbox'[x])
      PROVE  req[inbox'[x][i]].pc = "accepted"
  <2>1. CASE x = r
    <3>1. i \in 1..Len(Tail(inbox[r])) /\ inbox'[x][i] = inbox[r][i + 1]
      BY <1>2, <1>4, <2>1
    <3>2. i + 1 \in 1..Len(inbox[r])
      BY <1>2, <1>5, <3>1
    <3> QED
      BY <3>1, <3>2 DEF IInv, OrdersPublished
  <2>2. CASE x # r
    BY <1>4, <2>2 DEF IInv, OrdersPublished
  <2> QED
    BY <2>1, <2>2
<1> QED
  BY <1>2, <1>3, <1>6, <1>7

LEMMA TakeOrderStep ==
  ASSUME IInv, NEW r \in Robots, TakeOrder(r)
  PROVE  IInv'
<1>1. inbox[r] # <<>> /\ inbox' = [inbox EXCEPT ![r] = Tail(@)] /\ UNCHANGED req
  BY DEF TakeOrder
<1>2. /\ inbox' \in [Robots -> Seq(Reqs)]
      /\ Head(inbox[r]) \in Reqs /\ req[Head(inbox[r])].pc = "accepted"
  BY <1>1, InboxTail
<1>3. /\ order' \in [Robots -> Reqs \cup {NoReq}] /\ seq' \in [Robots -> Nat \ {0}]
      /\ \A x \in Robots : order'[x] = order[x] \/ order'[x] = Head(inbox[r])
  <2>1. PICK h \in Reqs : h = Head(inbox[r])
    BY <1>2
  <2>2. CASE order' = [order EXCEPT ![r] = h] /\ seq' = [seq EXCEPT ![r] = @ + 1]
    BY <2>1, <2>2 DEF IInv, TypeOK
  <2>3. CASE UNCHANGED <<order, seq>>
    BY <2>3 DEF IInv, TypeOK
  <2> QED
    BY <2>1, <2>2, <2>3 DEF TakeOrder
<1>4. TypeOK'
  BY <1>2, <1>3 DEF TakeOrder, redis, IInv, TypeOK
<1>5. \A x \in Robots : order'[x] # NoReq => req'[order'[x]].pc = "accepted"
  BY <1>1, <1>2, <1>3 DEF IInv, OrdersPublished
<1>6. OrdersPublished'
  BY <1>1, <1>5, InboxTail DEF OrdersPublished
<1> QED
  BY <1>4, <1>6, RobotOnly DEF TakeOrder

LEMMA LoseOrderStep ==
  ASSUME IInv, NEW r \in Robots, LoseOrder(r)
  PROVE  IInv'
<1>1. inbox[r] # <<>> /\ inbox' = [inbox EXCEPT ![r] = Tail(@)] /\ UNCHANGED req
  BY DEF LoseOrder
<1>2. inbox' \in [Robots -> Seq(Reqs)]
  BY <1>1, InboxTail
<1>3. TypeOK'
  BY <1>2, FaultType DEF LoseOrder, redis, robots, IInv, TypeOK
<1>4. OrdersPublished'
  BY <1>1, InboxTail DEF LoseOrder, robots, IInv, OrdersPublished
<1> QED
  BY <1>3, <1>4, RobotOnly DEF LoseOrder

LEMMA AdvanceStep ==
  ASSUME IInv, NEW r \in Robots, Advance(r)
  PROVE  IInv'
<1>1. req[order[r]] \in Requests
  BY RequestCases DEF Advance, IInv, TypeOK, OrdersPublished
<1>2. req[order[r]].route \in Seq(Nodes)
  BY <1>1, RoutesAssumption DEF Requests
<1>3. PICK i \in DOMAIN req[order[r]].route : at' = [at EXCEPT ![r] = req[order[r]].route[i]]
  BY DEF Advance
<1>4. req[order[r]].route[i] \in Nodes
  BY <1>2, <1>3
<1>5. TypeOK'
  BY <1>3, <1>4 DEF Advance, redis, Places, IInv, TypeOK
<1>6. OrdersPublished'
  BY DEF Advance, IInv, OrdersPublished
<1> QED
  BY <1>5, <1>6, RobotOnly DEF Advance

LEMMA FinishStep ==
  ASSUME IInv, NEW r \in Robots, Finish(r)
  PROVE  IInv'
<1>1. TypeOK'
  BY DEF Finish, redis, IInv, TypeOK
<1>2. OrdersPublished'
  BY DEF Finish, IInv, TypeOK, OrdersPublished
<1> QED
  BY <1>1, <1>2, RobotOnly DEF Finish

LEMMA TickStep == IInv /\ Tick => IInv'
<1> SUFFICES ASSUME IInv, Tick PROVE IInv'
  OBVIOUS
<1>1. lock' \in Table
  BY ElapseType DEF Tick, IInv, TypeOK
<1>2. /\ beat' \in [Robots -> 0..HeartbeatTtl] /\ left' \in [Reqs -> Nat]
      /\ \A r \in Robots : beat'[r] > 0 => beat[r] > 0
  BY BoundsAssumption DEF Tick, IInv, TypeOK
<1>3. TypeOK'
  BY <1>1, <1>2 DEF Tick, robots, IInv, TypeOK
<1>4. OrdersPublished' /\ BeatAfterStore' /\ OnlineHasSnapshot'
  BY <1>2 DEF Tick, robots, IInv, OrdersPublished, BeatAfterStore, OnlineHasSnapshot
<1> QED
  BY <1>3, <1>4 DEF IInv
-------------------------------------------------------------------------------
\* The invariant is inductive: one case for each action.
LEMMA NextIInv == IInv /\ [Next]_vars => IInv'
<1> SUFFICES ASSUME IInv, [Next]_vars PROVE IInv'
  OBVIOUS
<1>1. CASE \E q \in Reqs, p \in Posts : PostOrder(q, p[1], p[2], p[3], p[4])
  BY <1>1, PostOrderStep
<1>2. CASE \E q \in Reqs : PublishOrder(q)
  BY <1>2, PublishOrderStep
<1>3. CASE \E r \in Robots, s \in Slots : SpawnTelemetryTask(r, s) \/ TelemetryStep(r, s)
  BY <1>3, SpawnStep, ReadStep, ReleaseStep, StoreStep, BeatStep DEF TelemetryStep
<1>4. CASE \E r \in Robots : RobotStep(r)
  BY <1>4, TakeOrderStep, AdvanceStep, FinishStep DEF RobotStep
<1>5. CASE Tick
  BY <1>5, TickStep
<1>6. CASE FaultStep
  <2>1. CASE \E q \in Reqs, p \in Posts : PostFails(q, p[1], p[2], p[3], p[4])
    BY <2>1, PostFailsStep
  <2>2. CASE \E q \in Reqs : PublishFails(q)
    BY <2>2, PublishFailsStep
  <2>3. CASE \E r \in Robots, s \in Slots : TelemetryFails(r, s)
    BY <2>3, TelemetryFailsStep
  <2>4. CASE \E r \in Robots : LoseOrder(r)
    BY <2>4, LoseOrderStep
  <2>5. CASE CoreRestart
    BY <2>5, RestartStep
  <2> QED
    BY <1>6, <2>1, <2>2, <2>3, <2>4, <2>5 DEF FaultStep
<1>7. CASE UNCHANGED vars
  BY <1>7 DEF vars, redis, robots, IInv, TypeOK, OrdersPublished, BeatAfterStore,
              OnlineHasSnapshot
<1> QED
  BY <1>1, <1>2, <1>3, <1>4, <1>5, <1>6, <1>7 DEF Next

\* Every variable of the fleet manager keeps its type.
THEOREM TypeCorrect == Spec => []TypeOK
<1>1. IInv => TypeOK
  BY DEF IInv
<1> QED
  BY <1>1, InitIInv, NextIInv, PTL DEF Spec

\* A robot with a live heartbeat has a stored state, whatever telemetry tasks
\* overtake each other, fail or die with the core.
THEOREM HeartbeatImpliesState == Spec => []OnlineHasSnapshot
<1>1. IInv => OnlineHasSnapshot
  BY DEF IInv
<1> QED
  BY <1>1, InitIInv, NextIInv, PTL DEF Spec
-------------------------------------------------------------------------------
(* The leases. *)

\* What may happen to the lease on n in one step.
Lost(n) == lock'[n].owner # lock[n].owner /\ lock[n] # NoLease

LegallyLost(n) ==
  \/ lock[n].ttl = 1 /\ lock' = Elapse(lock)
  \/ \E r \in Robots, s \in Slots : Serial[r] = lock[n].owner /\ Gives(r, s, n)

\* A reservation that goes through takes no lease from anyone.
LEMMA ReserveTakesNothing ==
  ASSUME TypeOK, NEW P, NEW o, NEW t, NEW n \in Nodes, ~Occupied(lock, P, o),
         lock' = Reserve(lock, P, o, t)
  PROVE  ~Lost(n)
<1>1. lock[n] \in Lease
  BY DEF TypeOK, Table
<1>2. lock'[n] = IF n \in P THEN [owner |-> o, ttl |-> t] ELSE lock[n]
  BY DEF Reserve
<1>3. CASE n \in P
  <2>1. lock[n].owner \in {NoOwner, o}
    BY <1>3 DEF Occupied
  <2>2. lock'[n].owner = o
    BY <1>3, <1>2
  <2> QED
    BY <1>1, <2>1, <2>2, LeaseCases DEF Lost
<1>4. CASE n \notin P
  BY <1>4, <1>2 DEF Lost
<1> QED
  BY <1>3, <1>4

\* The release of a node by a task is the step in which it gives up that node.
LEMMA GivesNode ==
  ASSUME IInv, NEW r \in Robots, NEW s \in Slots, ReleaseOldNode(r, s)
  PROVE  Gives(r, s, task[r][s].old.node)
<1>1. task[r][s] \in Tasks
  BY TaskCases DEF ReleaseOldNode, IInv, TypeOK
<1>2. task'[r][s] = Compared(task[r][s])
  BY DEF ReleaseOldNode, IInv, TypeOK
<1> QED
  BY <1>1, <1>2, ComparedType DEF ReleaseOldNode, Gives

LEMMA NextLeases ==
  ASSUME IInv, [Next]_vars, NEW n \in Nodes, Lost(n)
  PROVE  LegallyLost(n)
<1>1. ASSUME NEW q \in Reqs, NEW p \in Posts, PostOrder(q, p[1], p[2], p[3], p[4])
      PROVE  FALSE
  BY <1>1, ReserveTakesNothing DEF PostOrder, Dispatch, IInv, Lost
<1>2. ASSUME NEW q \in Reqs, NEW p \in Posts, PostFails(q, p[1], p[2], p[3], p[4])
      PROVE  FALSE
  BY <1>2, ReserveTakesNothing DEF PostFails, DispatchFails, IInv, Lost
<1>3. ASSUME NEW r \in Robots, NEW s \in Slots, ReleaseOldNode(r, s)
      PROVE  LegallyLost(n)
  <2>1. lock'[n] = IF n \in {task[r][s].old.node} /\ lock[n].owner = Serial[r]
                   THEN NoLease ELSE lock[n]
    BY <1>3, ReleaseAt DEF ReleaseOldNode
  <2>2. task[r][s].old.node = n /\ lock[n].owner = Serial[r]
    BY <2>1 DEF Lost
  <2>3. Gives(r, s, n)
    BY <1>3, <2>2, GivesNode
  <2> QED
    BY <2>2, <2>3 DEF LegallyLost
<1>4. CASE Tick
  <2>1. lock[n] \in Lease
    BY DEF IInv, TypeOK, Table
  <2>2. ~(lock[n].ttl > 1)
    BY <1>4, ElapseAt DEF Tick, Lost, IInv, TypeOK
  <2>3. lock[n].ttl = 1
    BY <2>1, <2>2, LeaseCases DEF Lost
  <2> QED
    BY <1>4, <2>3 DEF Tick, LegallyLost
<1>5. CASE UNCHANGED lock
  BY <1>5 DEF Lost
<1>6. ASSUME NEW q \in Reqs, PublishOrder(q) \/ PublishFails(q) PROVE UNCHANGED lock
  BY <1>6 DEF PublishOrder, PublishFails, redis
<1>7. ASSUME NEW r \in Robots, NEW s \in Slots,
             \/ SpawnTelemetryTask(r, s) \/ ReadSnapshot(r, s) \/ StoreSnapshot(r, s)
             \/ TouchHeartbeat(r, s) \/ TelemetryFails(r, s)
      PROVE  UNCHANGED lock
  BY <1>7 DEF SpawnTelemetryTask, ReadSnapshot, StoreSnapshot, TouchHeartbeat,
              TelemetryFails, redis
<1>8. ASSUME NEW r \in Robots, RobotStep(r) \/ LoseOrder(r) PROVE UNCHANGED lock
  BY <1>8 DEF RobotStep, TakeOrder, Advance, Finish, LoseOrder, redis
<1>9. CoreRestart \/ UNCHANGED vars => UNCHANGED lock
  BY DEF CoreRestart, vars, redis
<1> QED
  BY <1>1, <1>2, <1>3, <1>4, <1>5, <1>6, <1>7, <1>8, <1>9
     DEF Next, FaultStep, TelemetryStep

\* A lease is lost only by running out or in a release by its own robot's telemetry,
\* and never passes from one robot to another, whatever interleaves, fails or restarts.
THEOREM LeasesAreNotStolen == Spec => LeaseLostOnlyToOwnerOrTime
<1>1. IInv /\ [Next]_vars =>
        [\A n \in Nodes :
           lock'[n].owner # lock[n].owner /\ lock[n] # NoLease =>
             \/ lock[n].ttl = 1 /\ lock' = Elapse(lock)
             \/ \E r \in Robots, s \in Slots :
                  Serial[r] = lock[n].owner /\ Gives(r, s, n)]_vars
  BY NextLeases DEF Lost, LegallyLost
<1> QED
  BY <1>1, InitIInv, NextIInv, PTL DEF Spec, LeaseLostOnlyToOwnerOrTime
===============================================================================
