# HITKOTE FMS in TLA+

A formal model of the fleet management system in this repository: the Rust core
(`core/`), which routes orders, leases nodes of the map in Redis and follows the robots'
telemetry, and the C++ ROS 2 bridge (`adapter/`), which turns VDA 5050 orders into Nav2
goals. The modules are model-checked with TLC on small instances, and what matters most
about leases, routes, the dashboard's feed and the bridge is proved with TLAPS for every
value of the constants.

File names below are relative to the repository; `fleet_manager.rs` etc. are in
`core/src/`, `bridge_node.cpp` and `.hpp` in `adapter/hitkote_ros2_bridge/`.

## 1. The system

| Component | State it keeps | Operations | Talks to |
|---|---|---|---|
| Traffic locks (`fleet/fleet_manager.rs:152-281`) | Redis keys `hitkote:traffic:node:<node>` with owner and time to live | acquire a node (`SET NX PX`), reserve a path (Lua, all or nothing), release a node or a path (Lua, compare and delete) | Redis |
| Fleet manager (`fleet/fleet_manager.rs:47-150`) | Redis keys `...:state` and `...:heartbeat` per robot | `dispatch_order`, `update_robot_state`, `get_robot_state` | router, locks, Zenoh |
| Telemetry listener (`main.rs:98-134`) | one tokio task per received state | receive, broadcast to the dashboards, `update_robot_state` | Zenoh, fleet manager, WebSockets |
| Task allocator (`fleet/task_allocator.rs`) | local variables of each request | KEYS, a GET per robot, choice, dispatch | Redis, router, fleet manager |
| REST API (`api.rs`) | requests in flight | `POST .../orders`, `POST /tasks` | fleet manager, allocator |
| Topological router (`router/`) | the map, constant after start-up | load, `find_path` (A*), order construction | - |
| VDA 5050 types (`vda5050.rs`) | - | (de)serialisation, topics | - |
| WebSocket fan-out and dashboard (`ws.rs`, `static/js/`) | broadcast channel of 100 messages, a pair of tasks per connection, what a page shows | forward, close, reconnect | listener |
| Start-up, configuration (`main.rs`, `config.rs`) | configuration, map | load, override, connect, fall back to an empty map, serve, exit and be started again | Redis, Zenoh, Docker |
| ROS 2 bridge (`bridge_node.cpp`) | order id, navigation state, goal handle, connection | order, instant action, goal response, result, telemetry timer | Zenoh, Nav2 |
| Simulation, tests, tools (`sim/`, `test/`, `utils/`) | - | launch files and scripts | - |

What is hard in it:

* **Concurrency in the core.** Every `.await` on Redis or Zenoh lets other tasks run. The
  requests, the allocations and the telemetry tasks - one per state, not one per robot -
  interleave there, and two states of one robot may overtake each other.
* **Partial failure.** Any Redis or Zenoh call may fail, before or after it took effect; a
  client that hangs up makes axum drop its handler at an `.await`; the core may die.
* **Time.** Leases and heartbeats expire while the robots and the tasks go on.
* **Start-up and restarts.** Each step of `main` may end the process, Redis may be down or
  elsewhere, and the pages live on while the core does not. Docker restarts the core, but its
  image has no pages; a core with pages is started on a desk, by hand.
* **A bounded channel** between tasks in any order and connections of any speed.
* **Arithmetic.** A* compares lengths cut to whole millimetres with an estimate that was cut
  too; edges may be parallel, shorter than the straight line, or negative.
* **Two threads in the bridge** that share strings and a `shared_ptr` without a lock, and a Nav2
  server whose responses, results and preemptions arrive between any two of their steps.

What makes each part correct:

* *Locks*: a lease lasts as long as its grant said, only its owner or time ends it, paths
  are granted all or nothing, and the reply says which.
* *Fleet manager*: what `dispatch_order` reserved stays reserved for the nodes the robot
  has still to leave; only nodes that were left are released; two robots never count on
  one node; the stored state becomes the true one; every lease ends. Section 3 says which of
  these the code keeps, and when.
* *Allocator*: the closest of the available robots is chosen, and it is alive, idle, and
  led over the task's start.
* *Router*: an answer is a drive over edges of the map, no node twice, nearly the shortest;
  none is given only where there is none.
* *Dashboard*: a page is told what was broadcast, in order and without a gap, as long as its
  connection lasts, and shows in the end what the robot reports.
* *Start-up*: in Docker the core serves again after every failure it can be restarted from.
* *Bridge*: what is published is what Nav2 does; a cancellation reaches the goal it is
  meant for; a robot becomes available again.

## 2. The modules

```
LeaseTable  <- EXTENDS - TrafficLocks  - implements -> LeaseService
    ^--------- EXTENDS - FleetManager <- EXTENDS - TaskAllocator
Planner
CoreProcess <- EXTENDS - TelemetryFanout  - implements -> Feed
BridgeNode
```

**`LeaseTable`** - the lease keys as a function from nodes to leases (owner, ticks left)
and the Redis commands on it as operators: `Occupied` and `Reserve` are the two phases of
the reservation script, `Release` is both compare-and-delete scripts, `Elapse` is one tick
of Redis' clock. Redis runs a script atomically, so one operator is one command. `ValidTtl`
is Redis' own check (external): 0, and a time that overflows its clock (`MaxTtl`), are errors.

**`TrafficLocks`** - the four lock operations called by any robot with any path. Each has
three outcomes besides a refusal: the call fails before it gets to Redis; Redis executes
it and the reply arrives; Redis executes it and the reply is lost (`Answer`). `view` is
what each caller knows: the time for which it may count on each node. It makes
`LeaseHonoured` a statement about callers and keys, not about the keys alone.

**`LeaseService`** - the abstract specification: a holder and a promise for each node, and the
last answer. Who asks (`Acquire`, `Reserve`) obtains *all* of the nodes asked for, if nobody else
holds *any* of them, and is told yes (`Grant`); otherwise the answer is no and nothing changes
(`Refuse`); or there is an error, which is one or the other without a promise. `GiveUp` and
`Fail` are the same for releases, `Pass` is time. `TrafficLocks` implements it with
`holder <- owner of the key`, `promise <- what the owner may count on`, `answer <- reply`: the
path of the call and its reply are part of what is implemented, so a script that kept half of a
path and answered no would not do (`ReserveInOnePass` is that mutant). A node becomes free only by
its holder or when its promise is over; nothing passes directly between two robots.

**`FleetManager`** - requests, telemetry tasks, Redis, Zenoh and robots.

| Code | Model |
|---|---|
| `dispatch_order`, up to the reservation | `PostOrder` / `Dispatch`, one action: there is no `.await` before the script |
| `zenoh.put` | `PublishOrder` |
| failed script or put, dropped handler | `PostFails`, `PublishFails` |
| listener: one task per state | `SpawnTelemetryTask` into a free slot: the state as it is now, to be handled at any later time |
| `update_robot_state`: GET / release / SET / SETEX | `ReadSnapshot`, `ReleaseOldNode`, `StoreSnapshot`, `TouchHeartbeat` |
| its error paths (GET and release skipped, SET and SETEX end it) | `TelemetryFails` |
| the process dies | `CoreRestart` |
| Redis' expiry | `Tick` |
| robots (external): take, lose or reject an order, drive, finish | `TakeOrder`, `LoseOrder`, `Advance`, `Finish` |

Routing is a constant, the set of routes of the map; `Planner` is about what is in it. `left[q]` is
the time for which request `q` was promised its path; it counts down with the keys. A spawned task
that has not taken its first step is also a state that is still queued in the subscriber: the robot
drives on meanwhile, and newer states may be handled first. `old` of a task is `old_state`, the
stored state that it compares its own with, as long as the comparison lasts (`Compared` ends it).
Lost states need no action: a state may be passed over because the robot moves on before it is
spawned.

**`TaskAllocator`** - extends `FleetManager` by `PostTask` (KEYS, which may fail or find
nothing), `EvaluateCandidate` (one
GET and the checks of the loop body, in any order of the keys), `DispatchBest` and
`AllocationFails`; the whole fleet manager runs in between (`FleetStep`).

**`Planner`** - the router. `Load` is `from_file` with its two passes: an edge with an
unknown end is skipped. `FindPath` looks the ends up; then petgraph's A* runs, one popped node
an action (`Expand`, `ReachTarget`, `Exhaust`), with the cost and the estimate the code gives
it; it is external, and follows the library: of the nodes with the least estimate any may be
popped, and a node whose score sinks is opened again. `TraceBack` follows the path tracker,
`ReturnPlan` makes the `RoutePlan` by `Walk`, the loop over the pairs of neighbours of the path
with `find_edge`, which returns the parallel edge added last. `OrderNodes` and `OrderEdges` are the VDA 5050 order.
Lengths are integers, `Unit` of them a millimetre, so that the cast to `u64` is `Millimetres`:
a division that cuts, and zero for what is negative. A square root is cut to a whole length
(`Straight`); coordinates and lengths that are no multiples of it are not distinguished.

**`CoreProcess`** - `main`, step by step: `LoadConfig` (with the defaults, `REDIS_URL` and
`PORT` in `Configured`), `ConnectRedis`, `LoadGraph`, `OpenZenoh`, `Bind`, then serving. A
failing step ends the process, and it starts again with nothing kept: Docker does that, on a desk
somebody may. `Environments` are the surroundings that stay as they are: the file, the variables,
where Redis is, `static` (the directory with the pages and the graph file is there) and `docker`.

**`TelemetryFanout`** - one robot's states on their way to the pages while `CoreProcess` comes
and goes.

| Code | Model |
|---|---|
| listener, one task per state | `Report` into a free slot |
| `tx.send` and, if it parses, `update_robot_state` | `Broadcast` (there is no `.await` before it) |
| `broadcast` of tokio: the last 100 messages, each receiver's position (external) | `ring`, `behind`; `Capacity + 1` is a receiver that lags |
| `ws_handler`, `handle_socket` up to the two tasks | `Connect`, of a page that this core serves (`static`) |
| `send_task`: send, or end by `Lagged` or a failed send | `Forward`, `SendLoopEnds` |
| `recv_task`: end by a close | `ReceiveLoopEnds` |
| `select!` | `Abort` |
| `onmessage`, `onclose` with the timer of two seconds | `OnMessage`, `OnClose` |
| a page is closed; a link breaks without a word | `LinkFault` |
| the process dies | `CoreDies` |

The wire between a send and the page holds `Window` messages; `send` waits when it is full.
A page notices a dead link by itself (TCP keep-alive, external). tokio rounds a capacity of
100 up to 128; the model takes `Capacity` as what is kept. `main` keeps a receiver, so that
`send` stores a message also when nobody listens. `Fields` is what a state contains and
`Required` what `State` needs: `heard` records that `update_robot_state` was called.

**`Feed`** - the abstract specification of a connection: who is `live`, what is `owed`,
what is `shown`. `TelemetryFanout` implements it with `live <-` the connections whose
receiver does not lag and whose link is up, `owed <-` the wire and then what the receiver has
still to get from the channel. A cut may lose the end of what is owed, never a message before
one that is shown.

**`BridgeNode`** - Zenoh's thread (`ReceiveOrder`, `StoreOrderId`, `WaitForActionServer`,
`SendGoal`, `MarkNavigating`, `ReceiveCancel`, `CancelGoal`, `MarkCancelled`), the executor
(`GoalResponse`, `Result`, `PublishTelemetry`), Nav2 (`Accept`, `Reject`, `Complete`,
`Cancel`, external) and `Restart`. The two threads share `std::string`s and a `shared_ptr`
without a lock; that is undefined behaviour. `torn` records that the executor wrote `nav_state_`
while the other thread was about to; the result is then any of both values or a garbled one. A read
of the order id during its assignment gives the old, the new or a garbled id. `cancel_nav2_goal`
reads the goal handle twice: `ReceiveCancel` checks that there is one, `CancelGoal` uses the one
there is by then, old or new. A copy that breaks the count of owners kills the process, which is
`Restart`, at this point as at every other.

Each `MC...` module extends its module with the definitions the `.cfg` files use. An
operator that a comment calls *Mutant* is not used by the specification: it is a
plausible bug, kept to show that the property named in `PROJECT.json` notices it.

## 3. The runs

Runs that pass:

| Run | Instance | Shows |
|---|---|---|
| `traffic_locks` | 3 nodes, 2 robots, two paths that meet in `n2`, times to live 0 to 3, of which Redis takes 1 and 2 | `LeaseHonoured`, and that the commands and replies implement `LeaseService` |
| `fleet_concurrent` | chain of 3 nodes, 1 robot, 2 telemetry tasks in any order, 1 order of six kinds (one without a route, one with time to live 0, one with a time to live too long), two faults, fairness | `NodesAheadKept`, `InOrderReleasesAreBehind`, `GrantLostOnlyToLateTask`, `OnlineHasSnapshot`, `SnapshotCatchesUp`, `LeasesLapse` |
| `allocator` | chain, 2 robots, 2 tasks or orders that cross, each state handled before the next, one fault | `ClosestChosen` while robots move and report, for every order of the keys; `GrantHonoured`, `ExclusiveReservation` and `LeaseLostOnlyToOwnerOrTime` with posted orders and dispatches by old states |
| `bridge_races` | 2 orders, 2 cancellations, 1 restart, fairness | `OrderLeadsGoal`, `HandleIsNewest`, `EndWasAnnounced`, `TelemetryCatchesUp` |
| `planner` | all requests between five ids on 1944 maps of four nodes, and the empty map | `RouteIsReal`, `NoneMeansUnreachable`, `OrderVisitsOnce`, `NearlyShortest`, `NeverUnderstated`, `EveryCallReturns` |
| `telemetry_fanout` | 4 environments (the image in Docker; a desk, as it should be, with a broken file, with Redis elsewhere), 1 page, 2 connections, 2 tasks, 2 contents, a channel of 2, a window of 1, one fault, fairness | `ImplementsFeed`, `ServesAgain`, `DashboardCatchesUp`, `GoneConnectionsEnd` |

Runs in which TLC finds what a comment or document says violated by what the code does.
The findings in `PROJECT.json` quote the text:

| Run | What happens |
|---|---|
| `fleet_return_trip` | with tasks strictly in order, on a two-way map: the release that belongs to the first trip takes a node just reserved for the way back |
| `fleet_overtaken` | two telemetry tasks of one robot overlap: the late one finds a newer state stored, takes its node, where the robot stands, for the one that was left, and is about to release it |
| `fleet_lease_expires` | leases are never renewed: the node under a slow robot becomes free and another robot is sent there |
| `allocator_double` | two tasks for one robot, because it counts as idle until it has reported the first |
| `bridge_lost_cancel` | a cancellation before the acceptance is dropped |
| `core_hears_robot` | a state as the bridge writes it lacks four fields that `State` needs: it is broadcast, and the fleet manager never hears of the robot |

The models contain further divergences that need no search, for a line of code shows
them. They are translated as they are, and no run restates them: `SET NX` refuses a node
also to the robot that holds it (`fleet_manager.rs:166`); a late task stores an older
state over a newer one (`:128`); leases are owned by the bare serial number (`:66`); the
allocator reads no heartbeat (`task_allocator.rs:39`) and routes a task past `from_node`
(`:118`); the result of a preempted goal sets the state of its successor
(`bridge_node.cpp:201`), and `NAVIGATING` may be written after it (`:174`); the bridge starts as `NAVIGATING` (`bridge_node.hpp:97`) and never
clears the order id (`bridge_node.cpp:113`).

**What a grant is worth.** `GrantHonoured`, the promise of `dispatch_order`, passes in one run and
fails in another. It holds in `allocator`, where the map has no cycle, as the repository's
`graph.json` has none, and each state of a robot is handled before the next. On a two-way map it
fails even so (`fleet_return_trip`). And nothing in `main.rs` makes the tasks of a robot run one
after the other: where they overlap, a late one gives up the node where the robot stands
(`fleet_overtaken`), and with it goes the promise. What overlapping tasks leave of it is checked in
`fleet_concurrent` and proved for any number of them, on maps without cycles: the nodes that a robot
has still to reach stay leased (`NodesAheadKept`); what is lost is the node under the robot, to a
task that compared its state with a newer one and to nothing else (`GrantLostOnlyToLateTask`); every
other task releases only nodes that were left (`InOrderReleasesAreBehind`). So two robots may come to
rely on one node only where one of them stands (`ReservationsMeetUnderRobots`, proved, in no run).

`NearlyShortest` is the comment "Finds the shortest path" (`planner.rs:185`) as far as it is
true: on maps whose edges are not shorter than the straight line, cutting to millimetres costs
less than a millimetre for every edge of the answer. That the estimate is cut as well, and
no longer obeys the triangle inequality, costs nothing, since a node whose score sinks is opened
again. The instance has maps where the answer is indeed not the shortest. Of the `graph.json` in
the repository it says nothing: the edge from `PickZone_1` to `DropZone_1` is given as 4.6, and
the straight line is 4.6098. (That map is a chain, on which there is only one route.) `NeverUnderstated` holds with parallel
edges too, because A* takes the cheapest of them and `find_edge` the last.
`DashboardCatchesUp` holds although tasks broadcast in any order and slow pages are cut
off: the robot goes on reporting, and pages connect again. It has two premises, and the code gives
neither: that the core has pages, and that it serves again and again. Where there are pages, on a
desk, somebody must start the core when it has ended; where Docker starts it (`ServesAgain`),
there are no pages.

**Bounds.** `Slots` is the number of telemetry tasks of a robot at a time: 2 is the least at which
one overtakes another, and what `fleet_concurrent` and `fleet_overtaken` have. It is 1 where the
question is another one: in the runs of the allocator, with two robots and two requests, and in the
two violations that need no overlap; the theorems about the allocator are for any number. Two
requests of a robot with two overlapping tasks are beyond TLC under fairness; of these,
`NodesAheadAreKept` and `GrantsLostToLateTasks` hold by proof. `MaxFaults` is
1 where calls fail at all, and 2 in `fleet_concurrent`: that many failed calls, lost messages,
broken links or restarts, at any step, with everything else that can happen before and after. Two
requests are enough for a conflict, a return trip and a double allocation, and three nodes for two paths
that overlap without being the same. A time to live of 1 runs out at once and one of 2
survives a step; `MaxTtl` is 2, so 3 is refused by Redis. Four nodes make room for a detour on both ways to the target, a cycle and a tie; three
lengths to a millimetre make costs that are cut. A channel of two messages is overrun by
two tasks while one message is on the wire; a second connection is what a page gets while the
core has not noticed the end of its first. In the bridge the second order preempts the first,
and the second cancellation can follow a restart. `Reqs` is a symmetry set of
`allocator`: no definition tells its members apart. Deadlock is checked except in the bridge, which
really may stop: if `z_open` fails, nothing is tried again.

**Fairness.** `FairSpec` of `FleetManager` has weak fairness of the steps of each telemetry
task and of publishing (tokio runs every task that is ready), of spawning a task for each
robot (the bridge's 5 Hz timer) and of `Tick` (Redis' clock). Clients, robots and faults owe
nothing. `FairSpec` of `Planner` has weak fairness of its step: a plain function runs on.
`FairSpec` of `TelemetryFanout` has weak fairness of the steps of `main`, of Redis' return and, if
Docker runs the core, of its restart (the restart policy in `docker-compose.yml`), of each task and loop (tokio), of reporting (5 Hz) and of the pages; and
strong fairness of `Forward`: a socket that takes messages again and again is sent one before
the receiver lags for ever, since it would have to miss 100 messages each time. `FairSpec` of `BridgeNode` has weak fairness of both threads, the timer and the
callbacks and server of each goal; orders and cancellations may stop.

## 4. The proofs

| Theorem | Module | States |
|---|---|---|
| `TypeCorrect` | `TrafficLocks_proofs` | `Spec => []TypeOK` |
| `LeasesAreHonoured` | `TrafficLocks_proofs` | `Spec => []LeaseHonoured` |
| `LocksImplementService` | `TrafficLocks_proofs` | `Spec => Service!Spec` |
| `TypeCorrect` | `FleetManager_proofs` | `Spec => []TypeOK` |
| `HeartbeatImpliesState` | `FleetManager_proofs` | `Spec => []OnlineHasSnapshot` |
| `LeasesAreNotStolen` | `FleetManager_proofs` | `Spec => LeaseLostOnlyToOwnerOrTime` |
| `NodesAheadAreKept` | `FleetGrants_proofs` | `Spec => []NodesAheadKept`, given P1, P2, P3 |
| `ReleasesAreBehind` | `FleetGrants_proofs` | `Spec => []InOrderReleasesAreBehind`, given P3 |
| `GrantsLostToLateTasks` | `FleetGrants_proofs` | `Spec => GrantLostOnlyToLateTask`, given P1, P2, P3 |
| `ReservationsMeet` | `FleetGrants_proofs` | `Spec => []ReservationsMeetUnderRobots`, given P1, P2, P3 |
| `AllocTypeCorrect` | `TaskAllocator_proofs` | `AllocSpec => []AllocTypeOK` |
| `ClosestIsChosen` | `TaskAllocator_proofs` | `AllocSpec => []ClosestChosen` |
| `TasksStealNoLease` | `TaskAllocator_proofs` | `AllocSpec => LeaseLostOnlyToOwnerOrTime` |
| `TasksKeepNodesAhead` | `TaskAllocator_proofs` | `AllocSpec => []NodesAheadKept`, given P1, P2 of orders and tasks, P3 |
| `TasksLoseGrantsToLateTasks` | `TaskAllocator_proofs` | `AllocSpec => GrantLostOnlyToLateTask`, given the same |
| `TasksMeetUnderRobots` | `TaskAllocator_proofs` | `AllocSpec => []ReservationsMeetUnderRobots`, given the same |
| `TypeCorrect` | `Planner_proofs` | `Spec => []TypeOK` |
| `AnswersARoute` | `Planner_proofs` | `Spec => []RouteIsReal` |
| `NoneIsJustified` | `Planner_proofs` | `Spec => []NoneMeansUnreachable` |
| `OrdersVisitOnce` | `Planner_proofs` | `Spec => []OrderVisitsOnce` |
| `AnswersNearlyShortest` | `Planner_proofs` | `Spec => []NearlyShortest` |
| `DistanceNeverUnderstated` | `Planner_proofs` | `Spec => []NeverUnderstated` |
| `TypeCorrect` | `TelemetryFanout_proofs` | `Spec => []TypeOK` |
| `FeedImplemented` | `TelemetryFanout_proofs` | `Spec => PageFeed!Spec` |
| `TypeCorrect` | `BridgeNode_proofs` | `Spec => []TypeOK` |
| `OrderLeads` | `BridgeNode_proofs` | `Spec => []OrderLeadsGoal` |
| `CancelsAnnounced` | `BridgeNode_proofs` | `Spec => []HandleIsNewest` |
| `EndsAreTrue` | `BridgeNode_proofs` | `Spec => []EndWasAnnounced` |

They hold for every set of nodes, robots, requests, slots, connections and pages, every map
and graph file, every time to live, capacity, number of orders and of faults; the assumptions
are those stated in the modules (the null values are not members, the constants have their
types), which TLC evaluates in the runs, and the premises given with the theorems about grants.

*Locks.* `LeaseTable_proofs` states once what each command does to a table and to one key.
The inductive invariant is `TypeOK /\ LeaseHonoured`: it is inductive because a caller
forgets its leases at the moment it asks for their release or gets an error, and because
the keys and the callers' views count down together. The refinement adds, per action,
which abstract action it is, with the answer it gives: a reservation is a `Reserve` of the path
asked for (an error and promise 0 when the reply is lost), a release is a `GiveUp` of the nodes
that were the caller's, a tick is a `Pass` of the keys that run out, whose promise is at most 1 by
`LeaseHonoured`.

*Fleet manager.* `OnlineHasSnapshot` is not inductive: the heartbeat is touched from a
task. `IInv` adds that a robot with a task about to touch the heartbeat has a stored
state, and, for the types, that orders on their way and current orders are those of
published requests. `LeasesAreNotStolen` is an action property: by cases over `Next`, only
`Reserve`, `Release` and `Elapse` change the table; `Reserve` runs only when no key of
the path is another robot's.

*Grants.* What a granted path is worth depends on the fleet and the map, so these theorems
have premises, each a constant formula of `FleetGrants_proofs`:

* P1 `DistinctSerials`: the keys hold the serial number alone, so two makers' robots with one
  number would share their leases.
* P2 `OneTtl(P)`, of the orders P there are: two requests for one robot ask for one time to
  live. A second order of a robot sets the leases it holds anew (`fleet_manager.rs:222`), also to
  a shorter time.
* P3 `Acyclic`: the nodes can be ranked so that every route climbs, as on the chain of
  `core/static/assets/graph.json`. `fleet_return_trip` shows what happens on other maps.
None of them is about telemetry: the tasks of a robot may be any number, and overlap in any way.

A task is judged by the numbers of states. `Seen(r)` is what the core knows of a robot: the stored
state, and those its tasks hold or compare with. `History` says that of two such states the one
with the lower number names a node the robot was at no later (`NotPast`: ranks only climb), and
`Comparisons` that a task about to release holds two states which differ in their node; together
they are `Trail`. If the state compared with is not the newer one, its node is strictly behind that
of the task, and so behind the robot: `InOrderReleasesAreBehind`. If it is, its node is at most
where the robot is now: what is released is never ahead. `AheadInv` adds that the nodes of a granted
route ranked above the robot's are leased for as long as the grant counts (`AheadLeased`); it is
stated over ranks, not over `Ahead`, because a robot may take another order in between. `LeaseStep`
is what a step may do to leases: a reservation, a release, a tick, or nothing; `LeaseStays` needs
one case for each, and shows that a lease which a grant counts on is lost only in a release of this
node by a task of this robot, from which the theorems follow. `TelemetryMoves` and `DrivesForward`
say of telemetry tasks and robots what `LeaseStep` says of leases. The invariants are shown of such
steps (`FleetMoves`), for any set of orders, so that they hold of every system whose steps are of
this kind: of the fleet manager by `NextMoves`, and of the allocator on top of it by
`AllocFleetMoves`.

*Allocator.* `AllocInv` carries the fleet manager's `IInv` through the steps of the allocator
and adds that a robot whose key is still to be read has a stored state - states are replaced
and never removed - and that the candidate's distance is that of the state that was read, not
of the one stored since. That `find_path` answers one length for given ends
(`DistanceAssumption`) makes "the distance" one number.

The promises about grants are not inherited for free: the allocator dispatches by a state that
may be out of date, from the node a robot was at, and gives one robot two tasks
(`allocator_double`). They hold all the same. A dispatch of the allocator is a `LeaseStep` with the
order of its candidate, whatever became of the candidate since; ranks, unlike `Ahead`, do not ask
where the path of an order begins; and P2 must cover the 60 seconds of tasks
(`task_allocator.rs:121`), as it does for clients that leave `lock_ttl_secs` to its default
(`api.rs:75`). A double allocation costs order, not the leases ahead.

*Router.* `IInv` says what A* keeps between two pops: the tracker leads every node reached but
the start back to one it is joined with; every end of an edge from a closed node has been
reached; the target is never closed. While the route is traced, what is traced is a route to
the target. So an answer is a route, and when the heap is empty the nodes reached are a set
that no edge leaves, which is the witness `NoneMeansUnreachable` asks for. The estimate takes
no part in so much.

*The best route.* `BestInv` adds `RankInv`, what A* keeps of the scores between two pops:

* `Descends`: a score is at least that of the node before it and the edge between, since scores
  only sink. `Relaxed`: no way over a closed node is cheaper than the one known.
* `NoCycle`: the tracker has no cycle. Positive costs would make that plain; edges of no cost
  are possible, and then a cycle of the tracker is one of edges that cost nothing, which the
  strict comparison of the search never closes. It gives `OrderVisitsOnce`.
* `OpenInOrder` and `ClosedInOrder` are about a node `Above` another, one the tracker leads back
  over. A closed node is opened again when its score sinks, and the target may be popped while
  others are open. They say that none of these is above the target then, *whatever the estimate
  is*: the route of an answer is made of closed nodes and the target.

For `NearlyShortest`, take any route. It has a first open node; the nodes before it are closed,
so by `Relaxed` its score is at most the cost of the way there, and its estimate is at most the
rest of the route, by the triangle inequality over the rest (`Triangle`, `SquareRoot`; the
estimate is cut, which only lowers it). The target was popped before it, so `Unit` times the
target's score is at most the length of the route. By `Descends` the answer costs no more than
that score, and each of its edges is less than `Unit` longer than its cost.

For `NeverUnderstated`, the answer's nodes but the target are closed, so by `Relaxed` the score of
the target is at most the cost of the cheapest edges along the answer, and the edges that
`find_edge` returns cost no less.

The sums along a route (`Walk`, `LengthTo`) are recursive functions, and what they hold is shown
by induction over the route. The library's induction theorems take an operator and cannot be used;
the lemma `UpTo` takes a set of numbers instead and goes by its least counterexample, and
`Recursion` shows from it that such a function exists.

*Feed.* `TypeOK` is inductive: it has that a receiver which does not lag is behind by no more
than the ring holds. The refinement goes action by action: `Broadcast` is `Publish`, with the
receivers that were `Capacity` behind as the slow ones; `Forward` moves a message from the
channel to the wire and is a stutter, by a lemma on the last messages of a sequence;
`OnMessage` is `Deliver`; `SendLoopEnds`, `Abort`, `CoreDies`, `OnClose` and `LinkFault` are
`Cut`s.

*Bridge.* `IInv` adds the order of things to the properties: goals are sent in the order of
their numbers, for the order received last and once; callbacks are told only of goals that
were sent; no answer overtakes that of an earlier goal; the order id is as new as every goal
of this process. `HandleIsNewest` needs the third, `OrderLeadsGoal` the last. Once
`cancel_nav2_goal` has found a handle there is one until the process dies, which makes
`CancelGoal` a cancellation of an announced goal.

*Only model-checked*: liveness under fairness, which is beyond the prover -
`SnapshotCatchesUp`, `LeasesLapse`, `TelemetryCatchesUp`, `EveryCallReturns`, `ServesAgain`,
`DashboardCatchesUp` and `GoneConnectionsEnd` - and the violations of the other six runs.
`GrantHonoured` and `ExclusiveReservation`, which overlapping tasks break, are checked in
`allocator` without overlap and not proved: a theorem would have to assume that the states of a
robot are handled one at a time, which `main.rs:122` does not give. Every other safety property of
a passing run is stated by a theorem.

## 5. What is left out

* Robots follow VDA 5050 as the core relies on it: they report the last node and clear the
  order when it is over, and reject an order whose path does not pass where they are. The bridge
  does none of this, its states do not parse, and its own
  behaviour is `BridgeNode`. A composition of the two would have nothing to check: by
  `core_hears_robot` no state of a bridge reaches the fleet manager.
* Topics: the order's builder and the bridge agree on `uagv/v2/...`, the listener's pattern and
  the bridge on `hitkote/v3/...`; the other builders are called by nothing.
* Manufacturer and serial number of a state are those of its topic, also where the allocator takes
  them from the header of the stored state (`task_allocator.rs:86`). In `FleetManager` states
  that do not parse are dropped before the model begins.
* `find_path` is deterministic: `FleetManager` and `TaskAllocator` leave open which of two routes
  of one length it takes.
* A* itself is the library's, modelled from how it is called. Lengths that are no number
  and casts beyond 64 bits do not occur in a JSON file of metres.
* Redis keeps every key until it expires. After a crash it may have lost the last second of
  its append-only file, leases included; nothing in the core could notice, so every property
  about leases fails with such a crash, and a model of it would only repeat that.
* Zenoh delivers orders in order or not at all.
* What a page draws, its sidebar and the choice of a robot; logging, formatting, HTTP status
  codes; poses and the visualization publisher of the bridge (which nothing calls); the launch
  files and one-off scripts, which keep no state.

## 6. Plan

Written, in this order: `LeaseTable`, `LeaseService`, `TrafficLocks`, `FleetManager`,
`TaskAllocator`, `BridgeNode`, `Planner`, `CoreProcess`, `Feed`, `TelemetryFanout`, and the
proofs about each of them.

To come: two robots in `TelemetryFanout`, for a page whose robots share the channel.
