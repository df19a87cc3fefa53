---------------------------- MODULE TelemetryFanout ----------------------------
(***************************************************************************)
(* From a robot's state to the dashboards: the telemetry listener and its  *)
(* tasks (core/src/main.rs), the broadcast channel, the WebSocket          *)
(* connections (core/src/ws.rs) and the pages that show the states and     *)
(* reconnect (core/static/js/websocket.js, app.js), over the life of the   *)
(* core process.  One robot reports its content, which may change; a       *)
(* content is a number, and what is told of it is which fields a state has.*)
(***************************************************************************)
EXTENDS CoreProcess, Sequences, FiniteSets

CONSTANTS
  Slots,        \* BOUND: telemetry tasks that run at once
  Conns,        \* BOUND: connections, open or not
  Dashboards,   \* pages
  MaxContent,   \* BOUND: the contents that the robot reports, one after another
  Capacity,     \* messages that the broadcast channel keeps
  Window,       \* messages between a send to the socket and the page
  Fields        \* the fields of a state as the robot writes it

ASSUME FanoutAssumption ==
  /\ MaxContent \in Nat \ {0} /\ Capacity \in Nat \ {0} /\ Window \in Nat \ {0}

NoConn == "none"
ASSUME NoConnAssumption == NoConn \notin Conns

Nothing == 0
Contents == 1..MaxContent

VARIABLES
  sent,     \* what the robot reports at present
  task,     \* the state that each telemetry task carries
  heard,    \* update_robot_state has been called
  ring,     \* the newest messages of the channel, the oldest first
  behind,   \* how many of them a receiver has not had; Capacity + 1: it lags
  sends, receives,   \* the connections whose send_task, recv_task runs
  link,     \* the connection between the two: up, closed by the page, or dead
  wire,     \* what was sent and has not reached the page
  socket,   \* the connection that a page has
  shown     \* fleetState of a page

channel == <<ring, behind>>
loops == <<sends, receives>>
network == <<link, wire>>
pages == <<socket, shown>>
fanout == <<sent, task, heard, channel, loops, network, pages>>
vars == <<core, fanout>>

Init ==
  /\ CoreInit
  /\ sent = 1 /\ task = [s \in Slots |-> Nothing] /\ heard = FALSE
  /\ ring = << >> /\ behind = [k \in Conns |-> 0]
  /\ sends = {} /\ receives = {}
  /\ link = [k \in Conns |-> "closed"] /\ wire = [k \in Conns |-> << >>]
  /\ socket = [d \in Dashboards |-> NoConn]
  /\ shown = [d \in Dashboards |-> Nothing]
-------------------------------------------------------------------------------
(* The telemetry listener and its tasks. *)

Change ==
  /\ sent < MaxContent /\ sent' = sent + 1
  /\ UNCHANGED <<core, task, heard, channel, loops, network, pages>>

\* A sample arrives while the listener runs, and is given to a task of its own.
Report(s) ==
  /\ Listening /\ task[s] = Nothing
  /\ task' = [task EXCEPT ![s] = sent]
  /\ UNCHANGED <<core, sent, heard, channel, loops, network, pages>>

\* What serde needs of a State: all that is neither an Option nor has a default.
Required == {"header", "orderId", "orderUpdateId", "lastNodeId", "lastNodeSequenceId",
             "driving", "batteryState", "operatingMode"}

OneMore(n) == IF n <= Capacity THEN n + 1 ELSE n

\* What publish_telemetry of the bridge writes.
BridgeFields == {"headerId", "timestamp", "version", "manufacturer", "serialNumber",
                 "orderId", "lastNodeSequenceId", "driving", "agvPosition",
                 "operatingMode", "safetyStatus"}

\* Mutant: one message too many is kept.
NewestAndOne(q) == SubSeq(q, IF Len(q) > Capacity + 1 THEN 2 ELSE 1, Len(q))

\* The newest Capacity messages.
Newest(q) == SubSeq(q, IF Len(q) > Capacity THEN Len(q) - Capacity + 1 ELSE 1, Len(q))

\* The raw state goes to every receiver; update_robot_state gets it if it parses.
Broadcast(s) ==
  /\ task[s] # Nothing
  /\ task' = [task EXCEPT ![s] = Nothing]
  /\ ring' = Newest(Append(ring, task[s]))
  /\ behind' = [k \in Conns |-> IF k \in sends THEN OneMore(behind[k]) ELSE 0]
  /\ heard' = (heard \/ Required \subseteq Fields)
  /\ UNCHANGED <<core, sent, loops, network, pages>>
-------------------------------------------------------------------------------
(* handle_socket. *)

Pending(k) == SubSeq(ring, Len(ring) - behind[k] + 1, Len(ring))

\* Mutant: a receiver that lagged goes on with the oldest message there is.
SkipsLag(k) ==
  /\ k \in sends /\ link[k] = "up" /\ Len(wire[k]) < Window
  /\ behind[k] > 0
  /\ LET n == IF behind[k] > Capacity THEN Capacity ELSE behind[k]
     IN  /\ wire' = [wire EXCEPT ![k] = Append(@, ring[Len(ring) - n + 1])]
         /\ behind' = [behind EXCEPT ![k] = n - 1]
  /\ UNCHANGED <<core, sent, task, heard, ring, loops, link, pages>>

\* send_task: the next message is sent, when the socket takes it.
Forward(k) ==
  /\ k \in sends /\ link[k] = "up" /\ Len(wire[k]) < Window
  /\ behind[k] \in 1..Capacity
  /\ wire' = [wire EXCEPT ![k] = Append(@, Head(Pending(k)))]
  /\ behind' = [behind EXCEPT ![k] = @ - 1]
  /\ UNCHANGED <<core, sent, task, heard, ring, loops, link, pages>>

\* send_task ends: recv is Err(Lagged), or the send fails.
SendLoopEnds(k) ==
  /\ k \in sends
  /\ behind[k] > Capacity \/ (behind[k] > 0 /\ link[k] # "up")
  /\ sends' = sends \ {k} /\ behind' = [behind EXCEPT ![k] = 0]
  /\ UNCHANGED <<core, sent, task, heard, ring, receives, network, pages>>

\* recv_task ends: a Close message.
ReceiveLoopEnds(k) ==
  /\ k \in receives /\ link[k] = "closed"
  /\ receives' = receives \ {k}
  /\ UNCHANGED <<core, sent, task, heard, channel, sends, network, pages>>

\* Mutant: the other loop is left to itself.
Detach(k) == k \notin sends \cup receives /\ UNCHANGED vars

\* select!: one loop has ended and the other is aborted.
Abort(k) ==
  /\ (k \in sends) # (k \in receives)
  /\ sends' = sends \ {k} /\ receives' = receives \ {k}
  /\ behind' = [behind EXCEPT ![k] = 0]
  /\ UNCHANGED <<core, sent, task, heard, ring, network, pages>>

\* The process ends: its tasks, its channel and its ends of the connections go.
CoreDies ==
  /\ Crash \/ BindFails
  /\ task' = [s \in Slots |-> Nothing] /\ heard' = FALSE
  /\ ring' = << >> /\ behind' = [k \in Conns |-> 0]
  /\ sends' = {} /\ receives' = {}
  /\ UNCHANGED <<sent, network, pages>>

Main == (StartUp \/ Restart \/ RedisStops \/ RedisStarts) /\ UNCHANGED fanout
-------------------------------------------------------------------------------
(* The pages. *)

Unused(k) ==
  k \notin sends \cup receives /\ \A d \in Dashboards : socket[d] # k

\* connectWebSocket, of a page that the core itself serves: ws_handler upgrades, and
\* handle_socket subscribes.
Connect(d) ==
  /\ Serving /\ env.static /\ socket[d] = NoConn
  /\ \E k \in Conns :
       /\ Unused(k)
       /\ socket' = [socket EXCEPT ![d] = k]
       /\ sends' = sends \cup {k} /\ receives' = receives \cup {k}
       /\ behind' = [behind EXCEPT ![k] = 0]
       /\ link' = [link EXCEPT ![k] = "up"] /\ wire' = [wire EXCEPT ![k] = << >>]
  /\ UNCHANGED <<core, sent, task, heard, ring, shown>>

\* onmessage: what arrives replaces what was shown.
OnMessage(d) ==
  /\ socket[d] # NoConn
  /\ LET k == socket[d]
     IN  /\ link[k] = "up" /\ wire[k] # << >>
         /\ shown' = [shown EXCEPT ![d] = Head(wire[k])]
         /\ wire' = [wire EXCEPT ![k] = Tail(@)]
  /\ UNCHANGED <<core, sent, task, heard, channel, loops, link, socket>>

\* onclose: the core's end is closed and all it sent is read, or the link is found
\* dead; the page connects again after two seconds.
OnClose(d) ==
  /\ socket[d] # NoConn
  /\ LET k == socket[d]
     IN  /\ \/ link[k] = "up" /\ wire[k] = << >> /\ k \notin sends \cup receives
            \/ link[k] = "dead"
         /\ wire' = [wire EXCEPT ![k] = << >>]
  /\ socket' = [socket EXCEPT ![d] = NoConn]
  /\ UNCHANGED <<core, sent, task, heard, channel, loops, link, shown>>

\* The page is closed and opened anew, or the link breaks without a word.
LinkFault(d) ==
  /\ faults < MaxFaults /\ faults' = faults + 1
  /\ socket[d] # NoConn
  /\ LET k == socket[d]
     IN  /\ link[k] = "up"
         /\ wire' = [wire EXCEPT ![k] = << >>]
         /\ \/ /\ link' = [link EXCEPT ![k] = "closed"]
               /\ socket' = [socket EXCEPT ![d] = NoConn]
               /\ shown' = [shown EXCEPT ![d] = Nothing]
            \/ /\ link' = [link EXCEPT ![k] = "dead"]
               /\ UNCHANGED pages
  /\ UNCHANGED <<process, env, redisUp, sent, task, heard, channel, loops>>

Next ==
  \/ Change \/ Main \/ CoreDies
  \/ \E s \in Slots : Report(s) \/ Broadcast(s)
  \/ \E k \in Conns : Forward(k) \/ SendLoopEnds(k) \/ ReceiveLoopEnds(k) \/ Abort(k)
  \/ \E d \in Dashboards : Connect(d) \/ OnMessage(d) \/ OnClose(d) \/ LinkFault(d)

Spec == Init /\ [][Next]_vars

\* Docker starts the process again, robots report at 5 Hz, and the runtime runs every
\* task.  A receiver falls Capacity messages behind only when its socket takes
\* none for that long: whenever the socket takes one again and again, it is sent.
Fairness ==
  /\ WF_vars(StartUp /\ UNCHANGED fanout) /\ WF_vars(RedisStarts /\ UNCHANGED fanout)
  /\ WF_vars(env.docker /\ Restart /\ UNCHANGED fanout)
  /\ \A s \in Slots : WF_vars(Report(s)) /\ WF_vars(Broadcast(s))
  /\ \A k \in Conns :
       /\ SF_vars(Forward(k))
       /\ WF_vars(SendLoopEnds(k)) /\ WF_vars(ReceiveLoopEnds(k)) /\ WF_vars(Abort(k))
  /\ \A d \in Dashboards :
       WF_vars(Connect(d)) /\ WF_vars(OnMessage(d)) /\ WF_vars(OnClose(d))

FairSpec == Spec /\ Fairness
-------------------------------------------------------------------------------
\* Every variable has its type; a receiver is behind by no more than there is.
TypeOK ==
  /\ CoreTypeOK
  /\ sent \in Contents /\ task \in [Slots -> {Nothing} \cup Contents] /\ heard \in BOOLEAN
  /\ ring \in Seq(Contents) /\ Len(ring) <= Capacity
  /\ behind \in [Conns -> 0..(Capacity + 1)]
  /\ \A k \in Conns : behind[k] <= Capacity => behind[k] <= Len(ring)
  /\ sends \subseteq Conns /\ receives \subseteq Conns
  /\ link \in [Conns -> {"up", "closed", "dead"}]
  /\ wire \in [Conns -> Seq(Contents)] /\ \A k \in Conns : Len(wire[k]) <= Window
  /\ socket \in [Dashboards -> Conns \cup {NoConn}]
  /\ shown \in [Dashboards -> {Nothing} \cup Contents]

\* A connection is live from the subscription until its receiver lags, one of its
\* loops ends or the link breaks; it owes what is on the wire and in the channel.
Live == {k \in sends : behind[k] <= Capacity /\ link[k] = "up"}
Owed == [k \in Conns |-> IF k \in Live THEN wire[k] \o Pending(k) ELSE wire[k]]

PageFeed == INSTANCE Feed WITH live <- Live, owed <- Owed

\* ws.rs:43 "Forward broadcasted telemetry messages": a page is told on one
\* connection what was broadcast since it was opened, in order and without a gap;
\* a receiver that lags ends its connection and never skips what it missed.
ImplementsFeed == PageFeed!Spec

\* docker-compose.yml:34 "restart: unless-stopped": where Docker runs the core it serves
\* again after every failure, if its configuration can be read and names the right
\* Redis: it does not need the static directory, which the image lacks.
ServesAgain == CanServe /\ env.docker => []<>Serving

\* main.rs:152 "Streams live telemetry": once the robot reports v for good, every
\* page comes to show v for good, past late tasks, lags, broken links and restarts,
\* if the core has pages and somebody starts it whenever it has ended.
DashboardCatchesUp ==
  \A d \in Dashboards, v \in Contents :
    env.static /\ []<>Serving /\ <>[](sent = v) => <>[](shown[d] = v)

\* A connection whose page is gone is dropped: its loops do not run for ever.
GoneConnectionsEnd ==
  \A k \in Conns :
    [](link[k] # "up" => <>(link[k] = "up" \/ k \notin sends \cup receives))

\* main.rs:128 "Deserialize the payload into VDA 5050 state and update the robot
\* state in Redis": when a state has been broadcast and no task is left, the fleet
\* manager has been told of the robot.
BroadcastIsHeard ==
  (\A s \in Slots : task[s] = Nothing) /\ ring # << >> => heard
================================================================================
