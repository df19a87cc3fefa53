------------------------------ MODULE BridgeNode ------------------------------
(***************************************************************************)
(* The ROS 2 bridge of one robot (bridge_node.cpp).  Two threads share its *)
(* fields without a lock: Zenoh's receiving thread runs on_order_received  *)
(* and on_instant_action_received, and the executor that main spins runs   *)
(* Nav2's goal responses and results and the 5 Hz telemetry timer.  Where  *)
(* both touch a field at once the outcome is undefined, and any value the  *)
(* race can leave behind is allowed.  The Nav2 action server is external.  *)
(* Orders are numbered as they arrive; order g asks for goal g.            *)
(***************************************************************************)
EXTENDS Naturals

CONSTANTS
  MaxOrders,    \* BOUND: the orders received
  MaxCancels,   \* BOUND: the instant actions received
  MaxRestarts   \* BOUND: the times the bridge process dies and is restarted

ASSUME BoundsAssumption ==
  MaxOrders \in Nat \ {0} /\ MaxCancels \in Nat /\ MaxRestarts \in Nat

Goals == 1..MaxOrders

NoOrder == 0       \* the empty current_order_id_
NoGoal == 0        \* the null current_goal_handle_
Garbled == MaxOrders + 1   \* an order id read while it is being written

VARIABLES
  connected,   \* zenoh_connected_
  orderId, nav, handle,   \* current_order_id_, nav_state_, current_goal_handle_
  pc,          \* where the Zenoh thread is in its callback
  torn,        \* the executor wrote nav_state_ while the Zenoh thread was about to
  last,        \* the number of the last order received
  goal,        \* Nav2: the state of each goal
  canceling,   \* Nav2: the goals whose cancellation was requested
  heard,       \* what the callbacks of this process have been told of each goal
  published,   \* the last state published
  wanted,      \* the goals that were sent but not over when a cancelOrder arrived
  cancels, restarts

bridge == <<connected, orderId, nav, handle>>
nav2 == <<goal, canceling>>
counters == <<wanted, cancels, restarts>>
vars == <<bridge, pc, torn, last, nav2, heard, published, counters>>

NavStates == {"NAVIGATING", "CANCELLED", "REJECTED", "FINISHED", "FAILED", "garbled"}

Over == {"succeeded", "aborted", "canceled"}

NotPublished == [order |-> NoOrder, driving |-> FALSE, first |-> TRUE]

Init ==
  /\ connected \in BOOLEAN   \* z_open may fail, and is not tried again
  /\ orderId = NoOrder /\ nav = "NAVIGATING" /\ handle = NoGoal
  /\ pc = "idle" /\ torn = FALSE
  /\ last = 0
  /\ goal = [g \in Goals |-> "none"] /\ canceling = {}
  /\ heard = [g \in Goals |-> "none"]
  /\ published = NotPublished
  /\ wanted = {} /\ cancels = 0 /\ restarts = 0
-------------------------------------------------------------------------------
(* Zenoh's thread: one callback at a time. *)

\* on_order_received starts to write current_order_id_.
ReceiveOrder ==
  /\ connected /\ pc = "idle" /\ last < MaxOrders
  /\ last' = last + 1
  /\ pc' = "order"
  /\ UNCHANGED <<bridge, torn, nav2, heard, published, counters>>

\* Mutant: an order id that is there already is kept.
KeepOrderId ==
  /\ pc = "order"
  /\ orderId' = IF orderId = NoOrder THEN last ELSE orderId
  /\ pc' \in {"wait", "idle"}
  /\ UNCHANGED <<connected, nav, handle, torn, last, nav2, heard, published, counters>>

\* It has written it; without a node that has a position, that is all.
StoreOrderId ==
  /\ pc = "order"
  /\ orderId' = last
  /\ pc' \in {"wait", "idle"}
  /\ UNCHANGED <<connected, nav, handle, torn, last, nav2, heard, published, counters>>

\* dispatch_nav2_goal gives up after two seconds without an action server.
WaitForActionServer ==
  /\ pc = "wait"
  /\ pc' \in {"send", "idle"}
  /\ UNCHANGED <<bridge, torn, last, nav2, heard, published, counters>>

SendGoal ==
  /\ pc = "send"
  /\ goal' = [goal EXCEPT ![last] = "sent"]
  /\ pc' = "sent"
  /\ UNCHANGED <<bridge, torn, last, canceling, heard, published, counters>>

\* What is in nav_state_ after the Zenoh thread wrote value into it.
Written(value) == IF torn THEN {value, nav, "garbled"} ELSE {value}

MarkNavigating ==
  /\ pc = "sent"
  /\ nav' \in Written("NAVIGATING")
  /\ torn' = FALSE /\ pc' = "idle"
  /\ UNCHANGED <<connected, orderId, handle, last, nav2, heard, published, counters>>

\* cancel_nav2_goal: without a handle, that is all.
ReceiveCancel ==
  /\ connected /\ pc = "idle" /\ cancels < MaxCancels
  /\ cancels' = cancels + 1
  /\ wanted' = wanted \cup {g \in Goals : goal[g] \in {"sent", "executing"}}
  /\ pc' = IF handle # NoGoal THEN "handle" ELSE "idle"
  /\ UNCHANGED <<bridge, torn, last, nav2, heard, published, restarts>>

\* async_cancel_goal of the handle as it is by now: the copy made without a lock is
\* the handle before or after an assignment by the executor, or breaks its count of
\* owners and the process dies (Restart).  It throws, and the caller catches, when
\* the result of the goal is known already.
CancelGoal ==
  /\ pc = "handle"
  /\ IF heard[handle] = "accepted"
     THEN canceling' = canceling \cup {handle} /\ pc' = "cancel"
     ELSE UNCHANGED canceling /\ pc' = "idle"
  /\ UNCHANGED <<bridge, torn, last, goal, heard, published, counters>>

MarkCancelled ==
  /\ pc = "cancel"
  /\ nav' \in Written("CANCELLED")
  /\ torn' = FALSE /\ pc' = "idle"
  /\ UNCHANGED <<connected, orderId, handle, last, nav2, heard, published, counters>>
-------------------------------------------------------------------------------
(* The executor. *)

\* A callback sets nav_state_, perhaps while the Zenoh thread does.
SetNav(value) == nav' = value /\ torn' = (pc \in {"sent", "cancel"})

\* Mutant: a handle that is there already is kept.
KeepHandle(g) ==
  /\ goal[g] \notin {"none", "sent"} /\ heard[g] = "none"
  /\ \A h \in 1..(g - 1) : goal[h] # "none" => heard[h] # "none"
  /\ IF goal[g] = "rejected"
     THEN /\ heard' = [heard EXCEPT ![g] = "rejected"]
          /\ SetNav("REJECTED")
          /\ UNCHANGED handle
     ELSE /\ heard' = [heard EXCEPT ![g] = "accepted"]
          /\ handle' = IF handle = NoGoal THEN g ELSE handle
          /\ UNCHANGED <<nav, torn>>
  /\ UNCHANGED <<connected, orderId, pc, last, nav2, published, counters>>

\* goal_response_callback; the responses arrive in the order of the goals.
GoalResponse(g) ==
  /\ goal[g] \notin {"none", "sent"} /\ heard[g] = "none"
  /\ \A h \in 1..(g - 1) : goal[h] # "none" => heard[h] # "none"
  /\ IF goal[g] = "rejected"
     THEN /\ heard' = [heard EXCEPT ![g] = "rejected"]
          /\ SetNav("REJECTED")
          /\ UNCHANGED handle
     ELSE /\ heard' = [heard EXCEPT ![g] = "accepted"]
          /\ handle' = g
          /\ UNCHANGED <<nav, torn>>
  /\ UNCHANGED <<connected, orderId, pc, last, nav2, published, counters>>

\* Mutants: an abort is taken for a success; a state without a name.
AbortIsSuccess(code) == IF code = "canceled" THEN "CANCELLED" ELSE "FINISHED"
Unnamed(code) == IF code = "succeeded" THEN "FINISHED" ELSE code

\* The nav_state_ that result_callback derives from the result code.
Outcome(code) ==
  CASE code = "succeeded" -> "FINISHED"
    [] code = "canceled"  -> "CANCELLED"
    [] OTHER              -> "FAILED"

\* result_callback; the results arrive in the order of the goals too, but not
\* together with the responses.
Result(g) ==
  /\ goal[g] \in Over /\ heard[g] = "accepted"
  /\ \A h \in 1..(g - 1) : heard[h] # "accepted"
  /\ heard' = [heard EXCEPT ![g] = "result"]
  /\ SetNav(Outcome(goal[g]))
  /\ UNCHANGED <<connected, orderId, handle, pc, last, nav2, published, counters>>

\* Mutant: a state is published only when the order has changed.
PublishNewOrder ==
  /\ connected /\ (published.first \/ published.order # orderId)
  /\ published' = [order |-> orderId, driving |-> nav = "NAVIGATING", first |-> FALSE]
  /\ UNCHANGED <<bridge, pc, torn, last, nav2, heard, counters>>

\* publish_telemetry: the fields as the Zenoh thread lets them be read.
PublishTelemetry ==
  /\ connected
  /\ \E o \in IF pc = "order" THEN {orderId, last, Garbled} ELSE {orderId},
        d \in CASE pc = "sent"   -> BOOLEAN
                [] pc = "cancel" -> {nav = "NAVIGATING", FALSE}
                [] OTHER         -> {nav = "NAVIGATING"} :
       published' = [order |-> o, driving |-> d, first |-> FALSE]
  /\ UNCHANGED <<bridge, pc, torn, last, nav2, heard, counters>>

\* The process dies, or is shut down, and is started again: it knows nothing of
\* the goals that Nav2 still has.
Restart ==
  /\ restarts < MaxRestarts /\ restarts' = restarts + 1
  /\ connected' \in BOOLEAN
  /\ orderId' = NoOrder /\ nav' = "NAVIGATING" /\ handle' = NoGoal
  /\ pc' = "idle" /\ torn' = FALSE
  /\ heard' = [g \in Goals |-> IF goal[g] = "none" THEN "none" ELSE "lost"]
  /\ published' = NotPublished
  /\ UNCHANGED <<last, nav2, wanted, cancels>>
-------------------------------------------------------------------------------
(* Nav2: a goal that is accepted preempts the one it executes. *)

Accept(g) ==
  /\ goal[g] = "sent"
  /\ goal' = [h \in Goals |-> IF h = g THEN "executing"
                              ELSE IF goal[h] = "executing" THEN "aborted" ELSE goal[h]]
  /\ UNCHANGED <<bridge, pc, torn, last, canceling, heard, published, counters>>

Ends(g, how) ==
  /\ goal' = [goal EXCEPT ![g] = how]
  /\ UNCHANGED <<bridge, pc, torn, last, canceling, heard, published, counters>>

Reject(g) == goal[g] = "sent" /\ Ends(g, "rejected")

Complete(g) == goal[g] = "executing" /\ \E how \in {"succeeded", "aborted"} : Ends(g, how)

Cancel(g) == goal[g] = "executing" /\ g \in canceling /\ Ends(g, "canceled")
-------------------------------------------------------------------------------
ZenohThread ==
  \/ StoreOrderId \/ WaitForActionServer \/ SendGoal \/ MarkNavigating
  \/ CancelGoal \/ MarkCancelled

Callback(g) == GoalResponse(g) \/ Result(g)

Server(g) == Accept(g) \/ Reject(g) \/ Complete(g) \/ Cancel(g)

Next ==
  \/ ReceiveOrder \/ ReceiveCancel \/ ZenohThread
  \/ \E g \in Goals : Callback(g) \/ Server(g)
  \/ PublishTelemetry
  \/ Restart

Spec == Init /\ [][Next]_vars

\* Both threads run, and Nav2 ends every goal; orders and cancellations may stop.
Fairness ==
  /\ WF_vars(ZenohThread)
  /\ WF_vars(PublishTelemetry)
  /\ \A g \in Goals : WF_vars(Callback(g)) /\ WF_vars(Server(g))

FairSpec == Spec /\ Fairness
-------------------------------------------------------------------------------
\* Every variable has its type.
TypeOK ==
  /\ connected \in BOOLEAN
  /\ orderId \in 0..MaxOrders /\ nav \in NavStates /\ handle \in 0..MaxOrders
  /\ pc \in {"idle", "order", "wait", "send", "sent", "handle", "cancel"} /\ torn \in BOOLEAN
  /\ last \in 0..MaxOrders
  /\ goal \in [Goals -> {"none", "sent", "executing", "rejected"} \cup Over]
  /\ canceling \subseteq Goals /\ wanted \subseteq Goals
  /\ heard \in [Goals -> {"none", "accepted", "rejected", "result", "lost"}]
  /\ published \in [order : 0..(MaxOrders + 1), driving : BOOLEAN, first : BOOLEAN]
  /\ cancels \in 0..MaxCancels /\ restarts \in 0..MaxRestarts

\* The goals of this process that Nav2 has received.
Known == {g \in Goals : goal[g] # "none" /\ heard[g] # "lost"}

\* on_order_received writes the order id before it sends the goal: while Nav2 has
\* a goal of this process to execute, the bridge reports its order or a later one.
OrderLeadsGoal ==
  \A g \in Known : goal[g] \in {"sent", "executing"} => orderId >= g

\* The handle is the one of the last goal whose acceptance was announced, and
\* every cancellation goes to a goal that was announced: none overtakes another.
HandleIsNewest ==
  /\ \A g \in Known : heard[g] \in {"accepted", "result"} => handle >= g
  /\ handle # NoGoal => heard[handle] \in {"accepted", "result"}
  /\ \A g \in canceling : heard[g] \in {"accepted", "result", "lost"}

\* Whatever the threads overwrite, the end that a robot is reported to have reached
\* is one that Nav2 announced for a goal this process sent.
EndWasAnnounced ==
  /\ nav = "FINISHED" => \E g \in Known : goal[g] = "succeeded" /\ heard[g] = "result"
  /\ nav = "FAILED" => \E g \in Known : goal[g] = "aborted" /\ heard[g] = "result"
  /\ nav = "REJECTED" => \E g \in Known : goal[g] = "rejected" /\ heard[g] = "rejected"

\* Nothing is on its way between the threads and Nav2.
Quiet ==
  /\ pc = "idle"
  /\ \A g \in Goals : /\ goal[g] # "sent"
                      /\ goal[g] = "rejected" => heard[g] \in {"rejected", "lost"}
                      /\ goal[g] \in Over => heard[g] \in {"result", "lost"}
                      /\ goal[g] = "executing" => heard[g] # "none" /\ g \notin canceling

\* bridge_node.hpp:55 "requests cancellation of the currently active Nav2 goal":
\* when all is quiet, no goal is executed that a cancelOrder was meant for.
CancelReachesGoal ==
  \A g \in wanted : Quiet => goal[g] # "executing"

\* bridge_node.hpp:73 "publishes real-time robot pose and status": whatever was
\* published in the middle of a callback, in the end the order and the state that
\* the bridge keeps are those it published, unless it has no connection.
TelemetryCatchesUp ==
  <>[](connected => published = [order |-> orderId, driving |-> nav = "NAVIGATING",
                                 first |-> FALSE])
===============================================================================
