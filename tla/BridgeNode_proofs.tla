--------------------------- MODULE BridgeNode_proofs ---------------------------
(***************************************************************************)
(* What the bridge keeps although its two threads share fields without a   *)
(* lock, for any number of orders, cancellations and restarts.  The        *)
(* properties are inductive together with the order in which goals are     *)
(* sent and answered: a goal is sent only for the order received last,     *)
(* once, and its answer never overtakes that of an earlier goal.           *)
(***************************************************************************)
EXTENDS BridgeNode, TLAPS

\* Goals are sent in the order of their numbers.
SentInOrder == \A g \in Goals : goal[g] # "none" => g <= last

\* Callbacks are told only of goals that were sent.
HeardOfSent == \A g \in Goals : heard[g] # "none" => goal[g] # "none"

\* While the Zenoh thread handles an order, its goal is not sent before, and not
\* before the order id is written; while it cancels there is a handle.
InCallback ==
  /\ pc \in {"order", "wait", "send", "sent"} => last \in Goals
  /\ pc \in {"wait", "send", "sent"} => orderId = last
  /\ pc \in {"order", "wait", "send"} => goal[last] = "none"
  /\ pc = "handle" => handle # NoGoal

\* An answer never overtakes that of an earlier goal.
AnsweredInOrder ==
  \A g, h \in Goals :
    g < h /\ goal[g] # "none" /\ heard[h] \in {"accepted", "rejected", "result"}
      => heard[g] # "none"

\* The order id is as new as every goal of this process.
OrderIdLeads == \A g \in Known : g <= orderId

IInv ==
  /\ TypeOK /\ SentInOrder /\ HeardOfSent /\ InCallback /\ AnsweredInOrder
  /\ OrderIdLeads /\ HandleIsNewest /\ EndWasAnnounced

\* The parts that are about the goals, the threads and the answers.
Others == SentInOrder /\ HeardOfSent /\ InCallback /\ AnsweredInOrder /\ OrderIdLeads
-------------------------------------------------------------------------------
LEMMA StartsInvariant ==
  ASSUME Init
  PROVE  IInv
<1> USE BoundsAssumption DEF Init, Goals, NoGoal, NoOrder, Known
<1>1. TypeOK
  <2>1. /\ goal \in [Goals -> {"none", "sent", "executing", "rejected"} \cup Over]
        /\ heard \in [Goals -> {"none", "accepted", "rejected", "result", "lost"}]
    OBVIOUS
  <2>2. published \in [order : 0..(MaxOrders + 1), driving : BOOLEAN, first : BOOLEAN]
    BY DEF NotPublished
  <2>3. /\ connected \in BOOLEAN /\ torn \in BOOLEAN
        /\ nav \in NavStates /\ pc \in {"idle", "order", "wait", "send", "sent", "handle", "cancel"}
    BY DEF NavStates
  <2>4. /\ orderId \in 0..MaxOrders /\ handle \in 0..MaxOrders /\ last \in 0..MaxOrders
        /\ canceling \subseteq Goals /\ wanted \subseteq Goals
        /\ cancels \in 0..MaxCancels /\ restarts \in 0..MaxRestarts
    OBVIOUS
  <2> QED
    BY <2>1, <2>2, <2>3, <2>4 DEF TypeOK
<1>2. Others
  BY DEF Others, SentInOrder, HeardOfSent, InCallback, AnsweredInOrder, OrderIdLeads
<1>3. HandleIsNewest /\ EndWasAnnounced
  BY DEF HandleIsNewest, EndWasAnnounced
<1> QED
  BY <1>1, <1>2, <1>3 DEF IInv, Others
-------------------------------------------------------------------------------
(* The Zenoh thread. *)

LEMMA ReceiveOrderKeeps ==
  ASSUME IInv, ReceiveOrder
  PROVE  IInv'
<1> USE BoundsAssumption DEF IInv, ReceiveOrder, bridge, nav2, counters
<1>1. TypeOK'
  BY DEF TypeOK
<1>2. last \in 0..MaxOrders /\ last' = last + 1 /\ last' \in Goals /\ goal[last'] = "none"
  BY DEF TypeOK, SentInOrder, Goals
<1>3. Others'
  BY <1>2 DEF Others, SentInOrder, HeardOfSent, InCallback, AnsweredInOrder, OrderIdLeads,
              Known, Goals
<1>4. HandleIsNewest' /\ EndWasAnnounced'
  BY DEF HandleIsNewest, EndWasAnnounced, Known
<1> QED
  BY <1>1, <1>3, <1>4 DEF Others

LEMMA StoreOrderIdKeeps ==
  ASSUME IInv, StoreOrderId
  PROVE  IInv'
<1> USE BoundsAssumption DEF IInv, StoreOrderId, nav2, counters
<1>1. TypeOK'
  BY DEF TypeOK
<1>2. Others'
  BY DEF Others, SentInOrder, HeardOfSent, InCallback, AnsweredInOrder, OrderIdLeads, Known
<1>3. HandleIsNewest' /\ EndWasAnnounced'
  BY DEF HandleIsNewest, EndWasAnnounced, Known
<1> QED
  BY <1>1, <1>2, <1>3 DEF Others

\* The waiting for the server and the marks after a call touch no goal.
LEMMA WaitingAndMarksKeep ==
  ASSUME IInv, WaitForActionServer \/ MarkNavigating \/ MarkCancelled
  PROVE  IInv'
<1> USE DEF IInv, WaitForActionServer, MarkNavigating, MarkCancelled, bridge, nav2, counters
<1>1. nav' \in {nav, "NAVIGATING", "CANCELLED", "garbled"}
  BY DEF Written
<1>2. TypeOK'
  BY <1>1 DEF TypeOK, NavStates
<1>3. Others'
  BY DEF Others, SentInOrder, HeardOfSent, InCallback, AnsweredInOrder, OrderIdLeads, Known
<1>4. HandleIsNewest' /\ EndWasAnnounced'
  BY <1>1 DEF HandleIsNewest, EndWasAnnounced, Known
<1> QED
  BY <1>2, <1>3, <1>4 DEF Others

LEMMA SendGoalKeeps ==
  ASSUME IInv, SendGoal
  PROVE  IInv'
<1> USE DEF IInv, SendGoal, bridge, counters
<1>1. /\ last \in Goals /\ goal[last] = "none" /\ heard[last] = "none" /\ orderId = last
      /\ goal \in [Goals -> {"none", "sent", "executing", "rejected"} \cup Over]
      /\ goal' = [goal EXCEPT ![last] = "sent"]
  BY DEF TypeOK, InCallback, HeardOfSent
<1>2. TypeOK'
  BY <1>1 DEF TypeOK
<1>3. SentInOrder' /\ HeardOfSent'
  BY <1>1 DEF SentInOrder, HeardOfSent, Goals
<1>4. InCallback'
  BY <1>1 DEF InCallback
<1>5. AnsweredInOrder'
  <2> SUFFICES ASSUME NEW g \in Goals, NEW h \in Goals, g < h, goal'[g] # "none",
                      heard[h] \in {"accepted", "rejected", "result"}
               PROVE  heard[g] # "none"
    BY DEF AnsweredInOrder
  <2>1. h <= last
    BY DEF HeardOfSent, SentInOrder
  <2>2. g # last
    BY <2>1 DEF Goals
  <2> QED
    BY <1>1, <2>2 DEF AnsweredInOrder
<1>6. OrderIdLeads'
  BY <1>1 DEF OrderIdLeads, Known, Goals
<1>7. HandleIsNewest'
  BY <1>1 DEF HandleIsNewest, Known
<1>8. EndWasAnnounced'
  BY <1>1 DEF EndWasAnnounced, Known
<1> QED
  BY <1>2, <1>3, <1>4, <1>5, <1>6, <1>7, <1>8

LEMMA ReceiveCancelKeeps ==
  ASSUME IInv, ReceiveCancel
  PROVE  IInv'
<1> USE BoundsAssumption DEF IInv, ReceiveCancel, bridge, nav2
<1>1. TypeOK'
  BY DEF TypeOK
<1>2. Others'
  BY DEF Others, SentInOrder, HeardOfSent, InCallback, AnsweredInOrder, OrderIdLeads, Known
<1>3. HandleIsNewest' /\ EndWasAnnounced'
  BY DEF HandleIsNewest, EndWasAnnounced, Known
<1> QED
  BY <1>1, <1>2, <1>3 DEF Others

LEMMA CancelGoalKeeps ==
  ASSUME IInv, CancelGoal
  PROVE  IInv'
<1> USE DEF IInv, CancelGoal, bridge, counters
<1>1. /\ handle \in Goals
      /\ canceling' = canceling \/ (canceling' = canceling \cup {handle}
                                      /\ heard[handle] = "accepted")
      /\ pc' \in {"idle", "cancel"}
  BY DEF TypeOK, InCallback, Goals, NoGoal
<1>2. TypeOK'
  BY <1>1 DEF TypeOK
<1>3. Others'
  BY <1>1 DEF Others, SentInOrder, HeardOfSent, InCallback, AnsweredInOrder, OrderIdLeads, Known
<1>4. HandleIsNewest' /\ EndWasAnnounced'
  BY <1>1 DEF HandleIsNewest, EndWasAnnounced, Known
<1> QED
  BY <1>2, <1>3, <1>4 DEF Others
-------------------------------------------------------------------------------
(* The executor. *)

LEMMA GoalResponseKeeps ==
  ASSUME IInv, NEW g \in Goals, GoalResponse(g)
  PROVE  IInv'
<1> USE DEF IInv, nav2, counters
<1>1. /\ goal[g] \notin {"none", "sent"} /\ heard[g] = "none"
      /\ \A h \in 1..(g - 1) : goal[h] # "none" => heard[h] # "none"
      /\ goal' = goal /\ canceling' = canceling /\ last' = last /\ pc' = pc /\ orderId' = orderId
  BY DEF GoalResponse
<1>2. \/ /\ goal[g] = "rejected" /\ heard' = [heard EXCEPT ![g] = "rejected"]
         /\ nav' = "REJECTED" /\ handle' = handle /\ torn' \in BOOLEAN
      \/ /\ goal[g] # "rejected" /\ heard' = [heard EXCEPT ![g] = "accepted"]
         /\ nav' = nav /\ handle' = g /\ torn' = torn
  <2>1. torn \in BOOLEAN /\ (pc \in {"sent", "cancel"}) \in BOOLEAN
    BY DEF TypeOK
  <2>2. CASE goal[g] = "rejected"
    BY <2>1, <2>2 DEF GoalResponse, SetNav
  <2>3. CASE goal[g] # "rejected"
    BY <2>3 DEF GoalResponse
  <2> QED
    BY <2>2, <2>3
<1>3. heard \in [Goals -> {"none", "accepted", "rejected", "result", "lost"}]
  BY DEF TypeOK
<1>4. \A h \in Goals : h # g => heard'[h] = heard[h]
  BY <1>2, <1>3
<1>5. heard'[g] \in {"accepted", "rejected"}
  BY <1>2, <1>3
<1>6. TypeOK'
  BY <1>1, <1>2, <1>3 DEF TypeOK, GoalResponse, Goals, NavStates
<1>7. SentInOrder' /\ HeardOfSent'
  BY <1>1, <1>4 DEF SentInOrder, HeardOfSent
<1>8. InCallback'
  BY <1>1, <1>2 DEF InCallback, Goals, NoGoal
<1>9. AnsweredInOrder'
  <2> SUFFICES ASSUME NEW f \in Goals, NEW h \in Goals, f < h, goal[f] # "none",
                      heard'[h] \in {"accepted", "rejected", "result"}
               PROVE  heard'[f] # "none"
    BY <1>1 DEF AnsweredInOrder
  <2>1. CASE h = g
    <3>1. f \in 1..(g - 1)
      BY <2>1 DEF Goals
    <3> QED
      BY <1>1, <1>4, <2>1, <3>1 DEF Goals
  <2>2. CASE h # g
    BY <1>4, <1>5, <2>2 DEF AnsweredInOrder
  <2> QED
    BY <2>1, <2>2
<1>10. OrderIdLeads'
  BY <1>1, <1>4 DEF OrderIdLeads, Known
<1>11. HandleIsNewest'
  <2>1. \A h \in Goals : heard[h] \in {"accepted", "result"} => h <= g
    BY <1>1 DEF AnsweredInOrder, Goals
  <2>2. \A h \in Known' : heard'[h] \in {"accepted", "result"} => handle' >= h
    <3> SUFFICES ASSUME NEW h \in Known', heard'[h] \in {"accepted", "result"}
                 PROVE  handle' >= h
      OBVIOUS
    <3>1. h \in Goals
      BY DEF Known
    <3>2. CASE goal[g] = "rejected"
      <4>1. h # g /\ handle' = handle
        BY <1>2, <1>3, <3>2
      <4> QED
        BY <1>1, <1>4, <3>1, <4>1 DEF HandleIsNewest, Known
    <3>3. CASE goal[g] # "rejected"
      BY <1>2, <1>4, <2>1, <3>1, <3>3 DEF Goals
    <3> QED
      BY <3>2, <3>3
  <2>3. handle' # NoGoal => heard'[handle'] \in {"accepted", "result"}
    <3>1. CASE handle' = handle
      <4>1. handle # NoGoal => handle \in Goals /\ handle # g
        BY <1>1 DEF HandleIsNewest, TypeOK, Goals, NoGoal
      <4> QED
        BY <1>4, <3>1, <4>1 DEF HandleIsNewest
    <3>2. CASE goal[g] # "rejected"
      BY <1>2, <1>3, <3>2
    <3> QED
      BY <1>2, <3>1, <3>2
  <2>4. \A h \in canceling' : heard'[h] \in {"accepted", "result", "lost"}
    BY <1>1, <1>4 DEF HandleIsNewest, TypeOK
  <2> QED
    BY <2>2, <2>3, <2>4 DEF HandleIsNewest
<1>12. EndWasAnnounced'
  BY <1>1, <1>2, <1>3, <1>4 DEF EndWasAnnounced, Known
<1> QED
  BY <1>6, <1>7, <1>8, <1>9, <1>10, <1>11, <1>12

LEMMA ResultKeeps ==
  ASSUME IInv, NEW g \in Goals, Result(g)
  PROVE  IInv'
<1> USE DEF IInv, nav2, counters
<1>1. /\ goal[g] \in Over /\ heard[g] = "accepted" /\ heard' = [heard EXCEPT ![g] = "result"]
      /\ nav' = Outcome(goal[g]) /\ torn' \in BOOLEAN
      /\ goal' = goal /\ canceling' = canceling /\ last' = last /\ pc' = pc
      /\ orderId' = orderId /\ handle' = handle
  BY DEF Result, SetNav
<1>2. heard \in [Goals -> {"none", "accepted", "rejected", "result", "lost"}]
  BY DEF TypeOK
<1>3. heard'[g] = "result" /\ \A h \in Goals : h # g => heard'[h] = heard[h]
  BY <1>1, <1>2
<1>4. /\ goal[g] = "succeeded" => nav' = "FINISHED"
      /\ goal[g] = "canceled" => nav' = "CANCELLED"
      /\ goal[g] = "aborted" => nav' = "FAILED"
  BY <1>1 DEF Outcome
<1>5. TypeOK'
  BY <1>1, <1>2, <1>4 DEF TypeOK, Result, NavStates, Over
<1>6. SentInOrder' /\ HeardOfSent' /\ InCallback'
  BY <1>1, <1>3 DEF SentInOrder, HeardOfSent, InCallback, Over
<1>7. AnsweredInOrder'
  BY <1>1, <1>3 DEF AnsweredInOrder
<1>8. OrderIdLeads'
  BY <1>1, <1>3 DEF OrderIdLeads, Known
<1>9. HandleIsNewest'
  <2>1. \A h \in Known' : heard'[h] \in {"accepted", "result"} => handle' >= h
    BY <1>1, <1>3 DEF HandleIsNewest, Known
  <2>2. handle' # NoGoal => heard'[handle'] \in {"accepted", "result"}
    BY <1>1, <1>3 DEF HandleIsNewest, TypeOK, Goals, NoGoal
  <2>3. \A h \in canceling' : heard'[h] \in {"accepted", "result", "lost"}
    BY <1>1, <1>3 DEF HandleIsNewest, TypeOK
  <2> QED
    BY <2>1, <2>2, <2>3 DEF HandleIsNewest
<1>10. EndWasAnnounced'
  <2>1. g \in Known'
    BY <1>1, <1>3 DEF Known, Over
  <2> QED
    BY <1>1, <1>3, <1>4, <2>1 DEF EndWasAnnounced, Over
<1> QED
  BY <1>5, <1>6, <1>7, <1>8, <1>9, <1>10

LEMMA PublishTelemetryKeeps ==
  ASSUME IInv, PublishTelemetry
  PROVE  IInv'
<1> USE BoundsAssumption DEF IInv, bridge, nav2, counters
<1>1. PICK o \in IF pc = "order" THEN {orderId, last, Garbled} ELSE {orderId},
           d \in BOOLEAN :
        published' = [order |-> o, driving |-> d, first |-> FALSE]
  BY DEF PublishTelemetry
<1>2. o \in 0..(MaxOrders + 1)
  BY DEF TypeOK, Garbled
<1>3. TypeOK'
  BY <1>1, <1>2 DEF TypeOK, PublishTelemetry
<1>4. UNCHANGED <<orderId, nav, handle, pc, last, goal, canceling, heard>>
  BY DEF PublishTelemetry
<1>5. Others' /\ HandleIsNewest' /\ EndWasAnnounced'
  BY <1>4 DEF Others, SentInOrder, HeardOfSent, InCallback, AnsweredInOrder, OrderIdLeads,
              Known, HandleIsNewest, EndWasAnnounced
<1> QED
  BY <1>3, <1>5 DEF Others

\* The new process knows no goal.
LEMMA RestartKeeps ==
  ASSUME IInv, Restart
  PROVE  IInv'
<1> USE BoundsAssumption DEF IInv, nav2
<1>1. /\ heard' = [g \in Goals |-> IF goal[g] = "none" THEN "none" ELSE "lost"]
      /\ goal' = goal /\ last' = last /\ canceling' = canceling /\ pc' = "idle"
      /\ orderId' = NoOrder /\ nav' = "NAVIGATING" /\ handle' = NoGoal
  BY DEF Restart
<1>2. Known' = {}
  BY <1>1 DEF Known
<1>3. TypeOK'
  <2>1. heard' \in [Goals -> {"none", "accepted", "rejected", "result", "lost"}]
    BY <1>1
  <2>2. published' \in [order : 0..(MaxOrders + 1), driving : BOOLEAN, first : BOOLEAN]
    BY DEF Restart, NotPublished, NoOrder
  <2>3. orderId' \in 0..MaxOrders /\ handle' \in 0..MaxOrders /\ restarts' \in 0..MaxRestarts
    BY <1>1 DEF TypeOK, Restart, NoOrder, NoGoal
  <2>4. nav' \in NavStates
    BY <1>1 DEF NavStates
  <2> QED
    BY <1>1, <2>1, <2>2, <2>3, <2>4 DEF TypeOK, Restart
<1>4. Others'
  BY <1>1, <1>2 DEF Others, SentInOrder, HeardOfSent, InCallback, AnsweredInOrder,
                    OrderIdLeads
<1>5. HandleIsNewest'
  <2>1. \A g \in canceling : g \in Goals /\ goal[g] # "none"
    BY DEF HandleIsNewest, HeardOfSent, TypeOK
  <2> QED
    BY <1>1, <1>2, <2>1 DEF HandleIsNewest
<1>6. EndWasAnnounced'
  BY <1>1 DEF EndWasAnnounced
<1> QED
  BY <1>3, <1>4, <1>5, <1>6 DEF Others
-------------------------------------------------------------------------------
(* Nav2. *)

\* Nav2 moves on goals that it has been sent and that are not over.
LEMMA ServerEffect ==
  ASSUME TypeOK, NEW g \in Goals, Server(g)
  PROVE  /\ goal' \in [Goals -> {"none", "sent", "executing", "rejected"} \cup Over]
         /\ \A h \in Goals :
              \/ goal'[h] = goal[h]
              \/ goal[h] \in {"sent", "executing"} /\ goal'[h] \notin {"none", "sent"}
         /\ UNCHANGED <<bridge, pc, torn, last, canceling, heard, published, counters>>
<1>1. goal \in [Goals -> {"none", "sent", "executing", "rejected"} \cup Over]
  BY DEF TypeOK
<1>2. CASE Accept(g)
  BY <1>1, <1>2 DEF Accept, Over
<1>3. CASE Reject(g)
  BY <1>1, <1>3 DEF Reject, Ends
<1>4. CASE Complete(g) \/ Cancel(g)
  <2>1. PICK how \in Over : Ends(g, how) /\ goal[g] = "executing"
    BY <1>4 DEF Complete, Cancel, Over
  <2> QED
    BY <1>1, <2>1 DEF Ends, Over
<1> QED
  BY <1>2, <1>3, <1>4 DEF Server

LEMMA ServerKeeps ==
  ASSUME IInv, NEW g \in Goals, Server(g)
  PROVE  IInv'
<1> USE DEF IInv
<1>1. TypeOK
  OBVIOUS
<1>2. /\ goal' \in [Goals -> {"none", "sent", "executing", "rejected"} \cup Over]
      /\ \A h \in Goals :
           \/ goal'[h] = goal[h]
           \/ goal[h] \in {"sent", "executing"} /\ goal'[h] \notin {"none", "sent"}
      /\ UNCHANGED <<bridge, pc, torn, last, canceling, heard, published, counters>>
  BY <1>1, ServerEffect
<1>3. TypeOK'
  BY <1>2 DEF TypeOK, bridge, counters
<1>4. Known' = Known
  BY <1>2 DEF Known
<1>5. \A h \in Goals : goal'[h] # "none" <=> goal[h] # "none"
  BY <1>2
<1>6. SentInOrder' /\ HeardOfSent' /\ AnsweredInOrder' /\ OrderIdLeads'
  BY <1>2, <1>4, <1>5 DEF SentInOrder, HeardOfSent, AnsweredInOrder, OrderIdLeads, bridge
<1>7. InCallback'
  BY <1>2, <1>5 DEF InCallback, bridge
<1>8. HandleIsNewest'
  BY <1>2, <1>4 DEF HandleIsNewest, bridge
<1>9. EndWasAnnounced'
  BY <1>2, <1>4 DEF EndWasAnnounced, Known, bridge
<1> QED
  BY <1>3, <1>6, <1>7, <1>8, <1>9
-------------------------------------------------------------------------------
LEMMA StepKeepsInvariant ==
  ASSUME IInv, [Next]_vars
  PROVE  IInv'
<1>1. CASE UNCHANGED vars
  BY <1>1 DEF vars, bridge, nav2, counters, IInv, TypeOK, SentInOrder, HeardOfSent,
              InCallback, AnsweredInOrder, OrderIdLeads, HandleIsNewest, EndWasAnnounced,
              Known
<1>2. CASE ZenohThread
  BY <1>2, StoreOrderIdKeeps, WaitingAndMarksKeep, SendGoalKeeps, CancelGoalKeeps
     DEF ZenohThread
<1>3. ASSUME NEW g \in Goals, Callback(g) \/ Server(g)
      PROVE  IInv'
  BY <1>3, GoalResponseKeeps, ResultKeeps, ServerKeeps DEF Callback
<1> QED
  BY <1>1, <1>2, <1>3, ReceiveOrderKeeps, ReceiveCancelKeeps, PublishTelemetryKeeps, RestartKeeps
     DEF Next

LEMMA Invariant == Spec => []IInv
<1>1. Init => IInv
  BY StartsInvariant
<1>2. IInv /\ [Next]_vars => IInv'
  BY StepKeepsInvariant
<1> QED
  BY <1>1, <1>2, PTL DEF Spec

\* Every variable keeps its type (bridge_node.cpp).
THEOREM TypeCorrect == Spec => []TypeOK
<1>1. IInv => TypeOK
  BY DEF IInv
<1> QED
  BY <1>1, Invariant, PTL

\* on_order_received: while Nav2 has a goal of this process to execute, the bridge
\* reports the order of that goal or a later one.
THEOREM OrderLeads == Spec => []OrderLeadsGoal
<1>1. IInv => OrderLeadsGoal
  BY DEF IInv, TypeOK, OrderIdLeads, OrderLeadsGoal, Known, Goals
<1> QED
  BY <1>1, Invariant, PTL

\* goal_response_callback and cancel_nav2_goal: the handle is that of the last goal
\* whose acceptance was announced, and only announced goals are canceled.
THEOREM CancelsAnnounced == Spec => []HandleIsNewest
<1>1. IInv => HandleIsNewest
  BY DEF IInv
<1> QED
  BY <1>1, Invariant, PTL

\* result_callback and goal_response_callback: no race of the two threads makes up
\* the end of a goal.
THEOREM EndsAreTrue == Spec => []EndWasAnnounced
<1>1. IInv => EndWasAnnounced
  BY DEF IInv
<1> QED
  BY <1>1, Invariant, PTL
================================================================================
