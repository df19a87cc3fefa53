----------------------------- MODULE LeaseService -----------------------------
(***************************************************************************)
(* What the traffic locks promise, without Redis, scripts or keys: a node  *)
(* has at most one holder, and a promise of some time to that holder.  Who *)
(* asks for a path obtains all of its nodes or none, and the answer says   *)
(* which: a yes is all of them for the time asked, a no is none, because   *)
(* some node has a holder, and only after an error the asker cannot tell   *)
(* and is promised nothing.  A node becomes free only because its holder   *)
(* gives it up, or because time passes and the promise is over; so it      *)
(* never passes directly from one holder to another.                       *)
(***************************************************************************)
EXTENDS Naturals

CONSTANTS
  Nodes, Owners, NoOwner,
  Paths,   \* the sets of nodes that can be asked for as a path
  Times,   \* the times that can be asked for
  Silence  \* the answer before anything was asked

VARIABLES
  holder,   \* holder[n]: the owner that holds node n, or NoOwner
  promise,  \* promise[n]: how long the holder of n has been promised to keep it
  answer    \* the last answer: to which call, of whom, about which nodes, yes or no

vars == <<holder, promise, answer>>

\* The nodes of P pass to h, with a promise of t; the others stay as they are.
Assign(P, h, t) ==
  /\ holder' = [n \in Nodes |-> IF n \in P THEN h ELSE holder[n]]
  /\ promise' = [n \in Nodes |-> IF n \in P THEN t ELSE promise[n]]

Says(call, o, P, ok) ==
  answer' = [call |-> call, owner |-> o, nodes |-> P, ok |-> ok]

Init == /\ holder = [n \in Nodes |-> NoOwner]
        /\ promise = [n \in Nodes |-> 0]
        /\ answer = Silence

\* o has all of P: it is told so, and promised t, or gets an error and no promise.
Grant(call, o, P, t) ==
  \/ t > 0 /\ Assign(P, o, t) /\ Says(call, o, P, TRUE)
  \/ Assign(P, o, 0) /\ Says("error", o, P, FALSE)

\* o is told no, and has not obtained a node.
Refuse(call, o, P) ==
  /\ Says(call, o, P, FALSE)
  /\ UNCHANGED <<holder, promise>>

\* A single node is refused also to its own holder.
Acquire(o, n, t) ==
  IF holder[n] = NoOwner THEN Grant("acquire", o, {n}, t)
                         ELSE Refuse("acquire", o, {n})

Reserve(o, P, t) ==
  IF \A n \in P : holder[n] \in {NoOwner, o} THEN Grant("reserve", o, P, t)
                                             ELSE Refuse("reserve", o, P)

\* o gives up what it holds of P, and is told whether that was anything.
GiveUp(o, P) ==
  LET mine == {n \in P : holder[n] = o} IN
  /\ Assign(mine, NoOwner, 0)
  /\ Says("release", o, P, mine # {}) \/ Says("error", o, P, FALSE)

\* A call of o about P fails and changes nothing.
Fail(o, P) == Refuse("error", o, P)

\* Time passes, and the nodes of P lapse.
Pass(P) ==
  /\ \A n \in P : promise[n] <= 1
  /\ holder' = [n \in Nodes |-> IF n \in P THEN NoOwner ELSE holder[n]]
  /\ promise' = [n \in Nodes |-> IF promise[n] > 0 THEN promise[n] - 1 ELSE 0]
  /\ UNCHANGED answer

\* What can be asked about: a path, or one node.
Asked == Paths \cup {{n} : n \in Nodes}

Next ==
  \/ \E o \in Owners :
       \/ \E P \in Asked : GiveUp(o, P) \/ Fail(o, P)
       \/ \E n \in Nodes, t \in Times : Acquire(o, n, t)
       \/ \E P \in Paths, t \in Times : Reserve(o, P, t)
  \/ \E P \in SUBSET Nodes : Pass(P)

Spec == Init /\ [][Next]_vars
===============================================================================
