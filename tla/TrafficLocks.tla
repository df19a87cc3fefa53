----------------------------- MODULE TrafficLocks -----------------------------
(***************************************************************************)
(* The spatial-lease API of FleetManager, core/src/fleet/fleet_manager.rs  *)
(* lines 152-281, called by any number of robots' tasks: acquire one node, *)
(* reserve a path, release one node, release a path, and the expiry of the *)
(* keys.  Every call is one atomic Redis command, so every call is one     *)
(* action; it may fail, before or after Redis executed it.  view is what   *)
(* the callers may count on: view[o][n] is the time left of the lease on n *)
(* that a positive reply promised to o.                                    *)
(***************************************************************************)
EXTENDS LeaseTable

CONSTANTS
  Paths,   \* the sets of nodes of the paths that are reserved and released
  Ttls     \* the times to live that callers ask for, those Redis refuses included

ASSUME PathsAssumption == Paths \subseteq (SUBSET Nodes) \ {{}}
ASSUME TtlsAssumption == Ttls \subseteq Nat

VARIABLES
  lock,    \* the table of lease keys
  view,    \* the callers' knowledge of their leases
  reply    \* the reply to the last call

vars == <<lock, view, reply>>

NoReply == [call |-> "none"]

Replies == [call : {"acquire", "reserve", "release", "error"}, owner : Owners,
            nodes : SUBSET Nodes, ok : BOOLEAN]

Reply(call, o, P, ok) == [call |-> call, owner |-> o, nodes |-> P, ok |-> ok]

Init ==
  /\ lock = [n \in Nodes |-> NoLease]
  /\ view = [o \in Owners |-> [n \in Nodes |-> 0]]
  /\ reply = NoReply

\* o now counts on t ticks of every node of P (t = 0: it counts on none).
Counts(o, P, t) ==
  view' = [view EXCEPT ![o] = [n \in Nodes |-> IF n \in P THEN t ELSE @[n]]]

\* Redis has executed o's call: o gets the answer, and with it t ticks on P, or
\* the connection breaks first and o gets an error and relies on P no more.
Answer(call, o, P, ok, t) ==
  \/ /\ reply' = Reply(call, o, P, ok)
     /\ Counts(o, P, t)
  \/ /\ reply' = Reply("error", o, P, FALSE)
     /\ Counts(o, P, 0)

\* The call changes nothing: it is refused, or fails before it gets to Redis.
NoEffect(call, o, P) ==
  /\ reply' = Reply(call, o, P, FALSE)
  /\ UNCHANGED <<lock, view>>

\* SET key robot NX PX ttl: granted only if the key is absent.
TryAcquireNodeLock(n, o, t) ==
  \/ NoEffect("error", o, {n})
  \/ /\ ValidTtl(t) /\ lock[n] # NoLease
     /\ NoEffect("acquire", o, {n})
  \/ /\ ValidTtl(t) /\ lock[n] = NoLease
     /\ lock' = Reserve(lock, {n}, o, t)
     /\ Answer("acquire", o, {n}, TRUE, t)

\* Mutant: one pass over the keys that sets each before it looks at the next.
ReserveInOnePass(P, o, t) ==
  \/ NoEffect("error", o, P)
  \/ /\ ValidTtl(t) /\ Occupied(lock, P, o)
     /\ \E Q \in SUBSET {n \in P : ~Occupied(lock, {n}, o)} :
          lock' = Reserve(lock, Q, o, t)
     /\ reply' = Reply("reserve", o, P, FALSE)
     /\ UNCHANGED view
  \/ /\ ValidTtl(t) /\ ~Occupied(lock, P, o)
     /\ lock' = Reserve(lock, P, o, t)
     /\ Answer("reserve", o, P, TRUE, t)

\* The reservation script: all nodes of P, or none.
TryReservePath(P, o, t) ==
  \/ NoEffect("error", o, P)
  \/ /\ Occupied(lock, P, o)
     /\ NoEffect("reserve", o, P)
  \/ /\ ValidTtl(t) /\ ~Occupied(lock, P, o)
     /\ lock' = Reserve(lock, P, o, t)
     /\ Answer("reserve", o, P, TRUE, t)

ReleaseNodeLock(n, o) ==
  \/ NoEffect("error", o, {n})
  \/ /\ lock' = Release(lock, {n}, o)
     /\ Answer("release", o, {n}, lock[n].owner = o, 0)

ReleasePath(P, o) ==
  \/ NoEffect("error", o, P)
  \/ /\ lock' = Release(lock, P, o)
     /\ Answer("release", o, P, \E n \in P : lock[n].owner = o, 0)

\* Time passes, for Redis and for the callers alike.
Tick ==
  /\ lock' = Elapse(lock)
  /\ view' = [o \in Owners |->
                [n \in Nodes |-> IF view[o][n] > 0 THEN view[o][n] - 1 ELSE 0]]
  /\ UNCHANGED reply

Call(o) ==
  \/ \E n \in Nodes : ReleaseNodeLock(n, o)
  \/ \E n \in Nodes, t \in Ttls : TryAcquireNodeLock(n, o, t)
  \/ \E P \in Paths : ReleasePath(P, o)
  \/ \E P \in Paths, t \in Ttls : TryReservePath(P, o, t)

Next == Tick \/ \E o \in Owners : Call(o)

Spec == Init /\ [][Next]_vars
-------------------------------------------------------------------------------
\* The table, what callers count on, and the last reply have their types.
TypeOK ==
  /\ lock \in Table
  /\ view \in [Owners -> [Nodes -> Nat]]
  /\ reply \in Replies \cup {NoReply}

\* A lease lasts as long as the reply that granted it said: until then, or
\* until its holder releases it, the key is there, is the holder's and does not
\* expire earlier, whatever the other callers do in the meantime.
LeaseHonoured ==
  \A o \in Owners, n \in Nodes :
    view[o][n] > 0 => /\ lock[n].owner = o
                      /\ lock[n].ttl >= view[o][n]

\* What the holder of n may count on.
Promise(n) == IF lock[n] = NoLease THEN 0 ELSE view[lock[n].owner][n]

Service == INSTANCE LeaseService WITH
  holder <- [n \in Nodes |-> lock[n].owner],
  promise <- [n \in Nodes |-> Promise(n)],
  answer <- reply,
  Times <- Ttls,
  Silence <- NoReply

\* The commands, the replies and the callers' knowledge implement the abstract
\* lease service (fleet_manager.rs:199, 211-226): a reservation that is granted takes
\* the whole path, one that is refused takes no node of it, also when the reply is
\* lost; a node never passes directly from one robot to another, and only its
\* holder, or the end of its promise, makes it free.
ImplementsLeaseService == Service!Spec
===============================================================================
