------------------------------ MODULE LeaseTable ------------------------------
(***************************************************************************)
(* The Redis keys hitkote:traffic:node:<node> as one table, and the        *)
(* commands core/src/fleet/fleet_manager.rs runs on them.  Redis executes  *)
(* a command or a Lua script atomically, so each is an operator from a     *)
(* table to a table.  A key holds the serial number of its robot and a     *)
(* time to live, counted here in clock ticks; an absent key is NoLease.    *)
(***************************************************************************)
EXTENDS Naturals

CONSTANTS
  Nodes,    \* topological nodes
  Owners,   \* serial numbers, the values stored in the keys
  NoOwner,  \* the owner of an absent key
  MaxTtl    \* the longest time to live that Redis can add to its clock

ASSUME OwnersAssumption == NoOwner \notin Owners
ASSUME MaxTtlAssumption == MaxTtl \in Nat

NoLease == [owner |-> NoOwner, ttl |-> 0]

Lease == [owner : Owners, ttl : Nat \ {0}] \cup {NoLease}

Table == [Nodes -> Lease]

\* Mutant: a path counts as occupied only if all its keys are another robot's.
OccupiedIfAll(lock, P, o) == \A n \in P : lock[n].owner \notin {NoOwner, o}

\* Phase 1 of the reservation script: a key of P belongs to another robot.
Occupied(lock, P, o) == \E n \in P : lock[n].owner \notin {NoOwner, o}

\* SET key robot EX t is an error of Redis for t = 0 and where the end of the
\* time to live would overflow its clock.
ValidTtl(t) == t \in 1..MaxTtl

\* Mutant: SET key robot, without EX: the key has no time to live.
ReserveWithoutEnd(lock, P, o, t) ==
  [n \in Nodes |-> IF n \in P THEN [owner |-> o, ttl |-> 0] ELSE lock[n]]

\* Phase 2 of the reservation script: SET key robot EX ttl, for every key of P.
Reserve(lock, P, o, t) ==
  [n \in Nodes |-> IF n \in P THEN [owner |-> o, ttl |-> t] ELSE lock[n]]

\* Mutant: DEL without the comparison with the owner.
ReleaseUnchecked(lock, P, o) ==
  [n \in Nodes |-> IF n \in P THEN NoLease ELSE lock[n]]

\* Compare-and-delete: of the keys of P, those that still belong to o.
Release(lock, P, o) ==
  [n \in Nodes |-> IF n \in P /\ lock[n].owner = o THEN NoLease ELSE lock[n]]

\* One tick of the clock: Redis drops the keys whose time to live has run out.
Elapse(lock) ==
  [n \in Nodes |-> IF lock[n].ttl > 1 THEN [lock[n] EXCEPT !.ttl = @ - 1]
                                      ELSE NoLease]
===============================================================================
