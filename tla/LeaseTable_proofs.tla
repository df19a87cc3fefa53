--------------------------- MODULE LeaseTable_proofs ---------------------------
(* What the commands on the table of leases return, for any nodes and owners. *)
EXTENDS LeaseTable, TLAPS

\* An absent key is a lease value of its own: no robot's lease equals it.
LEMMA NoLeaseType == NoLease \in Lease /\ NoLease.owner = NoOwner /\ NoLease.ttl = 0
BY DEF NoLease, Lease

\* A key is absent exactly when it has no owner, and a present one has time left.
LEMMA LeaseCases ==
  ASSUME NEW l \in Lease
  PROVE  /\ l.owner \in Owners \cup {NoOwner} /\ l.ttl \in Nat
         /\ l = NoLease <=> l.owner = NoOwner
         /\ l = NoLease <=> l.ttl = 0
BY OwnersAssumption DEF Lease, NoLease

\* A reservation with a valid time to live yields a table.
LEMMA ReserveType ==
  ASSUME NEW tab \in Table, NEW P, NEW o \in Owners, NEW t \in Nat, ValidTtl(t)
  PROVE  Reserve(tab, P, o, t) \in Table
BY MaxTtlAssumption DEF Reserve, Table, Lease, ValidTtl

\* A reservation changes the keys of its path and no other.
LEMMA ReserveAt ==
  ASSUME NEW tab, NEW P, NEW o, NEW t, NEW n \in Nodes
  PROVE  Reserve(tab, P, o, t)[n] = IF n \in P THEN [owner |-> o, ttl |-> t] ELSE tab[n]
BY DEF Reserve

\* A release yields a table.
LEMMA ReleaseType ==
  ASSUME NEW tab \in Table, NEW P, NEW o
  PROVE  Release(tab, P, o) \in Table
BY NoLeaseType DEF Release, Table

\* A release deletes the owner's keys on its path and no other.
LEMMA ReleaseAt ==
  ASSUME NEW tab, NEW P, NEW o, NEW n \in Nodes
  PROVE  Release(tab, P, o)[n] = IF n \in P /\ tab[n].owner = o THEN NoLease ELSE tab[n]
BY DEF Release

\* A tick of the clock yields a table.
LEMMA ElapseType ==
  ASSUME NEW tab \in Table
  PROVE  Elapse(tab) \in Table
<1> SUFFICES ASSUME NEW n \in Nodes
             PROVE  (IF tab[n].ttl > 1 THEN [tab[n] EXCEPT !.ttl = @ - 1] ELSE NoLease) \in Lease
  BY DEF Elapse, Table
<1>1. CASE tab[n].ttl > 1
  <2>1. tab[n] \in Lease /\ tab[n] # NoLease
    BY <1>1, LeaseCases DEF Table
  <2>2. PICK o \in Owners, t \in Nat \ {0} : tab[n] = [owner |-> o, ttl |-> t]
    BY <2>1 DEF Lease
  <2>3. [tab[n] EXCEPT !.ttl = @ - 1] = [owner |-> o, ttl |-> t - 1] /\ t - 1 \in Nat \ {0}
    BY <1>1, <2>2
  <2> QED
    BY <1>1, <2>3 DEF Lease
<1>2. CASE ~(tab[n].ttl > 1)
  BY <1>2, NoLeaseType
<1> QED
  BY <1>1, <1>2

\* A tick takes one from each time to live and drops the keys that have run out.
LEMMA ElapseAt ==
  ASSUME NEW tab \in Table, NEW n \in Nodes
  PROVE  /\ tab[n].ttl > 1 => /\ Elapse(tab)[n].owner = tab[n].owner
                              /\ Elapse(tab)[n].ttl = tab[n].ttl - 1
         /\ ~(tab[n].ttl > 1) => Elapse(tab)[n] = NoLease
<1>1. tab[n] \in Lease
  BY DEF Table
<1>2. Elapse(tab)[n] = IF tab[n].ttl > 1 THEN [tab[n] EXCEPT !.ttl = @ - 1] ELSE NoLease
  BY DEF Elapse
<1>3. ASSUME tab[n].ttl > 1
      PROVE  /\ Elapse(tab)[n].owner = tab[n].owner
             /\ Elapse(tab)[n].ttl = tab[n].ttl - 1
  <2>1. tab[n] # NoLease
    BY <1>1, <1>3, LeaseCases
  <2>2. PICK o \in Owners, t \in Nat \ {0} : tab[n] = [owner |-> o, ttl |-> t]
    BY <1>1, <2>1 DEF Lease
  <2> QED
    BY <1>2, <1>3, <2>2
<1> QED
  BY <1>2, <1>3
===============================================================================
