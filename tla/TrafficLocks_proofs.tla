-------------------------- MODULE TrafficLocks_proofs --------------------------
(***************************************************************************)
(* The traffic locks keep their promises for every set of nodes, callers,  *)
(* paths and times to live: type correctness, LeaseHonoured, and the       *)
(* refinement of LeaseService, all from the invariant IInv.                *)
(***************************************************************************)
EXTENDS TrafficLocks, LeaseTable_proofs

\* LeaseHonoured is inductive together with the types.
IInv == TypeOK /\ LeaseHonoured

\* A caller knows of no lease in the initial state.
LEMMA InitIInv == Init => IInv
BY NoLeaseType DEF Init, IInv, TypeOK, LeaseHonoured, Table, NoReply

\* What o counts on after a call: t on the nodes of P, as before on the others.
LEMMA CountsAt ==
  ASSUME view \in [Owners -> [Nodes -> Nat]],
         NEW o \in Owners, NEW P, NEW t \in Nat, Counts(o, P, t)
  PROVE  /\ view' \in [Owners -> [Nodes -> Nat]]
         /\ \A q \in Owners, n \in Nodes :
              view'[q][n] = IF q = o /\ n \in P THEN t ELSE view[q][n]
<1> DEFINE mine == [n \in Nodes |-> IF n \in P THEN t ELSE view[o][n]]
<1>1. view' = [view EXCEPT ![o] = mine]
  BY DEF Counts
<1>2. mine \in [Nodes -> Nat]
  OBVIOUS
<1> QED
  BY <1>1, <1>2

\* A reply about a caller and a path has the type of replies.
LEMMA ReplyType ==
  ASSUME NEW call \in {"acquire", "reserve", "release", "error"},
         NEW o \in Owners, NEW P \in SUBSET Nodes, NEW ok \in BOOLEAN
  PROVE  Reply(call, o, P, ok) \in Replies
BY DEF Reply, Replies

\* Either answer to a call leaves o counting on the t it was promised, or on none.
LEMMA AnswerCounts ==
  ASSUME NEW call, NEW o, NEW P, NEW ok, NEW t, Answer(call, o, P, ok, t)
  PROVE  \E c \in {0, t} : Counts(o, P, c)
BY Zenon DEF Answer

\* A call that changes nothing preserves the invariant.
LEMMA NoEffectStep ==
  ASSUME IInv, NEW call \in {"acquire", "reserve", "release", "error"},
         NEW o \in Owners, NEW P \in SUBSET Nodes, NoEffect(call, o, P)
  PROVE  IInv'
BY ReplyType, Zenon DEF IInv, TypeOK, LeaseHonoured, NoEffect

\* A grant of P to o, where no other caller holds a node of P.
LEMMA GrantStep ==
  ASSUME IInv, NEW call \in {"acquire", "reserve"}, NEW o \in Owners,
         NEW P \in SUBSET Nodes, NEW ok \in BOOLEAN, NEW t \in Nat, ValidTtl(t),
         ~Occupied(lock, P, o),
         lock' = Reserve(lock, P, o, t), Answer(call, o, P, ok, t)
  PROVE  IInv'
<1>1. PICK c \in {0, t} : Counts(o, P, c)
  BY AnswerCounts
<1>2. /\ view' \in [Owners -> [Nodes -> Nat]]
      /\ \A q \in Owners, n \in Nodes :
           view'[q][n] = IF q = o /\ n \in P THEN c ELSE view[q][n]
  BY <1>1, CountsAt DEF IInv, TypeOK
<1>3. TypeOK'
  <2>1. lock' \in Table
    BY ReserveType DEF IInv, TypeOK
  <2>2. view' \in [Owners -> [Nodes -> Nat]]
    BY <1>2
  <2>3. reply' \in Replies
    <3>1. Reply(call, o, P, ok) \in Replies /\ Reply("error", o, P, FALSE) \in Replies
      BY ReplyType
    <3> QED
      BY <3>1, Zenon DEF Answer
  <2> QED
    BY <2>1, <2>2, <2>3 DEF TypeOK
<1>4. LeaseHonoured'
  <2> SUFFICES ASSUME NEW q \in Owners, NEW n \in Nodes, view'[q][n] > 0
               PROVE  lock'[n].owner = q /\ lock'[n].ttl >= view'[q][n]
    BY DEF LeaseHonoured
  <2>1. view'[q][n] = IF q = o /\ n \in P THEN c ELSE view[q][n]
    BY <1>2
  <2>2. lock'[n] = IF n \in P THEN [owner |-> o, ttl |-> t] ELSE lock[n]
    BY ReserveAt
  <2>3. CASE q = o /\ n \in P
    BY <2>1, <2>2, <2>3
  <2>4. CASE n \notin P
    BY <2>1, <2>2, <2>4 DEF IInv, LeaseHonoured
  <2>5. CASE q # o /\ n \in P
    <3>1. lock[n].owner = q
      BY <2>1, <2>5 DEF IInv, LeaseHonoured
    <3> QED
      BY <2>5, <3>1, OwnersAssumption DEF Occupied
  <2> QED
    BY <2>3, <2>4, <2>5
<1> QED
  BY <1>3, <1>4 DEF IInv

\* A release of P by o deletes no key of another caller.
LEMMA ReleaseStep ==
  ASSUME IInv, NEW o \in Owners, NEW P \in SUBSET Nodes, NEW ok \in BOOLEAN,
         lock' = Release(lock, P, o), Answer("release", o, P, ok, 0)
  PROVE  IInv'
<1>1. Counts(o, P, 0)
  BY AnswerCounts
<1>2. /\ view' \in [Owners -> [Nodes -> Nat]]
      /\ \A q \in Owners, n \in Nodes :
           view'[q][n] = IF q = o /\ n \in P THEN 0 ELSE view[q][n]
  BY <1>1, CountsAt DEF IInv, TypeOK
<1>3. TypeOK'
  <2>1. lock' \in Table
    BY ReleaseType DEF IInv, TypeOK
  <2>2. view' \in [Owners -> [Nodes -> Nat]]
    BY <1>2
  <2>3. reply' \in Replies
    <3>1. Reply("release", o, P, ok) \in Replies /\ Reply("error", o, P, FALSE) \in Replies
      BY ReplyType
    <3> QED
      BY <3>1, Zenon DEF Answer
  <2> QED
    BY <2>1, <2>2, <2>3 DEF TypeOK
<1>4. LeaseHonoured'
  <2> SUFFICES ASSUME NEW q \in Owners, NEW n \in Nodes, view'[q][n] > 0
               PROVE  lock'[n].owner = q /\ lock'[n].ttl >= view'[q][n]
    BY DEF LeaseHonoured
  <2>1. view'[q][n] = view[q][n] /\ ~(q = o /\ n \in P)
    BY <1>2
  <2>2. lock[n].owner = q /\ lock[n].ttl >= view[q][n]
    BY <2>1 DEF IInv, LeaseHonoured
  <2>3. lock'[n] = lock[n]
    BY <2>1, <2>2, ReleaseAt
  <2> QED
    BY <2>1, <2>2, <2>3
<1> QED
  BY <1>3, <1>4 DEF IInv

\* Time passes for a key no faster than for the caller who counts on it.
LEMMA TickStep == IInv /\ Tick => IInv'
<1> SUFFICES ASSUME IInv, Tick PROVE IInv'
  OBVIOUS
<1>1. TypeOK'
  BY ElapseType DEF Tick, IInv, TypeOK
<1>2. LeaseHonoured'
  <2> SUFFICES ASSUME NEW q \in Owners, NEW n \in Nodes, view'[q][n] > 0
               PROVE  lock'[n].owner = q /\ lock'[n].ttl >= view'[q][n]
    BY DEF LeaseHonoured
  <2>1. view[q][n] \in Nat /\ lock[n].ttl \in Nat
    BY LeaseCases DEF IInv, TypeOK, Table
  <2>2. view[q][n] > 1 /\ view'[q][n] = view[q][n] - 1
    BY <2>1 DEF Tick
  <2>3. lock[n].owner = q /\ lock[n].ttl >= view[q][n]
    BY <2>2, <2>1 DEF IInv, LeaseHonoured
  <2>4. lock'[n].owner = q /\ lock'[n].ttl = lock[n].ttl - 1
    BY <2>1, <2>2, <2>3, ElapseAt DEF Tick, IInv, TypeOK
  <2> QED
    BY <2>1, <2>2, <2>3, <2>4
<1> QED
  BY <1>1, <1>2 DEF IInv

\* The invariant is inductive: one case for each outcome of each call.
LEMMA NextIInv == IInv /\ [Next]_vars => IInv'
<1> SUFFICES ASSUME IInv, [Next]_vars PROVE IInv'
  OBVIOUS
<1>1. CASE Tick
  BY <1>1, TickStep
<1>2. ASSUME NEW o \in Owners, NEW n \in Nodes, ReleaseNodeLock(n, o)
      PROVE  IInv'
  <2>1. CASE NoEffect("error", o, {n})
    BY <2>1, NoEffectStep
  <2>2. CASE lock' = Release(lock, {n}, o)
               /\ Answer("release", o, {n}, lock[n].owner = o, 0)
    BY <2>2, ReleaseStep
  <2> QED
    BY <1>2, <2>1, <2>2 DEF ReleaseNodeLock
<1>3. ASSUME NEW o \in Owners, NEW n \in Nodes, NEW t \in Ttls, TryAcquireNodeLock(n, o, t)
      PROVE  IInv'
  <2>1. CASE NoEffect("error", o, {n}) \/ NoEffect("acquire", o, {n})
    BY <2>1, NoEffectStep
  <2>2. CASE ValidTtl(t) /\ lock[n] = NoLease /\ lock' = Reserve(lock, {n}, o, t)
               /\ Answer("acquire", o, {n}, TRUE, t)
    <3>1. ~Occupied(lock, {n}, o)
      BY <2>2 DEF Occupied, NoLease
    <3> QED
      BY <2>2, <3>1, GrantStep, TtlsAssumption
  <2> QED
    BY <1>3, <2>1, <2>2 DEF TryAcquireNodeLock
<1>4. ASSUME NEW o \in Owners, NEW P \in Paths, ReleasePath(P, o)
      PROVE  IInv'
  <2>0. P \in SUBSET Nodes
    BY PathsAssumption
  <2>1. CASE NoEffect("error", o, P)
    BY <2>0, <2>1, NoEffectStep
  <2>2. CASE lock' = Release(lock, P, o)
               /\ Answer("release", o, P, \E n \in P : lock[n].owner = o, 0)
    BY <2>0, <2>2, ReleaseStep
  <2> QED
    BY <1>4, <2>1, <2>2 DEF ReleasePath
<1>5. ASSUME NEW o \in Owners, NEW P \in Paths, NEW t \in Ttls, TryReservePath(P, o, t)
      PROVE  IInv'
  <2>0. P \in SUBSET Nodes /\ t \in Nat
    BY PathsAssumption, TtlsAssumption
  <2>1. CASE NoEffect("error", o, P) \/ NoEffect("reserve", o, P)
    BY <2>0, <2>1, NoEffectStep
  <2>2. CASE ValidTtl(t) /\ ~Occupied(lock, P, o) /\ lock' = Reserve(lock, P, o, t)
               /\ Answer("reserve", o, P, TRUE, t)
    BY <2>0, <2>2, GrantStep
  <2> QED
    BY <1>5, <2>1, <2>2 DEF TryReservePath
<1>6. CASE UNCHANGED vars
  BY <1>6 DEF vars, IInv, TypeOK, LeaseHonoured
<1> QED
  BY <1>1, <1>2, <1>3, <1>4, <1>5, <1>6 DEF Next, Call

\* The table, the callers' knowledge and the replies keep their types.
THEOREM TypeCorrect == Spec => []TypeOK
<1>1. IInv => TypeOK
  BY DEF IInv
<1> QED
  BY <1>1, InitIInv, NextIInv, PTL DEF Spec

\* A lease that a caller of the fleet manager was granted is honoured until its
\* time is over, for any number of callers, nodes, overlapping paths and failures.
THEOREM LeasesAreHonoured == Spec => []LeaseHonoured
<1>1. IInv => LeaseHonoured
  BY DEF IInv
<1> QED
  BY <1>1, InitIInv, NextIInv, PTL DEF Spec
-------------------------------------------------------------------------------
(* The refinement of LeaseService: every call and the clock, step by step. *)

Holder == [n \in Nodes |-> lock[n].owner]
Promises == [n \in Nodes |-> Promise(n)]

\* A call that changes nothing refuses its caller, or fails.
LEMMA NoEffectRefines ==
  ASSUME NEW call, NEW o, NEW P, NoEffect(call, o, P)
  PROVE  Service!Refuse(call, o, P)
BY DEF NoEffect, Reply, Service!Refuse, Service!Says, Promise

\* A reservation of P, of which o then counts on c ticks, assigns P to o.
LEMMA ReserveAssigns ==
  ASSUME IInv, NEW o \in Owners, NEW P \in SUBSET Nodes, NEW t,
         NEW c \in Nat, Counts(o, P, c), lock' = Reserve(lock, P, o, t)
  PROVE  Service!Assign(P, o, c)
<1>1. view \in [Owners -> [Nodes -> Nat]]
  BY DEF IInv, TypeOK
<1>3. \A q \in Owners, n \in Nodes :
        view'[q][n] = IF q = o /\ n \in P THEN c ELSE view[q][n]
  BY <1>1, CountsAt
<1>5. ASSUME NEW n \in Nodes
      PROVE  /\ Holder'[n] = IF n \in P THEN o ELSE Holder[n]
             /\ Promises'[n] = IF n \in P THEN c ELSE Promises[n]
  <2>1. lock'[n] = IF n \in P THEN [owner |-> o, ttl |-> t] ELSE lock[n]
    BY ReserveAt
  <2>2. CASE n \in P
    <3>1. lock'[n] # NoLease /\ lock'[n].owner = o
      BY <2>1, <2>2, OwnersAssumption DEF NoLease
    <3> QED
      BY <1>3, <2>2, <3>1 DEF Holder, Promises, Promise
  <2>3. CASE n \notin P
    <3>1. lock'[n] = lock[n] /\ lock[n] \in Lease
      BY <2>1, <2>3 DEF IInv, TypeOK, Table
    <3>2. lock[n] # NoLease => lock[n].owner \in Owners
      BY <3>1, LeaseCases
    <3> QED
      BY <1>3, <2>3, <3>1, <3>2 DEF Holder, Promises, Promise
  <2> QED
    BY <2>2, <2>3
<1>6. Holder' = [n \in Nodes |-> IF n \in P THEN o ELSE Holder[n]]
  BY <1>5 DEF Holder
<1>7. Promises' = [n \in Nodes |-> IF n \in P THEN c ELSE Promises[n]]
  BY <1>5 DEF Promises
<1> QED
  BY <1>6, <1>7 DEF Service!Assign, Holder, Promises

\* A call that sets all keys of P grants P to o, with the time o asked for and is
\* told of, or with an error and no time.
LEMMA GrantRefines ==
  ASSUME IInv, NEW call, NEW o \in Owners, NEW P \in SUBSET Nodes,
         NEW t \in Ttls, ValidTtl(t),
         lock' = Reserve(lock, P, o, t), Answer(call, o, P, TRUE, t)
  PROVE  Service!Grant(call, o, P, t)
<1>1. t \in Nat /\ t > 0
  BY TtlsAssumption, MaxTtlAssumption DEF ValidTtl
<1>2. CASE reply' = Reply(call, o, P, TRUE) /\ Counts(o, P, t)
  <2>1. Service!Assign(P, o, t)
    BY <1>1, <1>2, ReserveAssigns
  <2>2. Service!Says(call, o, P, TRUE)
    BY <1>2 DEF Service!Says, Reply
  <2> QED
    BY <1>1, <2>1, <2>2 DEF Service!Grant
<1>3. CASE reply' = Reply("error", o, P, FALSE) /\ Counts(o, P, 0)
  <2>1. Service!Assign(P, o, 0)
    BY <1>3, ReserveAssigns
  <2>2. Service!Says("error", o, P, FALSE)
    BY <1>3 DEF Service!Says, Reply
  <2> QED
    BY <2>1, <2>2 DEF Service!Grant
<1> QED
  BY <1>2, <1>3 DEF Answer

\* A release by o gives up those nodes of P that o holds, and no other.
LEMMA ReleaseRefines ==
  ASSUME IInv, NEW o \in Owners, NEW P \in SUBSET Nodes,
         lock' = Release(lock, P, o),
         Answer("release", o, P, \E n \in P : lock[n].owner = o, 0)
  PROVE  Service!GiveUp(o, P)
<1>0. PICK Q \in SUBSET Nodes : Q = {n \in P : lock[n].owner = o}
  OBVIOUS
<1>1. Counts(o, P, 0)
  BY DEF Answer
<1>2. \A q \in Owners, n \in Nodes :
        view'[q][n] = IF q = o /\ n \in P THEN 0 ELSE view[q][n]
  BY <1>1, CountsAt DEF IInv, TypeOK
<1>3. Q = {n \in P : Holder[n] = o}
  BY <1>0 DEF Holder
<1>4. ASSUME NEW n \in Nodes
      PROVE  /\ Holder'[n] = IF n \in Q THEN NoOwner ELSE Holder[n]
             /\ Promises'[n] = IF n \in Q THEN 0 ELSE Promises[n]
  <2>1. CASE n \in Q
    BY <1>0, <2>1, ReleaseAt, NoLeaseType DEF Holder, Promises, Promise
  <2>2. CASE n \notin Q
    <3>1. lock'[n] = lock[n] /\ lock[n] \in Lease
      BY <1>0, <2>2, ReleaseAt DEF IInv, TypeOK, Table
    <3>2. lock[n] # NoLease => lock[n].owner \in Owners
      BY <3>1, LeaseCases
    <3> QED
      BY <1>0, <1>2, <2>2, <3>1, <3>2 DEF Holder, Promises, Promise
  <2> QED
    BY <2>1, <2>2
<1>5. Holder' = [n \in Nodes |-> IF n \in Q THEN NoOwner ELSE Holder[n]]
  BY <1>4 DEF Holder
<1>6. Promises' = [n \in Nodes |-> IF n \in Q THEN 0 ELSE Promises[n]]
  BY <1>4 DEF Promises
<1>7. Service!Assign(Q, NoOwner, 0)
  BY <1>5, <1>6 DEF Service!Assign, Holder, Promises
<1>8. Service!Says("release", o, P, Q # {}) \/ Service!Says("error", o, P, FALSE)
  <2>1. (\E n \in P : lock[n].owner = o) <=> Q # {}
    BY <1>0
  <2> QED
    BY <2>1 DEF Answer, Reply, Service!Says
<1> QED
  BY <1>3, <1>7, <1>8 DEF Service!GiveUp, Holder

\* A tick lapses the nodes whose time to live is over, when their promise is too.
LEMMA TickRefines ==
  ASSUME IInv, Tick
  PROVE  \E Q \in SUBSET Nodes : Service!Pass(Q)
<1>0. PICK Q \in SUBSET Nodes : Q = {n \in Nodes : ~(lock[n].ttl > 1)}
  OBVIOUS
<1>1. ASSUME NEW n \in Nodes
      PROVE  /\ n \in Q => ~(Promises[n] > 1) /\ Promises[n] \in Nat
             /\ Holder'[n] = IF n \in Q THEN NoOwner ELSE Holder[n]
             /\ Promises'[n] = IF Promises[n] > 0 THEN Promises[n] - 1 ELSE 0
  <2>1. lock[n] \in Lease /\ lock[n].ttl \in Nat
    BY LeaseCases DEF IInv, TypeOK, Table
  <2>2. CASE lock[n] = NoLease
    <3>1. Elapse(lock)[n] = NoLease
      BY <2>2, NoLeaseType, ElapseAt DEF IInv, TypeOK
    <3> QED
      BY <1>0, <2>2, <3>1, NoLeaseType DEF Tick, Holder, Promises, Promise
  <2>3. CASE lock[n] # NoLease
    <3> DEFINE h == lock[n].owner
    <3>1. h \in Owners /\ Promises[n] = view[h][n] /\ view[h][n] \in Nat
      BY <2>1, <2>3, LeaseCases DEF Promises, Promise, IInv, TypeOK
    <3>2. view[h][n] > 0 => lock[n].ttl >= view[h][n]
      BY <3>1 DEF IInv, LeaseHonoured
    <3>3. view'[h][n] = IF view[h][n] > 0 THEN view[h][n] - 1 ELSE 0
      BY <3>1 DEF Tick
    <3>4. CASE lock[n].ttl > 1
      <4>1. lock'[n].owner = h /\ lock'[n].ttl = lock[n].ttl - 1
        BY <3>4, ElapseAt DEF Tick, IInv, TypeOK
      <4>2. lock'[n] # NoLease
        BY <2>1, <3>4, <4>1, NoLeaseType
      <4> QED
        BY <1>0, <3>1, <3>3, <3>4, <4>1, <4>2 DEF Holder, Promises, Promise
    <3>5. CASE ~(lock[n].ttl > 1)
      <4>1. lock'[n] = NoLease
        BY <3>5, ElapseAt DEF Tick, IInv, TypeOK
      <4>2. view[h][n] \in {0, 1}
        BY <2>1, <3>1, <3>2, <3>5
      <4> QED
        BY <1>0, <3>1, <3>5, <4>1, <4>2, NoLeaseType DEF Holder, Promises, Promise
    <3> QED
      BY <3>4, <3>5
  <2> QED
    BY <2>2, <2>3
<1>2. Holder' = [n \in Nodes |-> IF n \in Q THEN NoOwner ELSE Holder[n]]
  BY <1>1 DEF Holder
<1>3. Promises' = [n \in Nodes |-> IF Promises[n] > 0 THEN Promises[n] - 1 ELSE 0]
  BY <1>1 DEF Promises
<1>4. \A n \in Q : Promises[n] <= 1
  BY <1>1
<1>5. Service!Pass(Q)
  BY <1>2, <1>3, <1>4 DEF Service!Pass, Holder, Promises, Tick
<1> QED
  BY <1>5

\* In the initial state no node has a holder or a promise, and nothing was asked.
LEMMA InitRefines == Init => Service!Init
BY NoLeaseType DEF Init, Service!Init, Promise

\* Every step of the traffic locks is the step of the service that was asked for, or
\* a stutter.
LEMMA NextRefines == IInv /\ [Next]_vars => [Service!Next]_(Service!vars)
<1> SUFFICES ASSUME IInv, [Next]_vars
             PROVE  Service!Next \/ UNCHANGED Service!vars
  OBVIOUS
<1>0. /\ \A n \in Nodes : {n} \in Service!Asked /\ {n} \in SUBSET Nodes
      /\ \A P \in Paths : P \in Service!Asked /\ P \in SUBSET Nodes
  BY PathsAssumption DEF Service!Asked
<1>1. CASE Tick
  BY <1>1, TickRefines DEF Service!Next
<1>2. ASSUME NEW o \in Owners, NEW n \in Nodes, ReleaseNodeLock(n, o)
      PROVE  Service!Next
  <2>1. CASE NoEffect("error", o, {n})
    <3>1. Service!Fail(o, {n})
      BY <2>1, NoEffectRefines DEF Service!Fail
    <3> QED
      BY <1>0, <3>1 DEF Service!Next
  <2>2. CASE lock' = Release(lock, {n}, o)
               /\ Answer("release", o, {n}, lock[n].owner = o, 0)
    <3>1. (lock[n].owner = o) = (\E m \in {n} : lock[m].owner = o)
      OBVIOUS
    <3>2. Answer("release", o, {n}, \E m \in {n} : lock[m].owner = o, 0)
      BY <2>2, <3>1
    <3>3. Service!GiveUp(o, {n})
      BY <1>0, <2>2, <3>2, ReleaseRefines
    <3> QED
      BY <1>0, <3>3 DEF Service!Next
  <2> QED
    BY <1>2, <2>1, <2>2 DEF ReleaseNodeLock
<1>3. ASSUME NEW o \in Owners, NEW n \in Nodes, NEW t \in Ttls, TryAcquireNodeLock(n, o, t)
      PROVE  Service!Next
  <2>0. lock[n] = NoLease <=> lock[n].owner = NoOwner
    BY LeaseCases DEF IInv, TypeOK, Table
  <2>1. CASE NoEffect("error", o, {n})
    <3>1. Service!Fail(o, {n})
      BY <2>1, NoEffectRefines DEF Service!Fail
    <3> QED
      BY <1>0, <3>1 DEF Service!Next
  <2>2. CASE ValidTtl(t) /\ lock[n] # NoLease /\ NoEffect("acquire", o, {n})
    <3>1. Service!Acquire(o, n, t)
      BY <2>0, <2>2, NoEffectRefines DEF Service!Acquire
    <3> QED
      BY <3>1 DEF Service!Next
  <2>3. CASE ValidTtl(t) /\ lock[n] = NoLease /\ lock' = Reserve(lock, {n}, o, t)
               /\ Answer("acquire", o, {n}, TRUE, t)
    <3>1. Service!Grant("acquire", o, {n}, t)
      BY <1>0, <2>3, GrantRefines
    <3>2. Service!Acquire(o, n, t)
      BY <2>0, <2>3, <3>1 DEF Service!Acquire
    <3> QED
      BY <3>2 DEF Service!Next
  <2> QED
    BY <1>3, <2>1, <2>2, <2>3 DEF TryAcquireNodeLock
<1>4. ASSUME NEW o \in Owners, NEW P \in Paths, ReleasePath(P, o)
      PROVE  Service!Next
  <2>1. CASE NoEffect("error", o, P)
    <3>1. Service!Fail(o, P)
      BY <2>1, NoEffectRefines DEF Service!Fail
    <3> QED
      BY <1>0, <3>1 DEF Service!Next
  <2>2. CASE lock' = Release(lock, P, o)
               /\ Answer("release", o, P, \E n \in P : lock[n].owner = o, 0)
    <3>1. Service!GiveUp(o, P)
      BY <1>0, <2>2, ReleaseRefines
    <3> QED
      BY <1>0, <3>1 DEF Service!Next
  <2> QED
    BY <1>4, <2>1, <2>2 DEF ReleasePath
<1>5. ASSUME NEW o \in Owners, NEW P \in Paths, NEW t \in Ttls, TryReservePath(P, o, t)
      PROVE  Service!Next
  <2>0. Occupied(lock, P, o) <=> ~(\A n \in P : lock[n].owner \in {NoOwner, o})
    BY DEF Occupied
  <2>1. CASE NoEffect("error", o, P)
    <3>1. Service!Fail(o, P)
      BY <2>1, NoEffectRefines DEF Service!Fail
    <3> QED
      BY <1>0, <3>1 DEF Service!Next
  <2>2. CASE Occupied(lock, P, o) /\ NoEffect("reserve", o, P)
    <3>1. ~(\A n \in P : Holder[n] \in {NoOwner, o})
      BY <1>0, <2>0, <2>2 DEF Holder
    <3>2. Service!Reserve(o, P, t)
      BY <2>2, <3>1, NoEffectRefines DEF Service!Reserve, Holder
    <3> QED
      BY <3>2 DEF Service!Next
  <2>3. CASE ValidTtl(t) /\ ~Occupied(lock, P, o) /\ lock' = Reserve(lock, P, o, t)
               /\ Answer("reserve", o, P, TRUE, t)
    <3>1. Service!Grant("reserve", o, P, t)
      BY <1>0, <2>3, GrantRefines
    <3>2. \A n \in P : Holder[n] \in {NoOwner, o}
      BY <1>0, <2>0, <2>3 DEF Holder
    <3>3. Service!Reserve(o, P, t)
      BY <3>1, <3>2 DEF Service!Reserve, Holder
    <3> QED
      BY <3>3 DEF Service!Next
  <2> QED
    BY <1>5, <2>1, <2>2, <2>3 DEF TryReservePath
<1>6. CASE UNCHANGED vars
  BY <1>6 DEF vars, Service!vars, Promise
<1> QED
  BY <1>1, <1>2, <1>3, <1>4, <1>5, <1>6 DEF Next, Call

\* The scripts of fleet_manager.rs, with the knowledge their callers have of their
\* leases, implement the abstract lease service.
THEOREM LocksImplementService == Spec => ImplementsLeaseService
BY InitIInv, NextIInv, InitRefines, NextRefines, PTL
   DEF Spec, ImplementsLeaseService, Service!Spec
===============================================================================
