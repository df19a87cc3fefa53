------------------------- MODULE TelemetryFanout_proofs -------------------------
(***************************************************************************)
(* The telemetry fan-out implements Feed for every number of tasks,        *)
(* connections and pages and every capacity of the channel: a page is told *)
(* a gapless part of what is broadcast.  The types are the invariant that  *)
(* is needed: a receiver that does not lag finds what it has not had in    *)
(* the ring.                                                               *)
(***************************************************************************)
EXTENDS TelemetryFanout, SequenceTheorems, TLAPS

\* The last b messages of a sequence, without the last one, are those before it.
LEMMA LastOnes ==
  ASSUME NEW S, NEW q \in Seq(S), NEW m \in S, NEW b \in 0..Len(q)
  PROVE  SubSeq(Append(q, m), Len(q) - b + 1, Len(q) + 1)
           = Append(SubSeq(q, Len(q) - b + 1, Len(q)), m)
<1> DEFINE a == Append(q, m)
<1>1. Len(q) \in Nat
  OBVIOUS
<1>2. a \in Seq(S) /\ Len(a) = Len(q) + 1 /\ a[Len(q) + 1] = m /\ a = q \o <<m>>
  BY AppendProperties, AppendIsConcat
<1> HIDE DEF a
<1>3. Len(q) - b + 1 \in 1..Len(a) /\ Len(q) + 1 \in (Len(q) - b + 1)..Len(a)
  BY <1>1, <1>2
<1>4. SubSeq(a, Len(q) - b + 1, Len(q) + 1)
        = SubSeq(a, Len(q) - b + 1, Len(q) + 1 - 1) \o <<a[Len(q) + 1]>>
  BY <1>2, <1>3, SubSeqRecursiveSecond
<1>5. SubSeq(a, Len(q) - b + 1, Len(q)) = SubSeq(q, Len(q) - b + 1, Len(q))
  <2>1. CASE b = 0
    BY <1>1, <2>1, SubSeqEmpty
  <2>2. CASE b # 0
    <3>1. Len(q) - b + 1 \in 1..Len(q) /\ Len(q) \in 1..Len(q) /\ <<m>> \in Seq(S)
      BY <1>1, <2>2
    <3> QED
      BY <1>2, <3>1, SubSeqOfConcat1
  <2> QED
    BY <2>1, <2>2
<1>6. Len(q) + 1 - 1 = Len(q)
  BY <1>1
<1>7. SubSeq(a, Len(q) - b + 1, Len(q) + 1) = SubSeq(q, Len(q) - b + 1, Len(q)) \o <<m>>
  BY <1>2, <1>4, <1>5, <1>6
<1>8. SubSeq(q, Len(q) - b + 1, Len(q)) \in Seq(S)
  OBVIOUS
<1> QED
  BY <1>7, <1>8, AppendIsConcat DEF a

\* The channel after one more message.
LEMMA NewestType ==
  ASSUME NEW S, NEW q \in Seq(S), NEW m \in S, Len(q) <= Capacity,
         NEW r, r = Newest(Append(q, m))
  PROVE  /\ r \in Seq(S)
         /\ Len(r) = IF Len(q) = Capacity THEN Capacity ELSE Len(q) + 1
         /\ Len(q) = Capacity => r = SubSeq(Append(q, m), 2, Len(q) + 1)
         /\ Len(q) # Capacity => r = Append(q, m)
<1> DEFINE a == Append(q, m)
<1>1. Capacity \in Nat \ {0} /\ Len(q) \in Nat
  BY FanoutAssumption
<1>2. a \in Seq(S) /\ Len(a) = Len(q) + 1
  BY AppendProperties
<1> HIDE DEF a
<1>3. CASE Len(q) = Capacity
  <2>1. r = SubSeq(a, 2, Len(a))
    BY <1>1, <1>2, <1>3 DEF Newest, a
  <2>2. r \in Seq(S) /\ Len(r) = Len(q)
    BY <1>1, <1>2, <1>3, <2>1
  <2> QED
    BY <1>2, <1>3, <2>1, <2>2 DEF a
<1>4. CASE Len(q) # Capacity
  <2>1. ~(Len(a) > Capacity)
    BY <1>1, <1>2, <1>4
  <2>2. r = SubSeq(a, 1, Len(a))
    BY <2>1 DEF Newest, a
  <2>3. r = a
    BY <1>2, <2>2, SubSeqFull
  <2> QED
    BY <1>2, <1>4, <2>3 DEF a
<1> QED
  BY <1>3, <1>4

\* One message more: the newest b + 1 are the newest b and it, also when the oldest
\* message is dropped.
LEMMA NewestOnes ==
  ASSUME NEW S, NEW q \in Seq(S), NEW m \in S, Len(q) <= Capacity,
         NEW r, r = Newest(Append(q, m)), NEW b \in 0..Len(q), b < Capacity
  PROVE  SubSeq(r, Len(r) - (b + 1) + 1, Len(r)) = Append(SubSeq(q, Len(q) - b + 1, Len(q)), m)
<1> DEFINE a == Append(q, m)
<1>1. Capacity \in Nat \ {0} /\ Len(q) \in Nat
  BY FanoutAssumption
<1>2. a \in Seq(S) /\ Len(a) = Len(q) + 1
  BY AppendProperties
<1> HIDE DEF a
<1>3. CASE Len(q) = Capacity
  <2>1. r = SubSeq(a, 2, Len(a)) /\ r \in Seq(S) /\ Len(r) = Len(q)
    BY <1>2, <1>3, NewestType DEF a
  <2>2. /\ 2 \in 1..Len(a) /\ Len(a) \in 1..Len(a)
        /\ Len(r) - (b + 1) + 1 \in 1..(Len(a) - 2 + 1) /\ Len(r) \in 1..(Len(a) - 2 + 1)
    BY <1>1, <1>2, <1>3, <2>1
  <2>3. SubSeq(r, Len(r) - (b + 1) + 1, Len(r))
          = SubSeq(a, 2 + (Len(r) - (b + 1) + 1) - 1, 2 + Len(r) - 1)
    BY <1>2, <2>1, <2>2, SubSeqOfSubSeq
  <2>4. /\ 2 + (Len(r) - (b + 1) + 1) - 1 = Len(q) - b + 1
        /\ 2 + Len(r) - 1 = Len(q) + 1
    BY <1>1, <2>1
  <2> QED
    BY <2>3, <2>4, LastOnes DEF a
<1>4. CASE Len(q) # Capacity
  <2>1. r = a
    BY <1>4, NewestType DEF a
  <2>2. Len(r) - (b + 1) + 1 = Len(q) - b + 1 /\ Len(r) = Len(q) + 1
    BY <1>1, <1>2, <2>1
  <2> QED
    BY <2>1, <2>2, LastOnes DEF a
<1> QED
  BY <1>3, <1>4

\* Sending moves the oldest message that a receiver has not had to the wire.
LEMMA MoveOne ==
  ASSUME NEW S, NEW w \in Seq(S), NEW q \in Seq(S), NEW b \in 1..Len(q)
  PROVE  /\ Head(SubSeq(q, Len(q) - b + 1, Len(q))) \in S
         /\ Append(w, Head(SubSeq(q, Len(q) - b + 1, Len(q))))
              \o SubSeq(q, Len(q) - (b - 1) + 1, Len(q))
            = w \o SubSeq(q, Len(q) - b + 1, Len(q))
<1> DEFINE n == Len(q) - b + 1
           x == q[n]
           t == SubSeq(q, n + 1, Len(q))
<1>1. n \in 1..Len(q) /\ Len(q) \in n..Len(q) /\ Len(q) - (b - 1) + 1 = n + 1
  OBVIOUS
<1>2. x \in S /\ t \in Seq(S)
  BY <1>1
<1>3. Head(SubSeq(q, n, Len(q))) = x /\ SubSeq(q, n, Len(q)) = <<x>> \o t
  BY <1>1, HeadTailOfSubSeq, SubSeqRecursiveFirst
<1> HIDE DEF x, t
<1>4. Append(w, x) = w \o <<x>> /\ <<x>> \in Seq(S)
  BY <1>2, AppendIsConcat
<1>5. Append(w, x) \o t = w \o (<<x>> \o t)
  BY <1>2, <1>4, ConcatAssociative
<1> HIDE DEF n
<1>6. SubSeq(q, Len(q) - (b - 1) + 1, Len(q)) = t
  BY <1>1 DEF t
<1>7. Head(SubSeq(q, n, Len(q))) \in S /\ Append(w, Head(SubSeq(q, n, Len(q)))) \o t
        = w \o SubSeq(q, n, Len(q))
  BY <1>2, <1>3, <1>5
<1> QED
  BY <1>6, <1>7 DEF n

\* What is first on the wire is first of what is owed.
LEMMA TakeOne ==
  ASSUME NEW S, NEW w \in Seq(S), NEW p \in Seq(S), w # << >>
  PROVE  /\ Head(w \o p) = Head(w) /\ Head(w) \in S /\ w \o p # << >>
         /\ Tail(w) \in Seq(S) /\ Len(Tail(w)) = Len(w) - 1
         /\ Tail(w \o p) = Tail(w) \o p
<1> DEFINE x == Head(w)
           v == Tail(w)
<1>1. x \in S /\ v \in Seq(S) /\ Len(v) = Len(w) - 1
  BY HeadTailProperties
<1>2. w = <<x>> \o v
  <2>1. Len(w) \in Nat \ {0}
    BY EmptySeq
  <2>2. /\ 1 \in 1..Len(w) /\ Len(w) \in 1..Len(w) /\ w[1] = x
        /\ SubSeq(w, 2, Len(w)) = v /\ SubSeq(w, 1, Len(w)) = w
    BY <2>1, TailIsSubSeq, SubSeqFull
  <2>3. SubSeq(w, 1, Len(w)) = <<w[1]>> \o SubSeq(w, 1 + 1, Len(w))
    BY <2>2, SubSeqRecursiveFirst
  <2> QED
    BY <2>2, <2>3
<1> HIDE DEF x, v
<1>3. w \o p = <<x>> \o (v \o p) /\ v \o p \in Seq(S)
  BY <1>1, <1>2, ConcatAssociative
<1> DEFINE z == v \o p
<1> HIDE DEF z
<1>4. z \in Seq(S) => Head(<<x>> \o z) = x /\ Tail(<<x>> \o z) = z /\ <<x>> \o z # << >>
  <2> SUFFICES ASSUME z \in Seq(S)
               PROVE  Head(<<x>> \o z) = x /\ Tail(<<x>> \o z) = z /\ <<x>> \o z # << >>
    OBVIOUS
  <2>1. /\ <<x>> \o z \in Seq(S) /\ Len(<<x>> \o z) = Len(z) + 1
        /\ (<<x>> \o z)[1] = x /\ \A i \in 1..Len(z) : (<<x>> \o z)[i + 1] = z[i]
    BY <1>1
  <2>2. <<x>> \o z # << >>
    BY <2>1
  <2>3. /\ Tail(<<x>> \o z) \in Seq(S) /\ Len(Tail(<<x>> \o z)) = Len(z)
        /\ \A i \in 1..Len(z) : Tail(<<x>> \o z)[i] = (<<x>> \o z)[i + 1]
    BY <2>1, <2>2, HeadTailProperties
  <2>4. Tail(<<x>> \o z) = z
    BY <2>1, <2>3, SeqEqual
  <2> QED
    BY <2>1, <2>2, <2>4
<1> QED
  BY <1>1, <1>3, <1>4 DEF x, v, z

\* The wire is the beginning of what is owed, and all of itself.
LEMMA WireIsPrefix ==
  ASSUME NEW S, NEW w \in Seq(S), NEW p \in Seq(S)
  PROVE  /\ SubSeq(w \o p, 1, Len(w)) = w /\ SubSeq(w \o p, 1, 0) = << >>
         /\ SubSeq(w, 1, Len(w)) = w /\ SubSeq(w, 1, 0) = << >>
         /\ 0 \in 0..Len(w) /\ Len(w) \in 0..Len(w)
         /\ 0 \in 0..Len(w \o p) /\ Len(w) \in 0..Len(w \o p)
<1>1. Len(w) \in Nat /\ Len(p) \in Nat /\ Len(w \o p) = Len(w) + Len(p)
  BY ConcatProperties
<1>2. SubSeq(w \o p, 1, Len(w)) = w
  <2>1. CASE w = << >>
    BY <1>1, <2>1, SubSeqEmpty
  <2>2. CASE w # << >>
    <3>1. 1 \in 1..Len(w) /\ Len(w) \in 1..Len(w)
      BY <2>2, EmptySeq
    <3> QED
      BY <3>1, SubSeqOfConcat1, SubSeqFull
  <2> QED
    BY <2>1, <2>2
<1>3. SubSeq(w, 1, Len(w)) = w /\ SubSeq(w, 1, 0) = << >> /\ SubSeq(w \o p, 1, 0) = << >>
  BY SubSeqFull, SubSeqEmpty
<1>4. /\ 0 \in 0..Len(w) /\ Len(w) \in 0..Len(w)
      /\ 0 \in 0..Len(w \o p) /\ Len(w) \in 0..Len(w \o p)
  BY <1>1
<1> QED
  BY <1>2, <1>3, <1>4
-------------------------------------------------------------------------------
(* The types. *)

LEMMA StartsWithTypes ==
  ASSUME Init
  PROVE  TypeOK
<1> USE FanoutAssumption, CoreAssumption
<1>1. CoreTypeOK
  BY DEF Init, CoreInit, CoreTypeOK, NotLoaded
<1>2. sent \in Contents /\ task \in [Slots -> {Nothing} \cup Contents] /\ heard \in BOOLEAN
  <2>1. sent = 1 /\ task = [s \in Slots |-> Nothing] /\ heard = FALSE
    BY DEF Init
  <2>2. 1 \in Contents
    BY DEF Contents
  <2> QED
    BY <2>1, <2>2
<1>3. ring \in Seq(Contents) /\ Len(ring) = 0
  BY DEF Init
<1>4. /\ behind \in [Conns -> 0..(Capacity + 1)]
      /\ \A k \in Conns : behind[k] = 0
  BY DEF Init
<1>5. wire \in [Conns -> Seq(Contents)] /\ \A k \in Conns : Len(wire[k]) = 0
  BY DEF Init
<1>6. /\ sends \subseteq Conns /\ receives \subseteq Conns
      /\ link \in [Conns -> {"up", "closed", "dead"}]
      /\ socket \in [Dashboards -> Conns \cup {NoConn}]
      /\ shown \in [Dashboards -> {Nothing} \cup Contents]
  BY DEF Init
<1> QED
  BY <1>1, <1>2, <1>3, <1>4, <1>5, <1>6 DEF TypeOK

\* The steps of main and what may happen to the process keep its types.
LEMMA CoreKeepsTypes ==
  ASSUME CoreTypeOK, StartUp \/ Restart \/ RedisStops \/ RedisStarts \/ Crash \/ BindFails
  PROVE  CoreTypeOK'
<1> USE CoreAssumption DEF CoreTypeOK, process
<1>1. env' = env /\ redisUp' \in BOOLEAN
  BY DEF StartUp, LoadConfig, ConnectRedis, LoadGraph, OpenZenoh, Bind, Restart,
         RedisStops, RedisStarts, Crash, BindFails
<1>2. faults' \in 0..MaxFaults
  BY DEF StartUp, LoadConfig, ConnectRedis, LoadGraph, OpenZenoh, Bind, Restart,
         RedisStops, RedisStarts, Crash, BindFails, MayFail
<1>3. stage' \in {"load", "redis", "graph", "zenoh", "bind", "serving", "exited"}
  BY DEF StartUp, LoadConfig, ConnectRedis, LoadGraph, OpenZenoh, Bind, Restart,
         RedisStops, RedisStarts, Crash, BindFails, MayFail, GoOn, Fails
<1>4. config' \in [redis : Addresses \cup {"unset"}, port : {"unset", "default", "env"}]
  <2>1. CASE LoadConfig
    <3>1. env.redisUrl \in Addresses \cup {"unset"}
      OBVIOUS
    <3> QED
      BY <2>1, <3>1 DEF LoadConfig, Configured, Addresses
  <2>2. CASE Restart
    BY <2>2 DEF Restart, NotLoaded
  <2> QED
    BY <2>1, <2>2 DEF StartUp, ConnectRedis, LoadGraph, OpenZenoh, Bind,
         RedisStops, RedisStarts, Crash, BindFails
<1>5. router' \in {"loaded", "empty"}
  BY DEF StartUp, LoadConfig, ConnectRedis, LoadGraph, OpenZenoh, Bind, Restart,
         RedisStops, RedisStarts, Crash, BindFails
<1> QED
  BY <1>1, <1>2, <1>3, <1>4, <1>5

\* What a receiver has not had is a part of the channel.
LEMMA PendingType ==
  ASSUME TypeOK, NEW k \in Conns
  PROVE  /\ behind[k] <= Capacity => Pending(k) \in Seq(Contents)
         /\ wire[k] \in Seq(Contents)
         /\ k \in Live => behind[k] \in 0..Len(ring) /\ Pending(k) \in Seq(Contents)
<1>1. ring \in Seq(Contents) /\ behind[k] \in 0..(Capacity + 1)
      /\ (behind[k] <= Capacity => behind[k] <= Len(ring)) /\ wire[k] \in Seq(Contents)
  BY DEF TypeOK
<1>2. ASSUME behind[k] <= Capacity
      PROVE  behind[k] \in 0..Len(ring) /\ Pending(k) \in Seq(Contents)
  <2>1. behind[k] \in 0..Len(ring)
    BY <1>1, <1>2, FanoutAssumption
  <2>2. Len(ring) - behind[k] + 1 \in 1..(Len(ring) + 1)
    BY <1>1, <2>1
  <2> QED
    BY <1>1, <2>1, <2>2 DEF Pending
<1> QED
  BY <1>1, <1>2 DEF Live

LEMMA BroadcastKeepsTypes ==
  ASSUME TypeOK, NEW s \in Slots, Broadcast(s)
  PROVE  TypeOK'
<1> USE FanoutAssumption
<1>1. /\ ring \in Seq(Contents) /\ Len(ring) <= Capacity /\ task[s] \in Contents
      /\ ring' = Newest(Append(ring, task[s]))
  BY DEF TypeOK, Broadcast
<1>2. /\ ring' \in Seq(Contents)
      /\ Len(ring') = IF Len(ring) = Capacity THEN Capacity ELSE Len(ring) + 1
  BY <1>1, NewestType
<1>3. Len(ring') <= Capacity
  BY <1>1, <1>2
<1>4. ASSUME NEW k \in Conns
      PROVE  behind'[k] \in 0..(Capacity + 1) /\ (behind'[k] <= Capacity => behind'[k] <= Len(ring'))
  <2>1. behind[k] \in 0..(Capacity + 1) /\ (behind[k] <= Capacity => behind[k] <= Len(ring))
    BY DEF TypeOK
  <2>2. behind'[k] = IF k \in sends THEN OneMore(behind[k]) ELSE 0
    BY DEF Broadcast
  <2> QED
    BY <1>1, <1>2, <2>1, <2>2 DEF OneMore
<1>5. behind' \in [Conns -> 0..(Capacity + 1)]
  BY <1>4 DEF Broadcast
<1>6. task' \in [Slots -> {Nothing} \cup Contents] /\ heard' \in BOOLEAN
  BY DEF TypeOK, Broadcast
<1> QED
  BY <1>2, <1>3, <1>4, <1>5, <1>6
     DEF TypeOK, Broadcast, CoreTypeOK, core, process, loops, network, pages

LEMMA ForwardKeepsTypes ==
  ASSUME TypeOK, NEW k \in Conns, Forward(k)
  PROVE  TypeOK'
<1> USE FanoutAssumption
<1>1. behind[k] \in 1..Capacity /\ behind[k] \in 1..Len(ring) /\ ring \in Seq(Contents)
  BY DEF TypeOK, Forward
<1>2. Head(Pending(k)) \in Contents
  BY <1>1, MoveOne, EmptySeq DEF Pending
<1>3. wire[k] \in Seq(Contents) /\ Len(wire[k]) < Window
  BY DEF TypeOK, Forward
<1>4. /\ Append(wire[k], Head(Pending(k))) \in Seq(Contents)
      /\ Len(Append(wire[k], Head(Pending(k)))) <= Window
  BY <1>2, <1>3, AppendProperties
<1>5. wire' \in [Conns -> Seq(Contents)] /\ \A j \in Conns : Len(wire'[j]) <= Window
  BY <1>4 DEF TypeOK, Forward
<1>6. /\ behind' \in [Conns -> 0..(Capacity + 1)]
      /\ \A j \in Conns : behind'[j] <= Capacity => behind'[j] <= Len(ring)
  BY <1>1 DEF TypeOK, Forward
<1> QED
  BY <1>5, <1>6 DEF TypeOK, Forward, CoreTypeOK, core, process, loops, pages

\* A receiver that is dropped is behind by nothing.
LEMMA LoopsKeepTypes ==
  ASSUME TypeOK, NEW k \in Conns, SendLoopEnds(k) \/ ReceiveLoopEnds(k) \/ Abort(k)
  PROVE  TypeOK'
<1>1. behind' = behind \/ behind' = [behind EXCEPT ![k] = 0]
  BY DEF SendLoopEnds, ReceiveLoopEnds, Abort, channel
<1>2. ring \in Seq(Contents) /\ Len(ring) \in Nat /\ Capacity \in Nat
  BY FanoutAssumption DEF TypeOK
<1>3. /\ behind' \in [Conns -> 0..(Capacity + 1)]
      /\ \A j \in Conns : behind'[j] <= Capacity => behind'[j] <= Len(ring)
  <2>1. /\ behind \in [Conns -> 0..(Capacity + 1)]
        /\ \A j \in Conns : behind[j] <= Capacity => behind[j] <= Len(ring)
    BY DEF TypeOK
  <2>2. CASE behind' = behind
    BY <2>1, <2>2
  <2>3. CASE behind' = [behind EXCEPT ![k] = 0]
    BY <1>2, <2>1, <2>3
  <2> QED
    BY <1>1, <2>2, <2>3
<1>4. sends' \subseteq Conns /\ receives' \subseteq Conns
  BY DEF TypeOK, SendLoopEnds, ReceiveLoopEnds, Abort
<1> QED
  BY <1>3, <1>4 DEF TypeOK, SendLoopEnds, ReceiveLoopEnds, Abort, CoreTypeOK, core, process,
                    channel, network, pages

LEMMA DyingKeepsTypes ==
  ASSUME TypeOK, CoreDies
  PROVE  TypeOK'
<1>1. CoreTypeOK'
  BY CoreKeepsTypes DEF TypeOK, CoreDies
<1>2. ring' \in Seq(Contents) /\ Len(ring') = 0 /\ Capacity \in Nat
  BY FanoutAssumption DEF CoreDies
<1>3. behind' \in [Conns -> 0..(Capacity + 1)] /\ \A k \in Conns : behind'[k] = 0
  BY <1>2 DEF CoreDies
<1>4. task' \in [Slots -> {Nothing} \cup Contents] /\ heard' \in BOOLEAN
  BY DEF CoreDies
<1>5. sends' \subseteq Conns /\ receives' \subseteq Conns
  BY DEF CoreDies
<1> QED
  BY <1>1, <1>2, <1>3, <1>4, <1>5 DEF TypeOK, CoreDies, network, pages

LEMMA PagesKeepTypes ==
  ASSUME TypeOK, NEW d \in Dashboards,
         Connect(d) \/ OnMessage(d) \/ OnClose(d) \/ LinkFault(d)
  PROVE  TypeOK'
<1> USE FanoutAssumption
<1>1. << >> \in Seq(Contents) /\ Len(<< >>) = 0 /\ Window \in Nat /\ Capacity \in Nat
  OBVIOUS
<1>2. CASE Connect(d)
  <2> PICK k \in Conns : Connect(d)!2!(k)
    BY <1>2 DEF Connect
  <2>1. /\ behind' \in [Conns -> 0..(Capacity + 1)]
        /\ \A j \in Conns : behind'[j] <= Capacity => behind'[j] <= Len(ring)
    BY <1>1 DEF TypeOK
  <2>2. wire' \in [Conns -> Seq(Contents)] /\ \A j \in Conns : Len(wire'[j]) <= Window
    BY <1>1 DEF TypeOK
  <2>3. /\ link' \in [Conns -> {"up", "closed", "dead"}]
        /\ socket' \in [Dashboards -> Conns \cup {NoConn}]
        /\ sends' \subseteq Conns /\ receives' \subseteq Conns
    BY DEF TypeOK
  <2> QED
    BY <1>2, <2>1, <2>2, <2>3 DEF TypeOK, Connect, CoreTypeOK, core, process
<1>3. CASE OnMessage(d)
  <2> DEFINE k == socket[d]
  <2>1. k \in Conns /\ wire[k] \in Seq(Contents) /\ wire[k] # << >> /\ Len(wire[k]) <= Window
    BY <1>3 DEF TypeOK, OnMessage
  <2>2. Head(wire[k]) \in Contents /\ Tail(wire[k]) \in Seq(Contents) /\ Len(Tail(wire[k])) <= Window
    BY <2>1, HeadTailProperties, EmptySeq, <1>1
  <2>3. wire' = [wire EXCEPT ![k] = Tail(@)] /\ shown' = [shown EXCEPT ![d] = Head(wire[k])]
    BY <1>3 DEF OnMessage
  <2>4. wire' \in [Conns -> Seq(Contents)] /\ \A j \in Conns : Len(wire'[j]) <= Window
    BY <2>1, <2>2, <2>3 DEF TypeOK
  <2>5. shown' \in [Dashboards -> {Nothing} \cup Contents]
    BY <2>2, <2>3 DEF TypeOK
  <2> QED
    BY <1>3, <2>4, <2>5 DEF TypeOK, OnMessage, CoreTypeOK, core, process, channel, loops
<1>4. CASE OnClose(d)
  <2>1. wire' \in [Conns -> Seq(Contents)] /\ \A j \in Conns : Len(wire'[j]) <= Window
    BY <1>1, <1>4 DEF TypeOK, OnClose
  <2>2. socket' \in [Dashboards -> Conns \cup {NoConn}]
    BY <1>4 DEF TypeOK, OnClose
  <2> QED
    BY <1>4, <2>1, <2>2 DEF TypeOK, OnClose, CoreTypeOK, core, process, channel, loops
<1>5. CASE LinkFault(d)
  <2>1. wire' \in [Conns -> Seq(Contents)] /\ \A j \in Conns : Len(wire'[j]) <= Window
    BY <1>1, <1>5 DEF TypeOK, LinkFault
  <2>2. /\ link' \in [Conns -> {"up", "closed", "dead"}]
        /\ socket' \in [Dashboards -> Conns \cup {NoConn}]
        /\ shown' \in [Dashboards -> {Nothing} \cup Contents]
    BY <1>5 DEF TypeOK, LinkFault, pages
  <2>3. CoreTypeOK'
    BY <1>5, CoreAssumption DEF TypeOK, LinkFault, CoreTypeOK, process
  <2> QED
    BY <1>5, <2>1, <2>2, <2>3 DEF TypeOK, LinkFault, channel, loops
<1> QED
  BY <1>2, <1>3, <1>4, <1>5

LEMMA StepKeepsTypes ==
  ASSUME TypeOK, [Next]_vars
  PROVE  TypeOK'
<1>1. CASE Change
  <2>1. sent' \in Contents
    BY <1>1, FanoutAssumption DEF TypeOK, Change, Contents
  <2> QED
    BY <1>1, <2>1 DEF TypeOK, Change, CoreTypeOK, core, process, channel, loops, network, pages
<1>2. CASE Main
  BY <1>2, CoreKeepsTypes DEF TypeOK, Main, fanout, channel, loops, network, pages
<1>3. ASSUME NEW s \in Slots, Report(s)
      PROVE  TypeOK'
  BY <1>3 DEF TypeOK, Report, CoreTypeOK, core, process, channel, loops, network, pages
<1>4. CASE UNCHANGED vars
  BY <1>4 DEF TypeOK, vars, fanout, CoreTypeOK, core, process, channel, loops, network, pages
<1> QED
  BY <1>1, <1>2, <1>3, <1>4, BroadcastKeepsTypes, ForwardKeepsTypes, LoopsKeepTypes,
     DyingKeepsTypes, PagesKeepTypes DEF Next

\* Every variable keeps its type, and what a receiver has not had and does not miss
\* is in the channel (core/src/main.rs, core/src/ws.rs).
THEOREM TypeCorrect == Spec => []TypeOK
<1>1. Init => TypeOK
  BY StartsWithTypes
<1>2. TypeOK /\ [Next]_vars => TypeOK'
  BY StepKeepsTypes
<1> QED
  BY <1>1, <1>2, PTL DEF Spec
-------------------------------------------------------------------------------
(* The steps as those of Feed. *)

LEMMA OwedOf ==
  ASSUME NEW k \in Conns
  PROVE  /\ Owed[k] = IF k \in Live THEN wire[k] \o Pending(k) ELSE wire[k]
         /\ Owed'[k] = IF k \in Live' THEN wire'[k] \o Pending(k)' ELSE wire'[k]
         /\ DOMAIN Owed = Conns /\ DOMAIN Owed' = Conns
BY DEF Owed

LEMMA SameOwed ==
  ASSUME \A k \in Conns : Owed'[k] = Owed[k]
  PROVE  Owed' = Owed
BY DEF Owed

\* A connection that keeps of what it owes the wire or nothing is cut short.
LEMMA WireKept ==
  ASSUME NEW k \in Conns, NEW w \in Seq(Contents), NEW p \in Seq(Contents),
         Owed[k] = w \o p \/ Owed[k] = w,
         Owed'[k] = w \/ Owed'[k] = << >>
  PROVE  PageFeed!CutShort(k)
<1>1. /\ SubSeq(w \o p, 1, Len(w)) = w /\ SubSeq(w \o p, 1, 0) = << >>
      /\ SubSeq(w, 1, Len(w)) = w /\ SubSeq(w, 1, 0) = << >>
      /\ 0 \in 0..Len(w) /\ Len(w) \in 0..Len(w)
      /\ 0 \in 0..Len(w \o p) /\ Len(w) \in 0..Len(w \o p)
  BY WireIsPrefix
<1>2. ASSUME NEW n, n = Len(w) \/ n = 0
      PROVE  n \in 0..Len(Owed[k])
  BY <1>1, <1>2
<1>3. w = SubSeq(Owed[k], 1, Len(w)) /\ << >> = SubSeq(Owed[k], 1, 0)
  BY <1>1
<1> QED
  BY <1>2, <1>3 DEF PageFeed!CutShort

LEMMA StartsAsFeed ==
  ASSUME Init
  PROVE  PageFeed!Init
<1>1. Live = {}
  BY DEF Init, Live
<1>2. Owed = [k \in Conns |-> << >>]
  BY <1>1 DEF Init, Owed
<1> QED
  BY <1>1, <1>2 DEF Init, PageFeed!Init

\* A step that moves nothing between channel, sockets and pages.
LEMMA QuietSteps ==
  ASSUME ring' = ring, behind' = behind, sends' = sends, link' = link, wire' = wire,
         shown' = shown
  PROVE  UNCHANGED PageFeed!feed
<1>1. Live' = Live
  BY DEF Live
<1>2. Owed' = Owed
  BY <1>1 DEF Owed, Pending
<1> QED
  BY <1>1, <1>2 DEF PageFeed!feed

\* A step that closes connections and loses only what is on a wire or in the channel.
LEMMA CuttingSteps ==
  ASSUME TypeOK, Live' \subseteq Live,
         \A k \in Conns : wire'[k] \in {wire[k], << >>},
         \A k \in Live' : Owed'[k] = Owed[k],
         \A d \in Dashboards : shown'[d] \in {shown[d], Nothing},
         DOMAIN shown' = Dashboards
  PROVE  PageFeed!Cut
<1>1. ASSUME NEW k \in Conns
      PROVE  PageFeed!CutShort(k)
  <2>1. wire[k] \in Seq(Contents) /\ (k \in Live => Pending(k) \in Seq(Contents))
    BY PendingType
  <2>2. CASE k \in Live'
    <3>1. Owed'[k] = wire[k] \o Pending(k) /\ Owed[k] = wire[k] \o Pending(k)
      BY <2>2, OwedOf
    <3>2. wire[k] \o Pending(k) \in Seq(Contents)
      BY <2>1, <2>2
    <3>3. SubSeq(Owed[k], 1, Len(Owed[k])) = Owed[k] /\ Len(Owed[k]) \in 0..Len(Owed[k])
      BY <3>1, <3>2, SubSeqFull
    <3> QED
      BY <3>1, <3>3 DEF PageFeed!CutShort
  <2>3. CASE k \notin Live'
    <3>1. Owed'[k] = wire[k] \/ Owed'[k] = << >>
      BY <2>3, OwedOf
    <3>2. CASE k \in Live
      <4>1. Owed[k] = wire[k] \o Pending(k)
        BY <3>2, OwedOf
      <4> QED
        BY <2>1, <3>1, <3>2, <4>1, WireKept
    <3>3. CASE k \notin Live
      <4>1. Owed[k] = wire[k]
        BY <3>3, OwedOf
      <4> QED
        BY <2>1, <3>1, <4>1, WireKept, EmptySeq
    <3> QED
      BY <3>2, <3>3
  <2> QED
    BY <2>2, <2>3
<1> QED
  BY <1>1 DEF PageFeed!Cut, Owed

\* A message is owed to every live connection that has room for it; one that has none
\* lags from now on.
LEMMA BroadcastPublishes ==
  ASSUME TypeOK, NEW s \in Slots, Broadcast(s)
  PROVE  PageFeed!Publish(task[s])
<1> USE FanoutAssumption
<1> DEFINE slow == {k \in Live : behind[k] = Capacity}
           m == task[s]
<1>1. /\ ring \in Seq(Contents) /\ Len(ring) <= Capacity /\ m \in Contents
      /\ ring' = Newest(Append(ring, m))
  BY DEF TypeOK, Broadcast
<1>2. /\ sends' = sends /\ link' = link /\ wire' = wire /\ shown' = shown
      /\ \A k \in Conns : behind'[k] = IF k \in sends THEN OneMore(behind[k]) ELSE 0
  BY DEF Broadcast, loops, network, pages
<1>3. sends \subseteq Conns /\ \A k \in Conns : behind[k] \in 0..(Capacity + 1)
  BY DEF TypeOK
<1> HIDE DEF m
<1>4. Live' = Live \ slow
  BY <1>2, <1>3 DEF Live, OneMore
<1>5. ASSUME NEW k \in slow
      PROVE  PageFeed!CutShort(k)
  <2>1. k \in Conns /\ k \in Live /\ k \notin Live'
    BY <1>3, <1>4 DEF Live
  <2>2. Owed[k] = wire[k] \o Pending(k) /\ Owed'[k] = wire[k]
    BY <1>2, <2>1, OwedOf
  <2> QED
    BY <2>1, <2>2, PendingType, WireKept
<1>6. ASSUME NEW k \in Conns \ slow
      PROVE  Owed'[k] = IF k \in Live THEN Append(Owed[k], m) ELSE Owed[k]
  <2>1. CASE k \in Live
    <3>1. /\ behind[k] \in 0..Len(ring) /\ Pending(k) \in Seq(Contents)
          /\ wire[k] \in Seq(Contents)
      BY <2>1, PendingType
    <3>2. behind[k] < Capacity /\ behind'[k] = behind[k] + 1
      BY <1>1, <1>2, <1>3, <2>1, <3>1 DEF Live, OneMore
    <3>3. Pending(k)' = Append(Pending(k), m)
      <4> DEFINE b == behind[k]
                 r == ring'
      <4>1. b \in 0..Len(ring) /\ b < Capacity
        BY <3>1, <3>2
      <4>2. r = Newest(Append(ring, m))
        BY <1>1
      <4> HIDE DEF b, r
      <4>3. SubSeq(r, Len(r) - (b + 1) + 1, Len(r))
              = Append(SubSeq(ring, Len(ring) - b + 1, Len(ring)), m)
        BY <1>1, <4>1, <4>2, NewestOnes
      <4> QED
        BY <3>2, <4>3 DEF Pending, b, r
    <3>4. Owed[k] = wire[k] \o Pending(k) /\ Owed'[k] = wire[k] \o Append(Pending(k), m)
      BY <1>2, <1>4, <2>1, <3>3, OwedOf
    <3>5. wire[k] \o Append(Pending(k), m) = Append(wire[k] \o Pending(k), m)
      <4> DEFINE w == wire[k]
                 p == Pending(k)
      <4>1. w \in Seq(Contents) /\ p \in Seq(Contents) /\ <<m>> \in Seq(Contents)
        BY <1>1, <3>1
      <4> HIDE DEF w, p
      <4>2. Append(p, m) = p \o <<m>> /\ Append(w \o p, m) = (w \o p) \o <<m>>
        BY <1>1, <4>1, AppendIsConcat, ConcatProperties
      <4>3. w \o (p \o <<m>>) = (w \o p) \o <<m>>
        BY <4>1, ConcatAssociative
      <4> QED
        BY <4>2, <4>3 DEF w, p
    <3> QED
      BY <2>1, <3>4, <3>5
  <2>2. CASE k \notin Live
    BY <1>2, <1>4, <2>2, OwedOf
  <2> QED
    BY <2>1, <2>2
<1>7. slow \in SUBSET Live
  OBVIOUS
<1>8. DOMAIN Owed' = Conns
  BY DEF Owed
<1> HIDE DEF slow
<1>9. PageFeed!Publish(m)
  BY <1>2, <1>4, <1>5, <1>6, <1>7, <1>8 DEF PageFeed!Publish
<1> QED
  BY <1>9 DEF m

\* send_task moves a message from the channel to the socket: it is owed as before.
LEMMA ForwardIsQuiet ==
  ASSUME TypeOK, NEW k \in Conns, Forward(k)
  PROVE  UNCHANGED PageFeed!feed
<1> USE FanoutAssumption
<1>1. /\ behind[k] \in 1..Capacity /\ behind[k] \in 1..Len(ring) /\ ring \in Seq(Contents)
      /\ wire[k] \in Seq(Contents) /\ k \in Live
  BY DEF TypeOK, Forward, Live
<1>2. /\ ring' = ring /\ sends' = sends /\ link' = link /\ shown' = shown
      /\ wire' = [wire EXCEPT ![k] = Append(@, Head(Pending(k)))]
      /\ behind' = [behind EXCEPT ![k] = @ - 1]
  BY DEF Forward, loops, pages
<1>3. wire \in [Conns -> Seq(Contents)] /\ behind \in [Conns -> 0..(Capacity + 1)]
  BY DEF TypeOK
<1>4. Live' = Live
  BY <1>1, <1>2, <1>3 DEF Live
<1>5. ASSUME NEW j \in Conns
      PROVE  Owed'[j] = Owed[j]
  <2>1. CASE j = k
    <3>1. /\ Pending(k) = SubSeq(ring, Len(ring) - behind[k] + 1, Len(ring))
          /\ Pending(k)' = SubSeq(ring, Len(ring) - (behind[k] - 1) + 1, Len(ring))
          /\ wire'[k] = Append(wire[k], Head(Pending(k)))
      BY <1>2, <1>3 DEF Pending
    <3>2. wire'[k] \o Pending(k)' = wire[k] \o Pending(k)
      <4> DEFINE w == wire[k]
                 b == behind[k]
      <4>1. w \in Seq(Contents) /\ b \in 1..Len(ring)
        BY <1>1
      <4> HIDE DEF w, b
      <4>2. Append(w, Head(SubSeq(ring, Len(ring) - b + 1, Len(ring))))
              \o SubSeq(ring, Len(ring) - (b - 1) + 1, Len(ring))
            = w \o SubSeq(ring, Len(ring) - b + 1, Len(ring))
        BY <1>1, <4>1, MoveOne
      <4> QED
        BY <3>1, <4>2 DEF w, b
    <3>3. Owed[k] = wire[k] \o Pending(k) /\ Owed'[k] = wire'[k] \o Pending(k)'
      BY <1>1, <1>4, OwedOf
    <3> QED
      BY <2>1, <3>2, <3>3
  <2>2. CASE j # k
    <3>1. behind'[j] = behind[j] /\ wire'[j] = wire[j]
      BY <1>2, <1>3, <2>2
    <3>2. Pending(j)' = Pending(j)
      BY <1>2, <3>1 DEF Pending
    <3> QED
      BY <1>4, <3>1, <3>2, OwedOf
  <2> QED
    BY <2>1, <2>2
<1> QED
  BY <1>2, <1>4, <1>5, SameOwed DEF PageFeed!feed

LEMMA LoopsCut ==
  ASSUME TypeOK, NEW k \in Conns, SendLoopEnds(k) \/ Abort(k)
  PROVE  PageFeed!Cut
<1>1. /\ sends' = sends \ {k} /\ behind' = [behind EXCEPT ![k] = 0]
      /\ ring' = ring /\ link' = link /\ wire' = wire /\ shown' = shown
  BY DEF SendLoopEnds, Abort, network, pages
<1>2. behind \in [Conns -> 0..(Capacity + 1)] /\ sends \subseteq Conns
      /\ shown \in [Dashboards -> {Nothing} \cup Contents]
  BY DEF TypeOK
<1>3. Live' \subseteq Live /\ k \notin Live'
  BY <1>1, <1>2 DEF Live
<1>4. ASSUME NEW j \in Live'
      PROVE  Owed'[j] = Owed[j]
  <2>1. j \in Conns /\ j # k /\ j \in Live
    BY <1>2, <1>3 DEF Live
  <2>2. Pending(j)' = Pending(j)
    BY <1>1, <1>2, <2>1 DEF Pending
  <2> QED
    BY <1>1, <1>4, <2>1, <2>2, OwedOf
<1>5. DOMAIN shown' = Dashboards
  BY <1>1, <1>2
<1>6. \A j \in Conns : wire'[j] \in {wire[j], << >>}
  BY <1>1
<1>7. \A d \in Dashboards : shown'[d] \in {shown[d], Nothing}
  BY <1>1
<1> QED
  BY <1>3, <1>4, <1>5, <1>6, <1>7, CuttingSteps

LEMMA DyingCuts ==
  ASSUME TypeOK, CoreDies
  PROVE  PageFeed!Cut
<1>1. Live' = {} /\ wire' = wire /\ shown' = shown
  BY DEF CoreDies, Live, network, pages
<1>2. DOMAIN shown' = Dashboards
  BY <1>1 DEF TypeOK
<1>3. \A k \in Conns : wire'[k] \in {wire[k], << >>}
  BY <1>1
<1>4. \A d \in Dashboards : shown'[d] \in {shown[d], Nothing}
  BY <1>1
<1> QED
  BY <1>1, <1>2, <1>3, <1>4, CuttingSteps

LEMMA ConnectJoins ==
  ASSUME TypeOK, NEW d \in Dashboards, Connect(d)
  PROVE  \E k \in Conns : PageFeed!Join(k)
<1> USE FanoutAssumption
<1> PICK k \in Conns : Connect(d)!2!(k)
  BY DEF Connect
<1>1. /\ ring' = ring /\ shown' = shown /\ k \notin sends /\ sends' = sends \cup {k}
      /\ behind' = [behind EXCEPT ![k] = 0] /\ link' = [link EXCEPT ![k] = "up"]
      /\ wire' = [wire EXCEPT ![k] = << >>]
  BY DEF Connect, Unused
<1>2. /\ behind \in [Conns -> 0..(Capacity + 1)] /\ ring \in Seq(Contents)
      /\ DOMAIN link = Conns /\ DOMAIN wire = Conns /\ sends \subseteq Conns
  BY DEF TypeOK
<1>3. k \notin Live /\ Live' = Live \cup {k}
  BY <1>1, <1>2 DEF Live
<1>4. Owed'[k] = << >>
  <2>1. Pending(k)' = << >>
    <3>1. Pending(k)' = SubSeq(ring, Len(ring) - 0 + 1, Len(ring))
      BY <1>1, <1>2 DEF Pending
    <3>2. Len(ring) \in Nat /\ Len(ring) < Len(ring) - 0 + 1
      BY <1>2
    <3> QED
      BY <3>1, <3>2, SubSeqEmpty
  <2>2. wire'[k] = << >> /\ << >> \o << >> = << >>
    BY <1>1, <1>2, ConcatEmptySeq, EmptySeq
  <2> QED
    BY <1>3, <2>1, <2>2, OwedOf
<1>5. ASSUME NEW j \in Conns, j # k
      PROVE  Owed'[j] = Owed[j]
  <2>1. Pending(j)' = Pending(j) /\ wire'[j] = wire[j]
    BY <1>1, <1>2, <1>5 DEF Pending
  <2>2. j \in Live' <=> j \in Live
    BY <1>3, <1>5
  <2> QED
    BY <2>1, <2>2, OwedOf
<1>6. Owed' = [Owed EXCEPT ![k] = << >>]
  BY <1>4, <1>5 DEF Owed
<1>7. PageFeed!Join(k)
  BY <1>1, <1>3, <1>6 DEF PageFeed!Join
<1> QED
  BY <1>7

LEMMA OnMessageDelivers ==
  ASSUME TypeOK, NEW d \in Dashboards, OnMessage(d)
  PROVE  \E k \in Conns : PageFeed!Deliver(k, d)
<1> DEFINE k == socket[d]
<1>1. /\ k \in Conns /\ wire[k] # << >>
      /\ shown' = [shown EXCEPT ![d] = Head(wire[k])]
      /\ wire' = [wire EXCEPT ![k] = Tail(@)]
      /\ ring' = ring /\ behind' = behind /\ sends' = sends /\ link' = link
  BY DEF TypeOK, OnMessage, channel, loops
<1> HIDE DEF k
<1>2. wire \in [Conns -> Seq(Contents)] /\ wire[k] \in Seq(Contents)
      /\ (k \in Live => Pending(k) \in Seq(Contents))
  BY <1>1, PendingType DEF TypeOK
<1>3. Live' = Live /\ \A j \in Conns : Pending(j)' = Pending(j)
  BY <1>1 DEF Live, Pending
<1>4. Owed[k] # << >> /\ Head(Owed[k]) = Head(wire[k]) /\ Owed'[k] = Tail(Owed[k])
  <2>1. wire'[k] = Tail(wire[k])
    BY <1>1, <1>2
  <2>2. CASE k \in Live
    <3>1. Owed[k] = wire[k] \o Pending(k) /\ Owed'[k] = Tail(wire[k]) \o Pending(k)
      BY <1>1, <1>3, <2>1, <2>2, OwedOf
    <3> QED
      <4> DEFINE w == wire[k]
                 p == Pending(k)
      <4>1. w \in Seq(Contents) /\ p \in Seq(Contents) /\ w # << >>
        BY <1>1, <1>2, <2>2
      <4> HIDE DEF w, p
      <4>2. Head(w \o p) = Head(w) /\ w \o p # << >> /\ Tail(w \o p) = Tail(w) \o p
        BY <4>1, TakeOne
      <4> QED
        BY <3>1, <4>2 DEF w, p
  <2>3. CASE k \notin Live
    <3>1. Owed[k] = wire[k] /\ Owed'[k] = Tail(wire[k])
      BY <1>1, <1>3, <2>1, <2>3, OwedOf
    <3> QED
      BY <1>1, <3>1
  <2> QED
    BY <2>2, <2>3
<1>5. ASSUME NEW j \in Conns, j # k
      PROVE  Owed'[j] = Owed[j]
  <2>1. wire'[j] = wire[j]
    BY <1>1, <1>2, <1>5
  <2> QED
    BY <1>3, <2>1, OwedOf
<1>6. Owed' = [Owed EXCEPT ![k] = Tail(@)]
  BY <1>4, <1>5 DEF Owed
<1>7. PageFeed!Deliver(k, d)
  BY <1>1, <1>3, <1>4, <1>6 DEF PageFeed!Deliver
<1> QED
  BY <1>1, <1>7

\* A connection that a page finds closed, or that breaks, is not live afterwards.
LEMMA ClosingCuts ==
  ASSUME TypeOK, NEW d \in Dashboards, OnClose(d) \/ LinkFault(d)
  PROVE  PageFeed!Cut
<1> DEFINE k == socket[d]
<1>1. /\ k \in Conns /\ wire' = [wire EXCEPT ![k] = << >>]
      /\ ring' = ring /\ behind' = behind /\ sends' = sends
  BY DEF TypeOK, OnClose, LinkFault, channel, loops
<1>2. k \notin Live' /\ \A j \in Conns \ {k} : link'[j] = link[j]
  <2>1. DOMAIN link = Conns
    BY DEF TypeOK
  <2>2. CASE OnClose(d)
    BY <1>1, <2>2 DEF OnClose, Live
  <2>3. CASE LinkFault(d)
    BY <1>1, <2>1, <2>3 DEF LinkFault, Live
  <2> QED
    BY <2>2, <2>3
<1>3. /\ DOMAIN shown' = Dashboards
      /\ \A e \in Dashboards : shown'[e] \in {shown[e], Nothing}
  <2>1. DOMAIN shown = Dashboards
    BY DEF TypeOK
  <2>2. shown' = shown \/ shown' = [shown EXCEPT ![d] = Nothing]
    BY DEF OnClose, LinkFault, pages
  <2> QED
    BY <2>1, <2>2
<1> HIDE DEF k
<1>4. DOMAIN wire = Conns /\ sends \subseteq Conns
  BY DEF TypeOK
<1>5. Live' \subseteq Live
  BY <1>1, <1>2, <1>4 DEF Live
<1>6. \A j \in Conns : wire'[j] \in {wire[j], << >>}
  BY <1>1, <1>4
<1>7. ASSUME NEW j \in Live'
      PROVE  Owed'[j] = Owed[j]
  <2>1. j \in Conns /\ j # k /\ j \in Live
    BY <1>1, <1>2, <1>4, <1>5, <1>7 DEF Live
  <2>2. wire'[j] = wire[j] /\ Pending(j)' = Pending(j)
    BY <1>1, <1>4, <2>1 DEF Pending
  <2> QED
    BY <1>7, <2>1, <2>2, OwedOf
<1> QED
  BY <1>3, <1>5, <1>6, <1>7, CuttingSteps

LEMMA StepIsFeedStep ==
  ASSUME TypeOK, [Next]_vars
  PROVE  [PageFeed!Next]_(PageFeed!feed)
<1>1. CASE Change \/ Main \/ \E s \in Slots : Report(s)
  <2>1. UNCHANGED <<ring, behind, sends, link, wire, shown>>
    BY <1>1 DEF Change, Main, Report, fanout, channel, loops, network, pages
  <2> QED
    BY <2>1, QuietSteps
<1>2. ASSUME NEW s \in Slots, Broadcast(s)
      PROVE  PageFeed!Next
  <2>1. task[s] \in Contents
    BY <1>2 DEF TypeOK, Broadcast
  <2> QED
    BY <1>2, <2>1, BroadcastPublishes DEF PageFeed!Next
<1>3. ASSUME NEW k \in Conns, Forward(k)
      PROVE  UNCHANGED PageFeed!feed
  BY <1>3, ForwardIsQuiet
<1>4. ASSUME NEW k \in Conns, ReceiveLoopEnds(k)
      PROVE  UNCHANGED PageFeed!feed
  <2>1. UNCHANGED <<ring, behind, sends, link, wire, shown>>
    BY <1>4 DEF ReceiveLoopEnds, channel, network, pages
  <2> QED
    BY <2>1, QuietSteps
<1>5. ASSUME NEW k \in Conns, SendLoopEnds(k) \/ Abort(k)
      PROVE  PageFeed!Next
  BY <1>5, LoopsCut DEF PageFeed!Next
<1>6. CASE CoreDies
  BY <1>6, DyingCuts DEF PageFeed!Next
<1>7. ASSUME NEW d \in Dashboards, Connect(d) \/ OnMessage(d) \/ OnClose(d) \/ LinkFault(d)
      PROVE  PageFeed!Next
  BY <1>7, ConnectJoins, OnMessageDelivers, ClosingCuts DEF PageFeed!Next
<1>8. CASE UNCHANGED vars
  <2>1. UNCHANGED <<ring, behind, sends, link, wire, shown>>
    BY <1>8 DEF vars, fanout, channel, loops, network, pages
  <2> QED
    BY <2>1, QuietSteps
<1> QED
  BY <1>1, <1>2, <1>3, <1>4, <1>5, <1>6, <1>7, <1>8 DEF Next

\* The broadcast channel, the loops of handle_socket and the pages keep what Feed
\* promises: a page is told, on one connection, a gapless part of what is broadcast.
THEOREM FeedImplemented == Spec => ImplementsFeed
<1>1. Init => PageFeed!Init
  BY StartsAsFeed
<1>2. TypeOK /\ [Next]_vars => [PageFeed!Next]_(PageFeed!feed)
  BY StepIsFeedStep
<1>3. Spec => []TypeOK
  BY TypeCorrect
<1> QED
  BY <1>1, <1>2, <1>3, PTL DEF Spec, ImplementsFeed, PageFeed!Spec
================================================================================
