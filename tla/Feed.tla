---------------------------------- MODULE Feed ----------------------------------
(***************************************************************************)
(* What a connection of the dashboard promises, free of channels, tasks    *)
(* and sockets: everything that is published from the moment it is open,   *)
(* in that order and without a gap, until it is cut.  A cut may lose the   *)
(* end of what is owed, never anything before something that is shown.     *)
(***************************************************************************)
EXTENDS Naturals, Sequences

CONSTANTS Conns, Dashboards, Contents, Nothing

VARIABLES
  live,    \* the connections that are open
  owed,    \* what each connection has still to deliver
  shown    \* what each dashboard was told last

feed == <<live, owed, shown>>

Init ==
  /\ live = {}
  /\ owed = [k \in Conns |-> << >>]
  /\ shown = [d \in Dashboards |-> Nothing]

\* Of what k owes the end is lost.
CutShort(k) == \E n \in 0..Len(owed[k]) : owed'[k] = SubSeq(owed[k], 1, n)

\* m is owed to every open connection, except those that are cut for being slow.
Publish(m) ==
  /\ \E slow \in SUBSET live :
       /\ live' = live \ slow
       /\ \A k \in slow : CutShort(k)
       /\ \A k \in Conns \ slow :
            owed'[k] = IF k \in live THEN Append(owed[k], m) ELSE owed[k]
  /\ DOMAIN owed' = Conns
  /\ UNCHANGED shown

Deliver(k, d) ==
  /\ owed[k] # << >>
  /\ shown' = [shown EXCEPT ![d] = Head(owed[k])]
  /\ owed' = [owed EXCEPT ![k] = Tail(@)]
  /\ UNCHANGED live

Join(k) ==
  /\ k \notin live /\ live' = live \cup {k}
  /\ owed' = [owed EXCEPT ![k] = << >>]
  /\ UNCHANGED shown

\* Connections are cut, at either end or with the core; a page that is closed shows
\* nothing any more.
Cut ==
  /\ live' \subseteq live
  /\ \A k \in Conns : CutShort(k)
  /\ \A k \in live' : owed'[k] = owed[k]
  /\ DOMAIN owed' = Conns
  /\ \A d \in Dashboards : shown'[d] \in {shown[d], Nothing}
  /\ DOMAIN shown' = Dashboards

Next ==
  \/ \E m \in Contents : Publish(m)
  \/ \E k \in Conns : Join(k) \/ \E d \in Dashboards : Deliver(k, d)
  \/ Cut

Spec == Init /\ [][Next]_feed
=================================================================================
