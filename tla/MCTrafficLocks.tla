---------------------------- MODULE MCTrafficLocks ----------------------------
(* Small instances of TrafficLocks for TLC. *)
EXTENDS TrafficLocks

CONSTANTS n1, n2, n3

\* Two overlapping paths through n2, as two orders through one crossing.
PathsThroughCrossing == {{n1, n2}, {n2, n3}}

\* Two times to live, between those that Redis refuses.
TtlsAroundValid == {0, 1, 2, 3}
===============================================================================
