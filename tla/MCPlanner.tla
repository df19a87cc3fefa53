------------------------------- MODULE MCPlanner -------------------------------
(* A small instance of Planner for TLC. *)
EXTENDS Planner, SequencesExt

CONSTANTS S, A, B, T, U

\* Four nodes; U is named by edges and requests but is no node.  Three lengths make
\* a millimetre, so most of those below are not whole ones.
Positions == S :> <<0, 0>> @@ A :> <<1, 0>> @@ B :> <<4, 4>> @@ T :> <<7, 8>>

\* The edges with these lengths from n to m.
Lanes(n, m, lens) == [i \in DOMAIN lens |-> [from |-> n, to |-> m, len |-> lens[i]]]

\* Between two nodes a file has no edge, one that is straight, a detour, two
\* parallel edges, one shorter than the line or one below zero.
SomeFiles ==
  {[pos |-> Positions,
    edges |-> FlattenSeq(<<Lanes(S, A, sa), Lanes(A, B, ab), Lanes(B, A, ba),
                           Lanes(B, T, bt), Lanes(S, T, st), Lanes(A, T, at),
                           Lanes(A, S, as), Lanes(T, U, <<1>>), Lanes(U, B, <<1>>)>>)] :
     sa \in {<< >>, <<1>>, <<3>>}, ab \in {<< >>, <<5>>, <<8>>},
     ba \in {<< >>, <<5>>, <<-1>>}, bt \in {<< >>, <<5>>, <<3>>},
     st \in {<< >>, <<11>>, <<14, 11>>, <<11, 14>>}, at \in {<< >>, <<10>>, <<31>>},
     as \in {<< >>, <<1>>}}
===============================================================================
