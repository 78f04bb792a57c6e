---------------------------- MODULE MCQNetwork ----------------------------
(* QNetwork for TLC: the links, routes and sampled maps of small networks. *)
EXTENDS QNetwork

CONSTANTS n1, n2, n3

OneLink == {{n1, n2}}
Chain == {{n1, n2}, {n2, n3}}
ChainAndLoop == {{n1, n2}, {n2, n3}, {n2}}
NoCalls == {}
NoRoutes == {}

\* A route past the neighbour, and one over an interface that never exists.
FarRoutes == {[node |-> n1, dst |-> n3, oif |-> 1],
              [node |-> n2, dst |-> n1, oif |-> 7]}

\* The first link gets a null end, one end twice, or an end of the other link.
Dev(c, s, n) == [chan |-> c, side |-> s, node |-> n]
Call(a, b) == [chan |-> {n1, n2}, a |-> a, b |-> b]
Near == {Dev({n1, n2}, "A", n1)}
Far == {Dev({n1, n2}, "B", n2)}
Taken == {Dev({n2, n3}, "B", n3)}
Rewirings == {Call({}, Far), Call(Near, Far), Call(Near, Near), Call(Taken, Near)}
NullEnd == {Call({}, Far), Call(Near, {})}

\* No map, a plain gate, and a gate that comes too late.
MapInstances == {<<>>, <<"gate">>, <<"loss", "gate">>}
\* A gate that the qubit survives or not.
GateInstances == {<<"gate">>, <<"gate", "loss">>}
LossyInstances == {<<>>, <<"loss">>}

=============================================================================
