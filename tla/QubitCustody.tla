---------------------------- MODULE QubitCustody ----------------------------
(***************************************************************************)
(* What the network promises about where a qubit is, whatever else happens *)
(* to it: it is nowhere until created, then in the custody of exactly one  *)
(* node or one channel, goes from a node to a channel that leads to the    *)
(* node it is heading for and from there to that very node, and once lost  *)
(* it is lost for good.  A qubit does not stay on a channel for ever.      *)
(***************************************************************************)
EXTENDS Naturals

CONSTANTS Node, Qubit

VARIABLES
  place,   \* where each qubit is
  toward   \* the node it is heading for, as a set: empty unless on a channel

custodyVars == <<place, toward>>

Channel == {{a, b} : a \in Node, b \in Node}

At(n)   == [type |-> "Node", ownerId |-> n]
On(c)   == [type |-> "Channel", ownerId |-> c]
Gone    == [type |-> "Lost", ownerId |-> {}]
Nowhere == [type |-> "Unset", ownerId |-> {}]

Place == {At(n) : n \in Node} \cup {On(c) : c \in Channel} \cup {Gone, Nowhere}

Init == /\ place = [q \in Qubit |-> Nowhere]
        /\ toward = [q \in Qubit |-> {}]

Move(qs, there, target) ==
  /\ place' = [q \in Qubit |-> IF q \in qs THEN there ELSE place[q]]
  /\ toward' = [q \in Qubit |-> IF q \in qs THEN target ELSE toward[q]]

(* One qubit, or a Bell pair, comes into being at a node.                  *)
Create(n, qs) ==
  /\ qs # {} /\ \A q \in qs : place[q] = Nowhere
  /\ Move(qs, At(n), {})

Depart(q, n, m) == place[q] = At(n) /\ Move({q}, On({n, m}), {m})

Arrive(q, m) == /\ \E c \in Channel : place[q] = On(c)
                /\ m \in toward[q]
                /\ Move({q}, At(m), {})

Lose(q) == place[q] \notin {Nowhere, Gone} /\ Move({q}, Gone, {})

Land(q) == /\ \E c \in Channel : place[q] = On(c)
           /\ Lose(q) \/ \E m \in Node : Arrive(q, m)

Next ==
  \/ \E n \in Node, qs \in SUBSET Qubit : Create(n, qs)
  \/ \E q \in Qubit, n, m \in Node : Depart(q, n, m)
  \/ \E q \in Qubit, m \in Node : Arrive(q, m)
  \/ \E q \in Qubit : Lose(q)

Spec == Init /\ [][Next]_custodyVars
FairSpec == Spec /\ \A q \in Qubit : WF_custodyVars(Land(q))

=============================================================================
