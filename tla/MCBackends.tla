----------------------------- MODULE MCBackends ------------------------------
(* The state operations of the three backends, and the Bell pairs of       *)
(* JoinedPairs, which is its own state machine: a behaviour is of one or   *)
(* the other.                                                              *)
EXTENDS QStateBackends, JoinedPairs

VARIABLE part

ASSUME PairsAssumption

TwoQubits == [maxQubits |-> 2, gates |-> QGateKind, bases |-> {"Z", "X"}]
ThreeQubits == [maxQubits |-> 3, gates |-> {"H", "CNOT"}, bases |-> {}]
OneQubitAllBases == [maxQubits |-> 1, gates |-> {"H", "S"}, bases |-> Basis]
AllScripts == {TwoQubits, ThreeQubits, OneQubitAllBases}
YScript == {OneQubitAllBases}

BackendsInit ==
  /\ part \in {"state", "pairs"}
  /\ Init
  /\ PairsInit
  /\ part = "pairs" => script = OneQubitAllBases

BackendsNext ==
  \/ part = "state" /\ Next /\ UNCHANGED <<part, pairsVars>>
  \/ part = "pairs" /\ PairsNext /\ UNCHANGED <<part, vars>>

BackendsSpec == BackendsInit /\ [][BackendsNext]_<<part, vars, pairsVars>>

=============================================================================
