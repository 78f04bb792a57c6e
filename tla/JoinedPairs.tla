---------------------------- MODULE JoinedPairs -----------------------------
(***************************************************************************)
(* The frames of BellFrames next to the stabilizer group of the qubits:    *)
(* Bell pairs made, rotated by X and Z and joined by the gates and         *)
(* measurements of QProcessor::MeasureBell.  All qubits are in one state:  *)
(* what is done to a state is done to its product with others.             *)
(***************************************************************************)
EXTENDS QStateStab

CONSTANT MaxPairs \* bound on the Bell pairs made

PairsAssumption == MaxPairs \in Nat

F == INSTANCE BellFrames

VARIABLES made,        \* Bell pairs made; the k-th is of the qubits 2k - 1 and 2k
          index,       \* the position of each qubit that is left, indexInState_
          pairsGroup,  \* the stabilizer group of the state
          frames       \* the pairs that are left and the frame of each

pairsVars == <<made, index, pairsGroup, frames>>

Qubits == DOMAIN index
Size == Cardinality(Qubits)

PairsInit ==
  /\ made = 0
  /\ index = [q \in {} |-> 0]
  /\ pairsGroup = StabZero(0)
  /\ frames = [p \in {} |-> F!NoFrame]

\* CreateBellPair: H on the first half, then CNOT.
BellPairGroup == StabApply(StabApply(StabZero(2), "H", <<0>>), "CNOT", <<0, 1>>)

CreateBellPair ==
  LET q0 == 2 * made + 1
      q1 == 2 * made + 2
  IN  /\ made < MaxPairs
      /\ made' = made + 1
      /\ index' = [q \in Qubits \cup {q0, q1} |->
                     IF q = q0 THEN Size ELSE IF q = q1 THEN Size + 1 ELSE index[q]]
      /\ pairsGroup' = StabMerge(pairsGroup, Size, BellPairGroup)
      /\ frames' = [p \in DOMAIN frames \cup {{q0, q1}} |->
                      IF p = {q0, q1} THEN F!NoFrame ELSE frames[p]]

Rotated(f, k) == IF k = "X" THEN F!AfterX(f) ELSE F!AfterZ(f)

ApplyPauli(k, q) ==
  /\ pairsGroup' = StabApply(pairsGroup, k, <<index[q]>>)
  /\ \E p \in DOMAIN frames :
       q \in p /\ frames' = [frames EXCEPT ![p] = Rotated(@, k)]
  /\ UNCHANGED <<made, index>>

\* Measure(q) takes q out of the state: the positions after it are lower by one.
Without(places, q) ==
  [w \in DOMAIN places \ {q} |-> IF places[w] > places[q] THEN places[w] - 1 ELSE places[w]]

\* The two pairs become one; its qubits are the halves that were not measured.
Joined(p, r, a, b, m1, m2) ==
  LET far == (p \cup r) \ {a, b}
  IN  [s \in (DOMAIN frames \ {p, r}) \cup {far} |->
         IF s = far THEN F!AfterMeasureBell(frames[p], frames[r], m1, m2) ELSE frames[s]]

\* MeasureBell(a, b): CNOT(a, b), H(a), Measure(a) is m1, Measure(b) is m2.
MeasureBell(a, b, m1, m2) ==
  LET rotated == StabApply(StabApply(pairsGroup, "CNOT", <<index[a], index[b]>>), "H", <<index[a]>>)
      afterA == StabSurvivors(rotated, Size, index[a], "Z", m1)
      indexA == Without(index, a)
  IN  /\ m1 \in StabOutcomes(rotated, index[a], "Z")
      /\ m2 \in StabOutcomes(afterA, indexA[b], "Z")
      /\ pairsGroup' = StabSurvivors(afterA, Size - 1, indexA[b], "Z", m2)
      /\ index' = Without(indexA, b)
      /\ \E p, r \in DOMAIN frames :
           p # r /\ a \in p /\ b \in r /\ frames' = Joined(p, r, a, b, m1, m2)
      /\ UNCHANGED made

PairsNext ==
  \/ CreateBellPair
  \/ \E k \in {"X", "Z"}, q \in Qubits : ApplyPauli(k, q)
  \/ \E a, b \in Qubits, m1, m2 \in {0, 1} : a # b /\ MeasureBell(a, b, m1, m2)

PairsSpec == PairsInit /\ [][PairsNext]_pairsVars

-----------------------------------------------------------------------------
(* Every pair that is left is |Phi+> in its frame: the stabilizers of its  *)
(* two qubits are XX with the sign of z and ZZ with the sign of x          *)
(* (model/q2ns-qprocessor.cc:289).                                         *)
FramesAreTheState ==
  \A p \in DOMAIN frames :
    LET both == {index[q] : q \in p}
    IN  /\ Pauli(both, {}, frames[p][2] = 1) \in pairsGroup
        /\ Pauli({}, both, frames[p][1] = 1) \in pairsGroup

=============================================================================
