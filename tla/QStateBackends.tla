--------------------------- MODULE QStateBackends ---------------------------
(***************************************************************************)
(* One quantum state carried by the three backends side by side, through   *)
(* the calls of the QState interface (model/q2ns-qstate.h): a merge with   *)
(* another state, a gate, a measurement.  A script that changes the        *)
(* backend's name changes nothing else, so the three must stay the same    *)
(* physical state.                                                         *)
(***************************************************************************)
EXTENDS QStateStab

\* Scripts: qubits of the largest state, gates applied, bases measured.
CONSTANT Scripts

ASSUME BackendsAssumption ==
  Scripts \subseteq [maxQubits : Nat \ {0}, gates : SUBSET QGateKind, bases : SUBSET Basis]

VARIABLES script,   \* the script that calls the state
          n,        \* NumQubits() of the state
          ket,      \* QStateKet::state_
          rho,      \* QStateDM::rho_
          group,    \* QStateStab::psi_
          measured  \* what the last measurement returned, none at the start

stateVars == <<n, ket, rho, group, measured>>
vars == <<script, stateVars>>

None == [bit |-> -1]
OneQubit(basis, bit) ==
  [bit |-> bit, basis |-> basis, ket |-> KetMeasured(basis, bit),
   rho |-> DMMeasured(basis, bit), group |-> Synth1QEigenstate(basis, bit)]

Init ==
  /\ script \in Scripts
  /\ n = 1
  /\ ket = KetZero(1)
  /\ rho = DMZero(1)
  /\ group = StabZero(1)
  /\ measured = None

-----------------------------------------------------------------------------
Apply(k, t) ==
  /\ Len(t) = Arity(k)
  /\ ket' = KetApply(ket, k, t)
  /\ rho' = DMApply(rho, n, k, t)
  /\ group' = StabApply(group, k, t)
  /\ UNCHANGED <<n, measured>>

\* MergeDisjoint with a fresh qubit, on the right.
MergeFresh ==
  /\ n < script.maxQubits
  /\ n' = n + 1
  /\ ket' = Scaled(KetMerge(ket, n, KetZero(1), 1))
  /\ rho' = DMMerge(rho, n, DMZero(1), 1)
  /\ group' = StabMerge(group, n, StabZero(1))
  /\ UNCHANGED measured

\* MergeDisjoint of the last measured qubit with the survivors, on the left.
\* A qubit measured in Y is not the same for all backends (see
\* MeasuredInRequestedBasis), so it is not followed further.
MergeMeasured ==
  /\ n < script.maxQubits
  /\ measured # None /\ measured.basis # "Y"
  /\ n' = n + 1
  /\ ket' = Scaled(KetMerge(measured.ket, 1, ket, n))
  /\ rho' = DMMerge(measured.rho, 1, rho, n)
  /\ group' = StabMerge(measured.group, 1, group)
  /\ measured' = None

\* The measured qubit leaves, the survivors stay.
Measure(target, basis, bit) ==
  /\ bit \in KetOutcomes(ket, n, target, basis)
  /\ n' = n - 1
  /\ ket' = KetSurvivors(ket, n, target, basis, bit)
  /\ rho' = DMSurvivors(rho, n, target, basis, bit)
  /\ group' = StabSurvivors(group, n, target, basis, bit)
  /\ measured' = OneQubit(basis, bit)

Targets == {<<q>> : q \in Positions(n)}
           \cup {t \in Positions(n) \X Positions(n) : t[1] # t[2]}

Call ==
  \/ \E k \in script.gates, t \in Targets : Apply(k, t)
  \/ MergeFresh
  \/ MergeMeasured
  \/ \E q \in Positions(n), b \in script.bases, bit \in {0, 1} : Measure(q, b, bit)

Next == Call /\ UNCHANGED script

Spec == Init /\ [][Next]_vars

-----------------------------------------------------------------------------
(* The representations are states: the group has one member per subset of  *)
(* generators and none with both signs.                                    *)
TypeOK ==
  /\ n \in 0..script.maxQubits
  /\ ket \in [BasisStates(n) -> {Zero} \cup {PowerOfI(k) : k \in 0..3}]
  /\ DOMAIN rho = BasisStates(n) \X BasisStates(n)
  /\ group \subseteq Paulis(n)
  /\ Cardinality(group) = 2^n
  /\ \A p \in group : Negated(p) \notin group

(* The three backends hold the same physical state after any calls: every  *)
(* member of the stabilizer group leaves the ket as it is, and the density *)
(* matrix is the ket's projector (model/q2ns-qstate.h:51).                 *)
BackendsAgree ==
  /\ \A p \in group : Stabilizes(p, ket)
  /\ rho = Projector(ket)

\* The bases compared; what differs with three qubits is their order.
Compared == IF n < 3 THEN Basis ELSE {"X"}

(* In every basis the three backends may return the same outcomes, and      *)
(* leave the same state on the qubits that stay, in their old order        *)
(* (model/q2ns-qstate-stab.cc:165).                                        *)
SameMeasurements ==
  \A q \in Positions(n), b \in Compared :
    /\ DMOutcomes(rho, n, q, b) = KetOutcomes(ket, n, q, b)
    /\ StabOutcomes(group, q, b) = KetOutcomes(ket, n, q, b)
    /\ \A bit \in KetOutcomes(ket, n, q, b) :
         LET stays == KetSurvivors(ket, n, q, b, bit)
         IN  /\ DMSurvivors(rho, n, q, b, bit) = Projector(stays)
             /\ \A p \in StabSurvivors(group, n, q, b, bit) : Stabilizes(p, stays)

RepeatsIn(basis) ==
  measured # None /\ measured.basis = basis =>
    LET again == {measured.bit}
    IN  /\ KetOutcomes(measured.ket, 1, 0, basis) = again
        /\ DMOutcomes(measured.rho, 1, 0, basis) = again
        /\ StabOutcomes(measured.group, 0, basis) = again

(* The one-qubit state a measurement in Z or X returns is the eigenstate   *)
(* that belongs to the outcome, for every backend: measuring it again in   *)
(* the same basis gives the same bit (model/q2ns-qstate-ket.cc:144).       *)
MeasuredInZOrX == RepeatsIn("Z") /\ RepeatsIn("X")

(* The same in every basis, as the comment at                              *)
(* model/q2ns-qstate-ket.cc:144 has it.                                    *)
MeasuredInRequestedBasis == \A basis \in Basis : RepeatsIn(basis)

(* The same of the stabilizer backend alone, in every basis it is asked    *)
(* for (model/q2ns-qstate-stab.cc:129).                                    *)
StabMeasuredInRequestedBasis ==
  measured # None => StabOutcomes(measured.group, 0, measured.basis) = {measured.bit}

(* Tracing out part of a state leaves both parts what the stabilizers of   *)
(* each part say they are, in the old order of their positions.            *)
ReducedStates ==
  \A A \in (SUBSET Positions(n)) \ {{}, Positions(n)} :
    LET parts == PartialTrace(rho, n, A)
        rest == Positions(n) \ A
    IN  /\ parts.returned = DensityOf(Restricted(group, A), Cardinality(A))
        /\ parts.left = DensityOf(Restricted(group, rest), Cardinality(rest))

(* The analysis of a part: its entropy counts the qubits its own           *)
(* stabilizers do not determine, is the same on both sides of a cut, and   *)
(* is zero exactly when the part is pure (model/q2ns-analysis.cc:264).     *)
EntropyCountsEntanglement ==
  \A A \in (SUBSET Positions(n)) \ {{}, Positions(n)} :
    LET parts == PartialTrace(rho, n, A)
        entropy == VonNeumannEntropy(parts.returned)
    IN  /\ Cardinality(Restricted(group, A)) * 2^entropy = 2^Cardinality(A)
        /\ VonNeumannEntropy(parts.left) = entropy
        /\ (entropy = 0) = IsPure(parts.returned)

(* Fidelity says of two kets what their stabilizers say: 0 if they         *)
(* contradict each other, else the share of the group they have in common  *)
(* (model/q2ns-analysis.cc:207).                                           *)
FidelityOfStabilizers ==
  \A k \in script.gates, t \in Targets :
    Len(t) = Arity(k) =>
      LET f == Fidelity(ket, KetApply(ket, k, t))
          other == StabApply(group, k, t)
          contradict == \E p \in group : Negated(p) \in other
          common == IF contradict THEN 0 ELSE Cardinality(group \cap other)
      IN  f[1] * Cardinality(group) = f[2] * common

(* After any calls the three backends hold one physical state, whole and   *)
(* in its parts, and a measurement means the same for each, in what it may *)
(* return, in what it leaves, and in the qubit it returns for Z and X      *)
(* (model/q2ns-qstate.h:51, model/q2ns-qstate-stab.cc:165,                 *)
(* model/q2ns-qstate-ket.cc:144).                                          *)
StatesAgree ==
  /\ TypeOK /\ BackendsAgree /\ ReducedStates
  /\ SameMeasurements /\ MeasuredInZOrX /\ StabMeasuredInRequestedBasis

(* What the analysis computes of amplitudes is what the stabilizers say    *)
(* (model/q2ns-analysis.cc:207, 264).                                      *)
AnalysisAgrees == EntropyCountsEntanglement /\ FidelityOfStabilizers

=============================================================================
