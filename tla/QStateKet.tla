----------------------------- MODULE QStateKet ------------------------------
(***************************************************************************)
(* The state-vector backend (model/q2ns-qstate-ket.cc).                    *)
(*                                                                         *)
(* A ket over n qubits gives an amplitude to every basis state; a basis    *)
(* state is the set of positions that are 1.  Norm and global phase are    *)
(* left out: a ket is kept scaled so that a chosen non-zero amplitude is   *)
(* 1.  The states reached with the built-in gates have amplitudes of one   *)
(* modulus, so the scaled amplitudes are 0 or a power of i.                *)
(***************************************************************************)
EXTENDS QGate, FiniteSets

Positions(n) == 0..(n - 1)
BasisStates(n) == SUBSET Positions(n)

Support(psi) == {s \in DOMAIN psi : psi[s] # Zero}

\* The amplitudes divided by the one of a fixed member of the support.
Scaled(psi) ==
  LET ref == psi[CHOOSE s \in Support(psi) : TRUE]
      Ratio(a) == LET p == Times(a, Conj(ref))
                  IN  <<p[1] \div Norm(ref), p[2] \div Norm(ref)>>
  IN  [s \in DOMAIN psi |-> Ratio(psi[s])]

\* QStateKet(n): every qubit in |0>.
KetZero(n) == [s \in BasisStates(n) |-> IF s = {} THEN One ELSE Zero]

\* Row or column of a gate on targets t that basis state s selects.
RowOf(t, s) ==
  LET bit(q) == IF q \in s THEN 1 ELSE 0
  IN  IF Len(t) = 1 THEN 1 + bit(t[1]) ELSE 1 + 2 * bit(t[1]) + bit(t[2])

\* The basis states that differ from s on the targets only, by column.
TargetSets(t) ==
  IF Len(t) = 1 THEN <<{}, {t[1]}>> ELSE <<{}, {t[2]}, {t[1]}, {t[1], t[2]}>>
TargetPositions(t) == {t[i] : i \in 1..Len(t)}

Sum2(f) == Plus(f[1], f[2])
SumOver(f) == IF Len(f) = 2 THEN Sum2(f) ELSE Plus(Sum2(f), Plus(f[3], f[4]))

\* A matrix applied to the targets, unscaled.
ApplyMatrix(psi, U, t) ==
  LET off(s) == s \ TargetPositions(t)
      sub == TargetSets(t)
  IN  [s \in DOMAIN psi |->
         SumOver([c \in 1..Len(sub) |->
                    Times(U[RowOf(t, s)][c], psi[off(s) \cup sub[c]])])]

KetApply(psi, k, t) == Scaled(ApplyMatrix(psi, MatrixOf(k), t))

\* Kronecker product: the other state's positions follow this one's.
Mutant_KetMergeOnLeft(psi, n, phi, m) ==
  [s \in BasisStates(n + m) |->
     Times(phi[s \cap Positions(m)],
           psi[{q \in Positions(n) : q + m \in s}])]
KetMerge(psi, n, phi, m) ==
  [s \in BasisStates(n + m) |->
     Times(psi[s \cap Positions(n)],
           phi[{q \in Positions(m) : q + n \in s}])]

-----------------------------------------------------------------------------
Basis == {"Z", "X", "Y"}

\* The gates that turn a measurement in the basis into one in Z.
IntoZ(basis) ==
  CASE basis = "Z" -> <<>>
    [] basis = "X" -> <<"H">>
    [] basis = "Y" -> <<"SDG", "H">>

\* At most two gates in a row on one target.
ApplyAll(psi, ks, t) ==
  LET first == IF Len(ks) >= 1 THEN KetApply(psi, ks[1], t) ELSE psi
  IN  IF Len(ks) = 2 THEN KetApply(first, ks[2], t) ELSE first

\* Positions of the survivors of a removal, and back.
Lift(s, target) == {IF q < target THEN q ELSE q + 1 : q \in s}

\* The part of a rotated ket where the target reads the bit, without it.
Projected(psi, n, target, bit) ==
  [s \in BasisStates(n - 1) |->
     psi[Lift(s, target) \cup (IF bit = 1 THEN {target} ELSE {})]]

KetOutcomes(psi, n, target, basis) ==
  {bit \in {0, 1} :
     Support(Projected(ApplyAll(psi, IntoZ(basis), <<target>>), n, target, bit)) # {}}

KetSurvivors(psi, n, target, basis, bit) ==
  Scaled(Projected(ApplyAll(psi, IntoZ(basis), <<target>>), n, target, bit))

KetBit(bit) ==
  [s \in BasisStates(1) |-> IF (s = {0}) = (bit = 1) THEN One ELSE Zero]

\* The measured qubit: the gates of the rotation applied once more.
KetMeasured(basis, bit) == ApplyAll(KetBit(bit), IntoZ(basis), <<0>>)

=============================================================================
