------------------------------ MODULE QStateDM ------------------------------
(***************************************************************************)
(* The density-matrix backend (model/q2ns-qstate-dm.cc).                   *)
(*                                                                         *)
(* A matrix gives an entry to every pair of basis states (row, column), up *)
(* to a positive factor: the trace is 1 in the code and is left out here.  *)
(***************************************************************************)
EXTENDS QStateKet, Functions

\* Divided by a non-zero diagonal entry, which is real and positive.
Normalised(rho) ==
  LET ref == rho[CHOOSE rc \in DOMAIN rho : rc[1] = rc[2] /\ rho[rc] # Zero][1]
  IN  [rc \in DOMAIN rho |-> <<rho[rc][1] \div ref, rho[rc][2] \div ref>>]

\* The projector of a ket.
Projector(psi) ==
  Normalised([rc \in (DOMAIN psi) \X (DOMAIN psi) |-> Times(psi[rc[1]], Conj(psi[rc[2]]))])

DMZero(n) == Projector(KetZero(n))

\* U rho, then (U rho) U^dagger: the second is the first on the adjoint.
Adjoint(rho) == [rc \in DOMAIN rho |-> Conj(rho[<<rc[2], rc[1]>>])]
OnRows(rho, n, U, t) ==
  LET column(c) == ApplyMatrix([r \in BasisStates(n) |-> rho[<<r, c>>]], U, t)
      columns == [c \in BasisStates(n) |-> column(c)]
  IN  [rc \in DOMAIN rho |-> columns[rc[2]][rc[1]]]

DMApply(rho, n, k, t) ==
  LET U == MatrixOf(k)
  IN  Normalised(OnRows(Adjoint(OnRows(rho, n, U, t)), n, U, t))

DMMerge(rho, n, sigma, m) ==
  LET left(s) == s \cap Positions(n)
      right(s) == {q \in Positions(m) : q + n \in s}
  IN  [rc \in BasisStates(n + m) \X BasisStates(n + m) |->
         Times(rho[<<left(rc[1]), left(rc[2])>>], sigma[<<right(rc[1]), right(rc[2])>>])]

DMRotated(rho, n, target, basis) ==
  LET ks == IntoZ(basis)
      first == IF Len(ks) >= 1 THEN DMApply(rho, n, ks[1], <<target>>) ELSE rho
  IN  IF Len(ks) = 2 THEN DMApply(first, n, ks[2], <<target>>) ELSE first

\* The block of a rotated matrix where the target reads the bit.
DMProjected(rho, n, target, bit) ==
  LET at(s) == Lift(s, target) \cup (IF bit = 1 THEN {target} ELSE {})
  IN  [rc \in BasisStates(n - 1) \X BasisStates(n - 1) |-> rho[<<at(rc[1]), at(rc[2])>>]]

HasWeight(rho) == \E rc \in DOMAIN rho : rc[1] = rc[2] /\ rho[rc] # Zero

DMOutcomes(rho, n, target, basis) ==
  {bit \in {0, 1} : HasWeight(DMProjected(DMRotated(rho, n, target, basis), n, target, bit))}

DMSurvivors(rho, n, target, basis, bit) ==
  Normalised(DMProjected(DMRotated(rho, n, target, basis), n, target, bit))

DMMeasured(basis, bit) == Projector(KetMeasured(basis, bit))

-----------------------------------------------------------------------------
(***************************************************************************)
(* PartialTrace(A) returns the state of A and leaves the state of the rest *)
(* in the object.  Both renumber what they keep in the old order.          *)
(***************************************************************************)
\* The position in the whole state of the i-th kept one.
KeptPosition(kept, i) ==
  CHOOSE q \in kept : Cardinality({p \in kept : p < q}) = i
Spread(kept, s) == {KeptPosition(kept, i) : i \in s}

SumDiagonal(rho, r, c, traced) ==
  FoldFunction(Plus, Zero, [e \in traced |-> rho[<<r \cup e, c \cup e>>]])

Reduced(rho, n, kept) ==
  LET m == Cardinality(kept)
      spread == [s \in BasisStates(m) |-> Spread(kept, s)]
  IN  Normalised([rc \in BasisStates(m) \X BasisStates(m) |->
                    SumDiagonal(rho, spread[rc[1]], spread[rc[2]],
                                SUBSET (Positions(n) \ kept))])

PartialTrace(rho, n, A) ==
  [returned |-> Reduced(rho, n, A), left |-> Reduced(rho, n, Positions(n) \ A)]

=============================================================================
