----------------------------- MODULE QStateStab -----------------------------
(***************************************************************************)
(* The stabilizer backend (model/q2ns-qstate-stab.cc).                     *)
(*                                                                         *)
(* The code delegates to stab::AffineState (third_party/stab), which keeps *)
(* amplitudes: an affine space of bit strings with a quadratic phase.      *)
(* Such a state is modelled by the stabilizer group it determines: the     *)
(* signed Pauli operators that leave it as it is.  A Pauli has the         *)
(* positions with an X part, those with a Z part (both is Y) and a sign.   *)
(***************************************************************************)
EXTENDS QAnalysis, FiniteSetsExt

Pauli(x, z, neg) == [x |-> x, z |-> z, neg |-> neg]
Negated(p) == [p EXCEPT !.neg = ~p.neg]
Paulis(n) == [x : BasisStates(n), z : BasisStates(n), neg : BOOLEAN]

Toggle(a, q, on) == IF on THEN SymDiff(a, {q}) ELSE a
Xor(a, b) == a # b

\* What a gate turns a Pauli into.
Conjugated(p, k, t) ==
  LET a == t[1]
      b == t[Len(t)]
      xa == a \in p.x
      za == a \in p.z
      xb == b \in p.x
      zb == b \in p.z
      Swapped(s) == Toggle(Toggle(s, a, Xor(a \in s, b \in s)), b, Xor(a \in s, b \in s))
  IN  CASE k = "I" -> p
        [] k = "X" -> Pauli(p.x, p.z, Xor(p.neg, za))
        [] k = "Y" -> Pauli(p.x, p.z, Xor(p.neg, Xor(xa, za)))
        [] k = "Z" -> Pauli(p.x, p.z, Xor(p.neg, xa))
        [] k = "H" -> Pauli(Toggle(p.x, a, Xor(xa, za)), Toggle(p.z, a, Xor(xa, za)),
                            Xor(p.neg, xa /\ za))
        [] k = "S" -> Pauli(p.x, Toggle(p.z, a, xa), Xor(p.neg, xa /\ za))
        [] k = "SDG" -> Pauli(p.x, Toggle(p.z, a, xa), Xor(p.neg, xa /\ ~za))
        [] k = "CNOT" -> Pauli(Toggle(p.x, b, xa), Toggle(p.z, a, zb),
                               Xor(p.neg, xa /\ zb /\ (xb <=> za)))
        [] k = "CZ" -> Pauli(p.x, Toggle(Toggle(p.z, a, xb), b, xa),
                             Xor(p.neg, xa /\ xb /\ Xor(za, zb)))
        [] k = "SWAP" -> Pauli(Swapped(p.x), Swapped(p.z), p.neg)

StabZero(n) == {Pauli({}, z, FALSE) : z \in BasisStates(n)}

StabApply(group, k, t) == {Conjugated(p, k, t) : p \in group}

StabMerge(group, n, other) ==
  LET shift(s) == {q + n : q \in s}
  IN  {Pauli(p.x \cup shift(r.x), p.z \cup shift(r.z), Xor(p.neg, r.neg)) :
         p \in group, r \in other}

ZAt(q, bit) == Pauli({}, {q}, bit = 1)

\* MeasureZ: the outcomes it may return and the group it leaves.
ZOutcomes(group, q) ==
  {bit \in {0, 1} : ZAt(q, 1 - bit) \notin group}
AfterZ(group, q, bit) ==
  LET commuting == {p \in group : q \notin p.x}
  IN  commuting \cup {Pauli(p.x, SymDiff(p.z, {q}), Xor(p.neg, bit = 1)) : p \in commuting}

RotateIntoZBasis(group, q, basis) ==
  LET ks == IntoZ(basis)
      first == IF Len(ks) >= 1 THEN StabApply(group, ks[1], <<q>>) ELSE group
  IN  IF Len(ks) = 2 THEN StabApply(first, ks[2], <<q>>) ELSE first

\* DropLastQubit of a state whose last qubit is on its own.
DropLast(group, n) == {p \in group : (n - 1) \notin p.x \cup p.z}

\* Swaps the target to the end one position at a time, then drops the end.
RemoveQubit(group, n, target) ==
  LET swapped[q \in target..(n - 1)] ==
        IF q = target THEN group ELSE StabApply(swapped[q - 1], "SWAP", <<q - 1, q>>)
  IN  DropLast(swapped[n - 1], n)

Synth1QEigenstate(basis, bit) ==
  LET h == StabApply(StabZero(1), "H", <<0>>)
      plus == CASE basis = "Z" -> StabZero(1)
                [] basis = "X" -> h
                [] basis = "Y" -> StabApply(h, "S", <<0>>)
      flip == IF basis = "Z" THEN "X" ELSE "Z"
  IN  IF bit = 1 THEN StabApply(plus, flip, <<0>>) ELSE plus

StabOutcomes(group, q, basis) == ZOutcomes(RotateIntoZBasis(group, q, basis), q)

StabSurvivors(group, n, q, basis, bit) ==
  RemoveQubit(AfterZ(RotateIntoZBasis(group, q, basis), q, bit), n, q)

-----------------------------------------------------------------------------
(***************************************************************************)
(* What a group says of the other two representations.                     *)
(***************************************************************************)
Sign(p, s) == Cardinality(p.x \cap p.z) + (IF p.neg THEN 2 ELSE 0)
              + 2 * Cardinality(p.z \cap s)

\* p psi = psi, entry by entry.
Stabilizes(p, psi) ==
  \A s \in DOMAIN psi :
    psi[SymDiff(s, p.x)] = Times(PowerOfI(Sign(p, s)), psi[s])

\* Entry of the sum of the group's members, the state's density matrix.
SumEntries(ps, c) == FoldFunction(Plus, Zero, [p \in ps |-> PowerOfI(Sign(p, c))])

DensityOf(group, n) ==
  Normalised([rc \in BasisStates(n) \X BasisStates(n) |->
                SumEntries({p \in group : p.x = SymDiff(rc[1], rc[2])}, rc[2])])

\* The members that touch only the kept positions, renumbered.
Restricted(group, kept) ==
  LET index(s) == {Cardinality({p \in kept : p < q}) : q \in s}
  IN  {Pauli(index(p.x), index(p.z), p.neg) : p \in {p \in group : p.x \cup p.z \subseteq kept}}

=============================================================================
