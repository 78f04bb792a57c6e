----------------------------- MODULE QAnalysis ------------------------------
(***************************************************************************)
(* The measures of model/q2ns-analysis.cc on the states the built-in gates *)
(* reach.  Rounding and the clamps against it are left out; numbers        *)
(* between 0 and 1 are fractions <<numerator, denominator>>.               *)
(***************************************************************************)
EXTENDS QStateDM

\* |<psi|phi>|^2 over the norms; the kets are scaled, not normalised.
Mutant_FidelityUnconjugated(psi, phi) ==
  LET both == Support(psi) \cap Support(phi)
      count(u) == Cardinality({s \in both : Times(psi[s], phi[s]) = u})
      overlap == <<count(One) - count(Minus(One)), count(Imag) - count(Minus(Imag))>>
  IN  <<Norm(overlap), Cardinality(Support(psi)) * Cardinality(Support(phi))>>
Fidelity(psi, phi) ==
  LET both == Support(psi) \cap Support(phi)
      count(u) == Cardinality({s \in both : Times(Conj(psi[s]), phi[s]) = u})
      overlap == <<count(One) - count(Minus(One)), count(Imag) - count(Minus(Imag))>>
  IN  <<Norm(overlap), Cardinality(Support(psi)) * Cardinality(Support(phi))>>

\* Tr(rho rho) over the squared trace; the entries that are not 0 have
\* modulus 1.
Trace(rho) == Cardinality({rc \in DOMAIN rho : rc[1] = rc[2] /\ rho[rc] # Zero})
Purity(rho) ==
  <<Cardinality({rc \in DOMAIN rho : rho[rc] # Zero}), Trace(rho) * Trace(rho)>>
IsPure(rho) == Purity(rho)[1] = Purity(rho)[2]

\* The eigenvalues of a part of such a state are 0 or one 2^-e, 2^e times.
VonNeumannEntropy(rho) ==
  CHOOSE e \in 0..Cardinality(DOMAIN rho) : Purity(rho)[1] * 2^e = Purity(rho)[2]

=============================================================================
