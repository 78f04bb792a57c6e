---------------------------- MODULE GateWeights -----------------------------
(***************************************************************************)
(* The gates of RandomGateQMap (model/q2ns-qmap.cc), a discrete            *)
(* distribution: their weights, the total kept next to them, and which     *)
(* gate a drawn number picks.                                              *)
(*                                                                         *)
(* Weights are multiples of a unit.  A number drawn from (0, 1) is the     *)
(* part 0..Grid-1 it is in, of Grid equal ones, and stands for the middle  *)
(* of its part.                                                            *)
(***************************************************************************)
EXTENDS Integers, Sequences, FiniteSets

CONSTANTS
  Weights,        \* weights of AddGate
  Distributions,  \* lists of weights of SetDistribution
  MaxGates,       \* bound on the gates added
  Grid

GatesAssumption ==
  /\ Grid \in Nat \ {0} /\ MaxGates \in Nat
  /\ Weights \subseteq Nat /\ Distributions \subseteq Seq(Nat)

VARIABLES
  weights,  \* weights_
  total     \* totalWeight_

gateVars == <<weights, total>>

SumUpTo(ws, i) ==
  LET sum[k \in 0..Len(ws)] == IF k = 0 THEN 0 ELSE sum[k - 1] + ws[k] IN sum[i]

\* The first gate whose part of (0, totalWeight_) reaches the drawn number.
PickIndex(ws, t, d) ==
  LET hit == {i \in DOMAIN ws : (2 * d + 1) * t <= 2 * Grid * SumUpTo(ws, i)}
  IN  IF hit = {} THEN Len(ws) ELSE CHOOSE i \in hit : \A j \in hit : i <= j

GatesInit ==
  /\ weights = <<>>
  /\ total = 0

AddGate(w) ==
  /\ Len(weights) < MaxGates
  /\ weights' = Append(weights, w)
  /\ total' = total + w

Mutant_SetDistribution(ws) ==
  /\ weights' = ws
  /\ total' = total + SumUpTo(ws, Len(ws))
\* The total is computed anew.
SetDistribution(ws) ==
  /\ weights' = ws
  /\ total' = SumUpTo(ws, Len(ws))

Clear ==
  /\ weights' = <<>>
  /\ total' = 0

GatesNext ==
  \/ \E w \in Weights : AddGate(w)
  \/ \E ws \in Distributions : SetDistribution(ws)
  \/ Clear

GatesSpec == GatesInit /\ [][GatesNext]_gateVars

-----------------------------------------------------------------------------
(* Each gate of a RandomGateQMap is picked for its share of the numbers    *)
(* drawn, and one of weight 0 for none, however its gates were set, added  *)
(* and cleared (model/q2ns-qmap.cc:379).                                   *)
PickedByWeight ==
  total > 0 /\ Grid % total = 0 =>
    \A i \in DOMAIN weights :
      Cardinality({d \in 0..(Grid - 1) : PickIndex(weights, total, d) = i}) * total
        = weights[i] * Grid

=============================================================================
