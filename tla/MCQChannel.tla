----------------------------- MODULE MCQChannel -----------------------------
(***************************************************************************)
(* What a transmission depends on, for TLC: a behaviour is of one part.    *)
(*                                                                         *)
(*   channel  two devices and a channel, created with the defaults or with *)
(*            a Delay and a Jitter, and configured and connected anew      *)
(*   maps     compositions of three of eleven maps over four streams of     *)
(*            numbers (QMaps)                                              *)
(*   streams  two links and states of two backends (Streams)               *)
(*   seeds    the salts QPPK, QPPD and STAB in two replications            *)
(*            (SeedDerivation)                                             *)
(*                                                                         *)
(* The variables of a part that is not the behaviour's keep their first    *)
(* value.                                                                  *)
(***************************************************************************)
EXTENDS QChannel, Streams, SeedDerivation, GateWeights

CONSTANTS d1, d2

VARIABLES part, maps, stream, elapsed, pos, inst, qubit

mapVars == <<gateVars, maps, stream, elapsed, pos, inst, qubit>>
allVars == <<vars, streamVars, seedVars, part, mapVars>>

-----------------------------------------------------------------------------
MCWirings == {<<d1, d2>>, <<d2, d1>>, <<d1, d1>>, <<NoDev, d2>>}
MCValues == -1..1
MCGiven == {Defaults, [Delay |-> 2, Jitter |-> 1]}

M(kind, p, rate, arg) == [kind |-> kind, p |-> p, rate |-> rate, arg |-> arg]
Sometimes == M("loss", 3, 0, "")
MCMaps ==
  {M("null", 0, 0, ""), M("lambda", 0, 0, "H"), M("lambda", 0, 0, "advanced"),
   M("lambda", 0, 0, "reset"),
   M("dephasing", 2, 2, ""), M("depolarizing", 4, 0, ""), Sometimes, M("loss", 6, 2, ""),
   M("randomGate", 5, 1, ""), M("randomUnitary", 6, 0, ""),
   M("conditional", 0, 0, [pred |-> "untouched", map |-> Sometimes])}
MCDistributions == {<<v, w>> : v, w \in 0..2}
MCStreams == {[i \in 1..12 |-> (a * i + b) % 6] : a \in {1, 5}, b \in {0, 2}}

QM == INSTANCE QMaps WITH
  Maps <- MCMaps, Streams <- MCStreams, Flights <- {0, 2}

\* "QPPK", "QPPD" and "STAB".
MCSalt == [ket |-> 1364217931, dm |-> 1364217924, stab |-> 1398030658]

ASSUME QM!QMapsAssumption /\ StreamsAssumption /\ SeedAssumption

-----------------------------------------------------------------------------
MCInit ==
  /\ Init /\ StreamsInit /\ SeedsInit
  /\ \/ part = "maps" /\ given = Defaults /\ QM!Init
     \/ /\ part \in {"channel", "streams", "seeds"} /\ (part = "channel" \/ given = Defaults)
        /\ GatesInit
        /\ maps = 0 /\ stream = 0 /\ elapsed = 0 /\ pos = 0 /\ inst = 0 /\ qubit = 0

MCNext ==
  \/ part = "channel" /\ Next /\ UNCHANGED <<streamVars, seedVars, part, mapVars>>
  \/ part = "maps" /\ QM!Next /\ UNCHANGED <<vars, streamVars, seedVars, part>>
  \/ part = "streams" /\ StreamsNext /\ UNCHANGED <<vars, seedVars, part, mapVars>>
  \/ part = "seeds" /\ SeedsNext /\ UNCHANGED <<vars, streamVars, part, mapVars>>

MCSpec == MCInit /\ [][MCNext]_allVars

-----------------------------------------------------------------------------
(* What a composed map does to a qubit does not depend on how it was       *)
(* nested, ends with a loss, and follows the rates                         *)
(* (model/q2ns-qmap.cc:103, 132).                                          *)
MapsSound == part = "maps" => QM!MapsSound

=============================================================================
