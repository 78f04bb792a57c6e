------------------------------ MODULE Examples ------------------------------
(***************************************************************************)
(* The example programs, of one of two kinds: those that distribute an     *)
(* entangled state (states) and those that teleport (teleport).  They      *)
(* share the simulator's clock and calendar and the group of their qubits; *)
(* the variables of a program that does not run keep the value they have   *)
(* at first.                                                               *)
(***************************************************************************)
EXTENDS Integers, Sequences, FiniteSets

CONSTANTS
  Programs, QDelays, Latencies,                        \* see ExampleDistribution
  Variants, Propagations, Transmissions, MemoryTimes   \* see TeleportationExamples

VARIABLES
  example,  \* which kind runs, or "none"
  clock, agenda, uid, group,
  program, delay, latency, place, acks, got, announced,
  variant, times, tDep, measured, tcp, bobInfo, going

simulatorVars == <<clock, agenda, uid, group>>
statesVars == <<program, delay, latency, place, acks, got, announced>>
teleportVars == <<variant, times, tDep, measured, tcp, bobInfo, going>>
exampleVars == <<example, simulatorVars, statesVars, teleportVars>>

ED == INSTANCE ExampleDistribution WITH now <- clock
ET == INSTANCE TeleportationExamples WITH now <- clock, bob <- bobInfo, running <- going

\* The times the programs are given are times.
ExamplesAssumption ==
  /\ QDelays \subseteq Nat
  /\ Variants \subseteq {"basic", "comms", "viz", "udp", "tcp"}
  /\ Propagations \subseteq Nat /\ Transmissions \subseteq Nat

\* A program's qubit and a datagram get through before its simulation is stopped;
\* the longest script takes 410.
InTime(t) == 410 + t.quantum < t.stop /\ 410 + t.classical + t.tx < t.stop
PacketsInTime ==
  \A tx \in Transmissions :
    /\ InTime(ET!CommsTimes(tx)) /\ InTime(ET!VizTimes(tx))
    /\ "udp" \in Variants =>
         \A propagation \in Propagations : InTime(ET!NoisyTimes(propagation, tx))

-----------------------------------------------------------------------------
Unused == 0

NoStates ==
  /\ program = Unused /\ delay = Unused /\ latency = Unused /\ place = Unused
  /\ acks = Unused /\ got = Unused /\ announced = Unused
NoTeleport ==
  /\ variant = Unused /\ times = Unused /\ tDep = Unused /\ measured = Unused
  /\ tcp = Unused /\ bobInfo = Unused /\ going = Unused
NoExample ==
  /\ example = "none" /\ clock = Unused /\ agenda = Unused /\ uid = Unused /\ group = Unused
  /\ NoStates /\ NoTeleport

ExamplesInit ==
  \/ example = "states" /\ ED!Init /\ NoTeleport
  \/ example = "teleport" /\ ET!Init /\ NoStates

ExamplesNext ==
  \/ example = "states" /\ ED!Next /\ UNCHANGED <<example, teleportVars>>
  \/ example = "teleport" /\ ET!Next /\ UNCHANGED <<example, statesVars>>

ExamplesSpec == ExamplesInit /\ [][ExamplesNext]_exampleVars

-----------------------------------------------------------------------------
(* The cluster program measures only once the clients have their qubits,   *)
(* and Bob corrects once, with the bits in hand                            *)
(* (examples/q2ns-5-noisy-teleportation-advanced-example.cc:133).          *)
StepsInOrder ==
  [][/\ example = "states" => ED!MeasuresOnceArrived
     /\ example = "teleport" => ET!CorrectsOnce]_exampleVars

(* Bob's qubit waits for the bits and never the other way round, over UDP  *)
(* for the time a packet takes to leave, whatever the distance; a trial    *)
(* without a result, which its statistics carry as NaN, is one over TCP    *)
(* whose bits the end of the simulation cut off                            *)
(* (examples/q2ns-5-noisy-teleportation-advanced-example.cc:114, 133).     *)
OnTime == example = "teleport" => ET!HeldForTheBits /\ ET!UnfinishedOnlyWhenTooFar

=============================================================================
