----------------------- MODULE TeleportationExamples -----------------------
(***************************************************************************)
(* The example programs that teleport |+> without the teleportation        *)
(* application: with the outcomes in shared memory ("basic"), over         *)
(* UDP ("comms", "viz"), and with a noisy memory at Bob, over UDP or over  *)
(* a TCP connection opened for the two bits ("udp", "tcp").                *)
(*                                                                         *)
(* Bob needs the qubit and the bits and corrects at whichever comes last.  *)
(* Position 0 is psi, 1 is Alice's half of the Bell pair, 2 is Bob's.  One *)
(* unit of time is 10 ns; the 1 ns before the first event counts as 0.     *)
(***************************************************************************)
EXTENDS QStateStab, SequencesExt

CONSTANTS
  Variants,       \* the programs that are run
  Propagations,   \* 5 us per km of the distance asked for, "udp" and "tcp"
  Transmissions,  \* time a packet or a segment takes to leave at 100 Mbps
  MemoryTimes     \* TDepMs, 0 for an ideal memory

VARIABLES
  variant, times, tDep,  \* the program that runs, its links' times, the memory's
  now, agenda, uid,      \* the clock, the pending events, the next event's number
  group,                 \* the stabilizer group of the three qubits
  measured,              \* Alice's outcomes <<m1, m2>>; <<0, 0>> before
  tcp,                   \* TcpSendState: pendingPkt is set, it was sent
  bob,                   \* BobInfo; -1 for what has not come
  running                \* Simulator::Stop has not taken effect

vars == <<variant, times, tDep, now, agenda, uid, group, measured, tcp, bob, running>>

Noisy == variant \in {"udp", "tcp"}

-----------------------------------------------------------------------------
\* When a program's links deliver and when its simulation is stopped.
LinkTimes(quantum, classical, tx, stop) ==
  [quantum |-> quantum, classical |-> classical, tx |-> tx, stop |-> stop]
BasicTimes(tx) == LinkTimes(1, 0, tx, 1000000000)
CommsTimes(tx) == LinkTimes(1, 100000, tx, 1000000000)
VizTimes(tx) == LinkTimes(1, 1, tx, 10000000)
NoisyTimes(propagation, tx) == LinkTimes(propagation, propagation, tx, 500000000)

\* One step of a chain of Schedule calls: gates, then the send, then the Bell
\* measurement's two readings.
Step(gap, gates, sends, measures) ==
  [gap |-> gap, gates |-> gates, sends |-> sends, measures |-> measures]

BellPair == << <<"H", <<1>>>>, <<"CNOT", <<1, 2>>>> >>
PreparePlus == << <<"H", <<0>>>> >>
BellBasis == << <<"CNOT", <<0, 1>>>>, <<"H", <<0>>>> >>

CommsScript == << Step(0, BellPair \o PreparePlus \o BellBasis, TRUE, TRUE) >>

VizScript ==
  <<  Step(100, <<>>, FALSE, FALSE),
      Step(10, <<BellPair[1]>>, FALSE, FALSE),
      Step(30, <<BellPair[2]>>, FALSE, FALSE),
      Step(10, <<>>, TRUE, FALSE),
      Step(200, <<>>, FALSE, FALSE),
      Step(10, PreparePlus, FALSE, FALSE),
      Step(30, <<BellBasis[1]>>, FALSE, FALSE),
      Step(10, <<BellBasis[2]>>, FALSE, FALSE),
      Step(10, <<>>, FALSE, TRUE) >>

\* The basic program has Alice do the same in one event.
BasicScript == CommsScript

Script == CASE variant = "viz" -> VizScript
            [] variant = "basic" -> BasicScript
            [] OTHER -> CommsScript

-----------------------------------------------------------------------------
Event(due, number, kind, arg) == [due |-> due, uid |-> number, kind |-> kind, arg |-> arg]

Takes(e, kind) ==
  /\ running /\ e.kind = kind
  /\ \A f \in agenda : e.due < f.due \/ (e.due = f.due /\ e.uid <= f.uid)
  /\ now' = e.due

Fixed == UNCHANGED <<variant, times, tDep>>

Unopened == [pending |-> FALSE, sent |-> FALSE]
NoInfo == [qubitAt |-> -1, bitsAt |-> -1, m1 |-> 0, m2 |-> 0, done |-> FALSE,
           noise |-> "I", result |-> -1]

Init ==
  /\ variant \in Variants
  /\ \E tx \in Transmissions, propagation \in Propagations :
       times = CASE variant = "basic" -> BasicTimes(tx)
                 [] variant = "comms" -> CommsTimes(tx)
                 [] variant = "viz" -> VizTimes(tx)
                 [] OTHER -> NoisyTimes(propagation, tx)
  /\ tDep \in MemoryTimes
  /\ now = 0
  /\ agenda = {Event(Script[1].gap, 0, "step", 1), Event(times.stop, 1, "stop", 0)}
  /\ uid = 2
  /\ group = StabZero(3)
  /\ measured = <<0, 0>>
  /\ tcp = Unopened
  /\ bob = NoInfo
  /\ running = TRUE

Mutant_Reaches(at, number, kind) == Event(at + times.classical, number, kind, 0)
Reaches(at, number, kind) == Event(at + times.classical + times.tx, number, kind, 0)

\* What leaves Alice when she has the outcomes: a datagram, or the opening of a
\* connection, whose success she learns of a round trip later.
SendCtrlPacket(at, number) ==
  CASE variant = "basic" -> {}
    [] variant = "tcp" -> {Event(at + 2 * (times.classical + times.tx), number, "connected", 0)}
    [] OTHER -> {Reaches(at, number, "bits")}

Apply(g, gates) == FoldLeft(LAMBDA h, gate : StabApply(h, gate[1], gate[2]), g, gates)

\* The readings that may come of q, and the group each leaves.
Readings(g, q) == {<<m, AfterZ(g, q, m)>> : m \in ZOutcomes(g, q)}

AliceStep(e) ==
  LET step == Script[e.arg]
      applied == Apply(group, step.gates)
      arrival == IF step.sends THEN {Event(now' + times.quantum, uid, "qubit", 0)} ELSE {}
      after == IF e.arg < Len(Script)
               THEN {Event(now' + Script[e.arg + 1].gap, uid + 2, "step", e.arg + 1)} ELSE {}
  IN
  /\ Takes(e, "step")
  /\ IF step.measures
     THEN \E r1 \in Readings(applied, 0) : \E r2 \in Readings(r1[2], 1) :
            /\ measured' = <<r1[1], r2[1]>>
            /\ group' = r2[2]
     ELSE group' = applied /\ UNCHANGED measured
  /\ agenda' = (agenda \ {e}) \cup arrival \cup after
       \cup (IF step.measures THEN SendCtrlPacket(now', uid + 1) ELSE {})
  /\ tcp' = IF step.measures /\ variant = "tcp"
            THEN [pending |-> TRUE, sent |-> FALSE] ELSE tcp
  /\ uid' = uid + 3
  /\ Fixed /\ UNCHANGED <<bob, running>>

\* The acknowledgement of the handshake leaves before the data.
OnTcpConnectSuccess(e) ==
  /\ Takes(e, "connected")
  /\ IF tcp.pending /\ ~tcp.sent
     THEN /\ tcp' = [tcp EXCEPT !.sent = TRUE]
          /\ agenda' = (agenda \ {e}) \cup {Reaches(now' + times.tx, uid, "bits")}
     ELSE tcp' = tcp /\ agenda' = agenda \ {e}
  /\ uid' = uid + 1
  /\ Fixed /\ UNCHANGED <<group, measured, bob, running>>

-----------------------------------------------------------------------------
(* Bob *)

Pauli1(g, k) == IF k = "I" THEN g ELSE StabApply(g, k, <<2>>)
If(m, k) == IF m = 1 THEN k ELSE "I"

PlusGroup == {p \in Paulis(1) : p.z = {} /\ ~p.neg}
IsPlus(g) == Restricted(g, {2}) = PlusGroup

\* What the memory may do to a qubit held that long.
MemoryNoise(hold) == IF tDep > 0 /\ hold > 0 THEN {"I", "X", "Y", "Z"} ELSE {"I"}

\* Fidelity of what Bob holds with |+>, and the end of the simulation.
NoisyCorrections(b) ==
  \E noise \in MemoryNoise(b.bitsAt - b.qubitAt) :
    LET g == Pauli1(Pauli1(Pauli1(group, noise), If(b.m2, "X")), If(b.m1, "Z"))
    IN  /\ group' = g
        /\ bob' = [b EXCEPT !.done = TRUE, !.noise = noise, !.result = IF IsPlus(g) THEN 1 ELSE 0]
        /\ running' = FALSE

\* Bob reads his qubit in the X basis; 0 is what |+> gives.
VerifiedInX(b, g) ==
  LET turned == RotateIntoZBasis(g, 2, "X") IN
  \E mx \in ZOutcomes(turned, 2) :
    /\ group' = AfterZ(turned, 2, mx)
    /\ bob' = [b EXCEPT !.result = 1 - mx, !.done = TRUE]

CommsCorrections(b) ==
  /\ VerifiedInX(b, Pauli1(Pauli1(group, If(b.m2, "X")), If(b.m1, "Z")))
  /\ UNCHANGED running
VizCorrections(b) ==
  /\ VerifiedInX(b, Pauli1(Pauli1(group, If(b.m1, "Z")), If(b.m2, "X")))
  /\ running' = FALSE
BasicCorrections(b) ==
  /\ VerifiedInX(b, Pauli1(Pauli1(group, If(measured[2], "X")), If(measured[1], "Z")))
  /\ UNCHANGED running

Mutant_BothArrived(b) == b.qubitAt >= 0
BothArrived(b) == b.qubitAt >= 0 /\ b.bitsAt >= 0

TryCorrections(b) ==
  IF ~BothArrived(b) \/ (Noisy /\ b.done)
  THEN bob' = b /\ UNCHANGED <<group, running>>
  ELSE CASE Noisy -> NoisyCorrections(b)
         [] variant = "comms" -> CommsCorrections(b)
         [] variant = "viz" -> VizCorrections(b)

QubitArrives(e) ==
  /\ Takes(e, "qubit")
  /\ LET b == [bob EXCEPT !.qubitAt = now']
     IN  IF variant = "basic" THEN BasicCorrections(b) ELSE TryCorrections(b)
  /\ agenda' = agenda \ {e}
  /\ Fixed /\ UNCHANGED <<uid, measured, tcp>>

BitsArrive(e) ==
  /\ Takes(e, "bits")
  /\ TryCorrections([bob EXCEPT !.bitsAt = now', !.m1 = measured[1], !.m2 = measured[2]])
  /\ agenda' = agenda \ {e}
  /\ Fixed /\ UNCHANGED <<uid, measured, tcp>>

Mutant_TimeUp(e) ==
  /\ Takes(e, "stop")
  /\ agenda' = agenda \ {e}
  /\ Fixed /\ UNCHANGED <<uid, group, measured, tcp, bob, running>>
TimeUp(e) ==
  /\ Takes(e, "stop")
  /\ running' = FALSE
  /\ agenda' = agenda \ {e}
  /\ Fixed /\ UNCHANGED <<uid, group, measured, tcp, bob>>

Next ==
  \E e \in agenda :
    AliceStep(e) \/ OnTcpConnectSuccess(e) \/ QubitArrives(e) \/ BitsArrive(e) \/ TimeUp(e)

\* The simulator takes the next event until it is stopped.
Spec == Init /\ [][Next]_vars /\ WF_vars(Next)

-----------------------------------------------------------------------------
\* Bob's verdict is a success, or the memory noise has struck with a Pauli that
\* changes |+>: never with an ideal memory, never without a memory, and never when
\* the qubit was not held at all.
FailsOnlyByNoise ==
  bob.result # -1 =>
    /\ (bob.result = 0) = (bob.noise \in {"Y", "Z"})
    /\ bob.noise # "I" => Noisy /\ tDep > 0 /\ bob.bitsAt > bob.qubitAt

\* Bob corrects once and with the bits in hand: nothing touches his qubit's state
\* after his verdict, and no verdict comes before Alice has measured.
CorrectsOnce ==
  /\ bob.done => group' = group /\ bob'.result = bob.result
  /\ bob'.done /\ ~bob.done /\ variant # "basic" => bob'.bitsAt >= 0

\* The time the qubit spends in Bob's memory is that of the classical packet's
\* way beyond the qubit's: never negative, and without a connection to open it
\* does not depend on the distance.
HeldForTheBits ==
  bob.done /\ Noisy =>
    /\ bob.bitsAt >= bob.qubitAt
    /\ variant = "udp" => bob.bitsAt - bob.qubitAt = times.tx

\* A trial that ends without a result, which its statistics then carry as NaN,
\* was one whose bits could not come before the simulation's end.
UnfinishedOnlyWhenTooFar ==
  ~running /\ ~bob.done =>
    variant = "tcp" /\ 3 * (times.classical + times.tx) + times.tx >= times.stop

=============================================================================
