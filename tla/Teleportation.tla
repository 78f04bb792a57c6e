--------------------------- MODULE Teleportation ----------------------------
(***************************************************************************)
(* TeleportationApp (model/q2ns-teleportation-app.cc) as the sessions that *)
(* TeleportationHelper installs: one app on the source, one on the         *)
(* destination.  The teleported qubit is half of a pair with a reference,  *)
(* so its state is the frame of the pair (module BellFrames).              *)
(*                                                                         *)
(* The two apps of a session start at one time, before anything sent at    *)
(* that time arrives, so a start is one step.  The qubit and the control   *)
(* bits of every session travel on their own and arrive in any order.      *)
(***************************************************************************)
EXTENDS BellFrames, FiniteSets

CONSTANTS
  Session,    \* sessions of the TopologySpec
  Node,       \* names of the nodes
  Dest,       \* SessionSpec::dst
  Proto,      \* SessionSpec::protocol
  Reachable,  \* sessions whose source has a quantum route to dst
  MayDrop,    \* a classical packet or connection may fail
  SessionId,  \* SessionSpec::sessionId
  PortBase,   \* m_portBase
  None        \* no session

PortNumber == 0..65535

ASSUME TeleportAssumption ==
  /\ Dest \in [Session -> Node]
  /\ Proto \in [Session -> {"udp", "tcp"}]
  /\ Reachable \subseteq Session
  /\ MayDrop \in BOOLEAN
  /\ SessionId \in [Session -> Nat]
  /\ \A s, r \in Session : SessionId[s] = SessionId[r] => s = r
  /\ PortBase \in PortNumber
  /\ None \notin Session

VARIABLES
  started,      \* sessions whose apps have started
  callback,     \* the session that QNode::SetRecvCallback was last called for
  target,       \* where the session's far half of the Bell pair is
  frame,        \* frame of the pair of the reference and the far half
  ctrl,         \* where the session's control packet is
  bits,         \* m1 and m2 in the control packet
  haveQ,        \* m_haveQ of the session's sink
  haveCtrl,     \* m_haveCtrl of the session's sink
  corrections,  \* corrections the session's sink has made
  aborted       \* two PacketSinks of a node were bound to one port

vars == <<started, callback, target, frame, ctrl, bits, haveQ, haveCtrl,
          corrections, aborted>>

-----------------------------------------------------------------------------
\* A 16-bit port, never 0.
AllocatePort(id) ==
  LET p == (PortBase + (id % 10000)) % 65536
  IN  IF p = 0 THEN (PortBase + 1) % 65536 ELSE p

CtrlPort(s) == AllocatePort(SessionId[s])

\* The PacketSink of a session finds its port taken: ns-3 stops the program.
BindConflict(s) ==
  \E r \in started : Dest[r] = Dest[s] /\ Proto[r] = Proto[s] /\ CtrlPort(r) = CtrlPort(s)

Init ==
  /\ started = {}
  /\ callback = [n \in Node |-> None]
  /\ target = [s \in Session |-> "none"]
  /\ frame = [s \in Session |-> NoFrame]
  /\ ctrl = [s \in Session |-> "none"]
  /\ bits = [s \in Session |-> NoFrame]
  /\ haveQ = [s \in Session |-> FALSE]
  /\ haveCtrl = [s \in Session |-> FALSE]
  /\ corrections = [s \in Session |-> 0]
  /\ aborted = FALSE

\* DoSourceStart and DoSinkStart.
Start(s) ==
  /\ s \notin started
  /\ started' = started \cup {s}
  /\ \E m1, m2 \in Bit :
       /\ frame' = [frame EXCEPT ![s] = AfterMeasureBell(NoFrame, NoFrame, m1, m2)]
       /\ bits' = [bits EXCEPT ![s] = <<m1, m2>>]
  /\ target' = [target EXCEPT ![s] = IF s \in Reachable THEN "flight" ELSE "source"]
  /\ ctrl' = [ctrl EXCEPT ![s] = IF Proto[s] = "udp" THEN "flight" ELSE "connecting"]
  /\ callback' = [callback EXCEPT ![Dest[s]] = s]
  /\ aborted' = BindConflict(s)
  /\ UNCHANGED <<haveQ, haveCtrl, corrections>>

\* TCP: the packet waits for the connection.
OnTcpConnectSuccess(s) ==
  /\ ctrl[s] = "connecting"
  /\ ctrl' = [ctrl EXCEPT ![s] = "flight"]
  /\ UNCHANGED <<started, callback, target, frame, bits, haveQ, haveCtrl, corrections, aborted>>

\* The connection failed, at once or later; or a UDP packet was dropped.
LoseCtrl(s) ==
  /\ MayDrop
  /\ \/ ctrl[s] = "connecting"
     \/ ctrl[s] = "flight" /\ Proto[s] = "udp"
  /\ ctrl' = [ctrl EXCEPT ![s] = "lost"]
  /\ UNCHANGED <<started, callback, target, frame, bits, haveQ, haveCtrl, corrections, aborted>>

\* TryApplyCorrection of session s after the other primed variables are set:
\* the far half is looked up by its label among the qubits of the node.
Mutant_CorrectSwapped(s) ==
  IF haveCtrl'[s] /\ haveQ'[s] /\ target'[s] = "sink"
  THEN /\ frame' = [frame EXCEPT ![s] = XorFrame(@, bits[s])]
       /\ corrections' = [corrections EXCEPT ![s] = @ + 1]
  ELSE UNCHANGED <<frame, corrections>>
TryApplyCorrection(s) ==
  IF haveCtrl'[s] /\ haveQ'[s] /\ target'[s] = "sink"
  THEN /\ frame' = [frame EXCEPT ![s] =
                      LET corrected == IF bits[s][2] = 1 THEN AfterX(@) ELSE @
                      IN  IF bits[s][1] = 1 THEN AfterZ(corrected) ELSE corrected]
       /\ corrections' = [corrections EXCEPT ![s] = @ + 1]
  ELSE UNCHANGED <<frame, corrections>>

\* The node's one callback belongs to the sink that started last.
Mutant_ArrivalOnlyNoted(s) ==
  /\ target[s] = "flight"
  /\ target' = [target EXCEPT ![s] = "sink"]
  /\ haveQ' = [haveQ EXCEPT ![callback[Dest[s]]] = TRUE]
  /\ UNCHANGED <<started, callback, ctrl, bits, haveCtrl, frame, corrections, aborted>>
QubitArrivalHandler(s) ==
  /\ target[s] = "flight"
  /\ target' = [target EXCEPT ![s] = "sink"]
  /\ haveQ' = [haveQ EXCEPT ![callback[Dest[s]]] = TRUE]
  /\ UNCHANGED <<started, callback, ctrl, bits, haveCtrl, aborted>>
  /\ TryApplyCorrection(callback[Dest[s]])

Mutant_CtrlReceivedAgain(s) ==
  /\ ctrl[s] = "flight"
  /\ haveCtrl' = [haveCtrl EXCEPT ![s] = TRUE]
  /\ UNCHANGED <<started, callback, target, ctrl, bits, haveQ, aborted>>
  /\ TryApplyCorrection(s)
OnCtrlRx(s) ==
  /\ ctrl[s] = "flight"
  /\ ctrl' = [ctrl EXCEPT ![s] = "arrived"]
  /\ haveCtrl' = [haveCtrl EXCEPT ![s] = TRUE]
  /\ UNCHANGED <<started, callback, target, bits, haveQ, aborted>>
  /\ TryApplyCorrection(s)

Step(s) ==
  \/ Start(s)
  \/ OnTcpConnectSuccess(s)
  \/ LoseCtrl(s)
  \/ QubitArrivalHandler(s)
  \/ OnCtrlRx(s)

Next == ~aborted /\ \E s \in Session : Step(s)

Spec == Init /\ [][Next]_vars

\* The simulator runs every event it was given: starts, arrivals, connections.
FairSpec ==
  /\ Spec
  /\ \A s \in Session :
       /\ WF_vars(~aborted /\ Start(s))
       /\ WF_vars(~aborted /\ OnTcpConnectSuccess(s))
       /\ WF_vars(~aborted /\ QubitArrivalHandler(s))
       /\ WF_vars(~aborted /\ OnCtrlRx(s))

-----------------------------------------------------------------------------
TypeOK ==
  /\ started \subseteq Session
  /\ callback \in [Node -> Session \cup {None}]
  /\ target \in [Session -> {"none", "source", "flight", "sink"}]
  /\ frame \in [Session -> Frame]
  /\ ctrl \in [Session -> {"none", "connecting", "flight", "arrived", "lost"}]
  /\ bits \in [Session -> Frame]
  /\ haveQ \in [Session -> BOOLEAN]
  /\ haveCtrl \in [Session -> BOOLEAN]
  /\ corrections \in [Session -> Nat]
  /\ aborted \in BOOLEAN

(* A sink corrects its session's own qubit, and only once it has both the  *)
(* qubit and the bits, in whatever order they and the qubits and bits of   *)
(* other sessions arrive (model/q2ns-teleportation-app.cc:338).            *)
CorrectionNeedsBoth ==
  \A s \in Session : corrections[s] > 0 => target[s] = "sink" /\ ctrl[s] = "arrived"

(* An even number of corrections leaves the byproduct of the Bell          *)
(* measurement on the qubit, an odd number has undone it: a second arrival *)
(* at a sink undoes what the first repaired                                *)
(* (model/q2ns-teleportation-app.cc:344).                                  *)
ParityDecidesFrame ==
  \A s \in Session :
    frame[s] = IF corrections[s] % 2 = 1 THEN NoFrame ELSE <<bits[s][2], bits[s][1]>>

\* A session with a destination of its own.  The sinks of one node share its
\* one receive callback, and an arrival is noted by the sink that has it.
Alone(s) == \A r \in Session : Dest[r] = Dest[s] => r = s

(* The qubit a session hands over is at its destination in the state it    *)
(* had at the source as soon as qubit and bits are there, corrected        *)
(* exactly once, if no other session has that destination: whatever        *)
(* sessions with a destination in common do to each other does not reach   *)
(* it (model/q2ns-teleportation-app.cc:227).                               *)
TeleportedIntact ==
  \A s \in Session :
    Alone(s) /\ target[s] = "sink" /\ ctrl[s] = "arrived" =>
      frame[s] = NoFrame /\ corrections[s] = 1

(* Whatever sessions share a destination: each corrects only with qubit    *)
(* and bits in hand, each correction does to the qubit what it says, and a *)
(* session that shares nothing is repaired exactly once                    *)
(* (model/q2ns-teleportation-app.cc:338).                                  *)
SessionsSafe == TypeOK /\ CorrectionNeedsBoth /\ ParityDecidesFrame /\ TeleportedIntact

(* A session with a destination of its own ends with its qubit repaired,   *)
(* unless its control packet is lost (model/q2ns-teleportation-app.cc:338):*)
(* the ports allocated for the sessions of one destination are different,  *)
(* so that no sink finds its port taken and stops the program              *)
(* (helper/q2ns-teleportation-helper.cc:106).                              *)
EveryoneCorrected ==
  \A s \in Reachable : Alone(s) =>
    <>[](ctrl[s] = "lost" \/ (corrections[s] = 1 /\ frame[s] = NoFrame))

(* What such a session promises (TeleportationApp and the abstract module  *)
(* SessionService, model/q2ns-teleportation-app.cc:344).                   *)
Service == INSTANCE SessionService WITH
  Session <- {s \in Session : Alone(s)},
  begun <- {s \in started : Alone(s)},
  done <- {s \in Session : Alone(s) /\ corrections[s] % 2 = 1}
ServiceSpec == Service!Spec

=============================================================================
