------------------------ MODULE TeleportationProofs ------------------------
(***************************************************************************)
(* What holds of teleportation sessions for every set of sessions, nodes,  *)
(* protocols and ports, packets lost or not.                               *)
(*                                                                         *)
(* TeleportInv is inductive for any destinations, shared ones too: it adds *)
(* that a session which has not started has left no trace, that a node's   *)
(* callback belongs to a started session, and that the bits a sink has are *)
(* its own.  OwnInv adds what holds of the sessions whose destination is   *)
(* their own: the callback of the destination is the session's, and the    *)
(* sink knows of the qubit exactly when it is there.                       *)
(*                                                                         *)
(* The second half is about the example programs, for every delay: what is *)
(* pending, and when it is due, decides the order in which things come to  *)
(* pass (ProgramInv for those that teleport, GraphInv for the one that     *)
(* prepares a cluster state); StepsInOrderAlways and OnTimeAlways follow.  *)
(***************************************************************************)
EXTENDS Teleportation, Examples, TLAPS

Untouched ==
  \A s \in Session \ started :
    /\ target[s] = "none" /\ ctrl[s] = "none" /\ corrections[s] = 0
    /\ ~haveQ[s] /\ ~haveCtrl[s]

CallbackStarted ==
  /\ \A n \in Node : callback[n] = None \/ (callback[n] \in started /\ Dest[callback[n]] = n)
  /\ \A s \in started : callback[Dest[s]] \in started

OwnBits == \A s \in Session : haveCtrl[s] => ctrl[s] = "arrived"

TeleportInv ==
  /\ TypeOK
  /\ Untouched
  /\ CallbackStarted
  /\ OwnBits
  /\ CorrectionNeedsBoth
  /\ ParityDecidesFrame

OwnOf(s) ==
  /\ s \in started => callback[Dest[s]] = s
  /\ haveQ[s] <=> target[s] = "sink"
  /\ haveCtrl[s] <=> ctrl[s] = "arrived"
  /\ corrections[s] = IF haveQ[s] /\ haveCtrl[s] THEN 1 ELSE 0

OwnInv == TeleportInv /\ \A s \in Session : Alone(s) => OwnOf(s)

-----------------------------------------------------------------------------
(* A correction by the bits is the byproduct of the Bell measurement, and  *)
(* applying it twice is applying nothing.                                  *)
LEMMA CorrectionUndoes ==
  ASSUME NEW f \in Frame, NEW b \in Frame,
         NEW c, c = IF b[1] = 1 THEN AfterZ(IF b[2] = 1 THEN AfterX(f) ELSE f)
                    ELSE IF b[2] = 1 THEN AfterX(f) ELSE f
  PROVE  /\ c \in Frame
         /\ f = <<b[2], b[1]>> => c = NoFrame
         /\ f = NoFrame => c = <<b[2], b[1]>>
<1>1. PICK f1 \in Bit, f2 \in Bit : f = <<f1, f2>>
  BY DEF Frame
<1>2. PICK b1 \in Bit, b2 \in Bit : b = <<b1, b2>>
  BY DEF Frame
<1>3. f1 \in {0, 1} /\ f2 \in {0, 1} /\ b1 \in {0, 1} /\ b2 \in {0, 1}
  BY DEF Bit
<1> QED
  BY <1>1, <1>2, <1>3 DEF AfterX, AfterZ, XorFrame, XorBit, NoFrame, Frame, Bit

LEMMA ParityFlips ==
  ASSUME NEW n \in Nat PROVE (n + 1) % 2 = 1 <=> n % 2 # 1
  OBVIOUS

(* What TryApplyCorrection does to the session it is called for, and that  *)
(* it does nothing to another.                                             *)
LEMMA CorrectionStep ==
  ASSUME TypeOK, ParityDecidesFrame, NEW r \in Session, TryApplyCorrection(r), bits' = bits
  PROVE  /\ frame' \in [Session -> Frame] /\ corrections' \in [Session -> Nat]
         /\ ParityDecidesFrame'
         /\ \A s \in Session \ {r} : corrections'[s] = corrections[s]
         /\ corrections'[r] = IF haveCtrl'[r] /\ haveQ'[r] /\ target'[r] = "sink"
                              THEN corrections[r] + 1 ELSE corrections[r]
<1>1. CASE ~(haveCtrl'[r] /\ haveQ'[r] /\ target'[r] = "sink")
  BY <1>1 DEF TryApplyCorrection, TypeOK, ParityDecidesFrame
<1>2. CASE haveCtrl'[r] /\ haveQ'[r] /\ target'[r] = "sink"
  <2> DEFINE f == frame[r]
             b == bits[r]
             c == IF b[1] = 1 THEN AfterZ(IF b[2] = 1 THEN AfterX(f) ELSE f)
                  ELSE IF b[2] = 1 THEN AfterX(f) ELSE f
  <2>1. f \in Frame /\ b \in Frame
    BY DEF TypeOK
  <2>2. c \in Frame /\ (f = <<b[2], b[1]>> => c = NoFrame) /\ (f = NoFrame => c = <<b[2], b[1]>>)
    <3> HIDE DEF f, b
    <3> QED
      BY <2>1, CorrectionUndoes
  <2>3. frame' = [frame EXCEPT ![r] = c]
    BY <1>2 DEF TryApplyCorrection
  <2>4. corrections' = [corrections EXCEPT ![r] = @ + 1]
    BY <1>2 DEF TryApplyCorrection
  <2>5. f = IF corrections[r] % 2 = 1 THEN NoFrame ELSE <<b[2], b[1]>>
    BY DEF ParityDecidesFrame
  <2>6. (corrections[r] + 1) % 2 = 1 <=> corrections[r] % 2 # 1
    BY ParityFlips DEF TypeOK
  <2>7. c = IF (corrections[r] + 1) % 2 = 1 THEN NoFrame ELSE <<b[2], b[1]>>
    BY <2>2, <2>5, <2>6
  <2> HIDE DEF c
  <2>8. frame' \in [Session -> Frame] /\ corrections' \in [Session -> Nat]
    BY <2>2, <2>3, <2>4 DEF TypeOK
  <2>9. frame'[r] = c /\ corrections'[r] = corrections[r] + 1
    BY <2>3, <2>4 DEF TypeOK
  <2>10. \A s \in Session \ {r} : frame'[s] = frame[s] /\ corrections'[s] = corrections[s]
    BY <2>3, <2>4 DEF TypeOK
  <2>11. ParityDecidesFrame'
    BY <2>7, <2>9, <2>10 DEF ParityDecidesFrame
  <2> QED
    BY <1>2, <2>8, <2>9, <2>10, <2>11
<1> QED
  BY <1>1, <1>2

-----------------------------------------------------------------------------
LEMMA InitTeleport ==
  ASSUME Init PROVE TeleportInv
<1>1. TypeOK
  BY DEF Init, TypeOK, NoFrame, Frame, Bit
<1>2. Untouched /\ CallbackStarted /\ OwnBits /\ CorrectionNeedsBoth
  BY DEF Init, Untouched, CallbackStarted, OwnBits, CorrectionNeedsBoth
<1>3. ParityDecidesFrame
  BY DEF Init, ParityDecidesFrame, NoFrame
<1> QED
  BY <1>1, <1>2, <1>3 DEF TeleportInv

LEMMA StartStep ==
  ASSUME TeleportInv, NEW s \in Session, Start(s) PROVE TeleportInv'
<1>1. PICK m1 \in Bit, m2 \in Bit :
        /\ frame' = [frame EXCEPT ![s] = AfterMeasureBell(NoFrame, NoFrame, m1, m2)]
        /\ bits' = [bits EXCEPT ![s] = <<m1, m2>>]
  BY DEF Start
<1>2. AfterMeasureBell(NoFrame, NoFrame, m1, m2) = <<m2, m1>>
  <2>1. m1 \in {0, 1} /\ m2 \in {0, 1}
    BY DEF Bit
  <2> QED
    BY <2>1 DEF AfterMeasureBell, XorFrame, XorBit, NoFrame
<1>3. <<m1, m2>> \in Frame /\ <<m2, m1>> \in Frame
  BY DEF Frame
<1>4. Dest[s] \in Node
  BY TeleportAssumption
<1>5. s \notin started /\ corrections[s] = 0 /\ ~haveCtrl[s] /\ ~haveQ[s]
  BY DEF Start, TeleportInv, Untouched
<1>6. TypeOK'
  BY <1>1, <1>2, <1>3, <1>4 DEF Start, TeleportInv, TypeOK, BindConflict
<1>7. Untouched'
  BY DEF Start, TeleportInv, TypeOK, Untouched
<1>8. CallbackStarted'
  <2>1. /\ started' = started \cup {s}
        /\ callback' = [callback EXCEPT ![Dest[s]] = s]
        /\ callback \in [Node -> Session \cup {None}]
        /\ started \subseteq Session
    BY DEF Start, TeleportInv, TypeOK
  <2>2. \A n \in Node : callback'[n] = IF n = Dest[s] THEN s ELSE callback[n]
    BY <1>4, <2>1
  <2>3. \A n \in Node :
          callback'[n] = None \/ (callback'[n] \in started' /\ Dest[callback'[n]] = n)
    BY <2>1, <2>2 DEF TeleportInv, CallbackStarted
  <2>4. \A r \in started' : Dest[r] \in Node
    BY <2>1, TeleportAssumption
  <2>5. ASSUME NEW r \in started' PROVE callback'[Dest[r]] \in started'
    <3>1. CASE Dest[r] = Dest[s]
      BY <1>4, <2>1, <2>2, <3>1
    <3>2. CASE Dest[r] # Dest[s]
      BY <2>1, <2>2, <2>4, <3>2 DEF TeleportInv, CallbackStarted
    <3> QED
      BY <3>1, <3>2
  <2> QED
    BY <2>3, <2>5 DEF CallbackStarted
<1>9. OwnBits' /\ CorrectionNeedsBoth'
  BY <1>5 DEF Start, TeleportInv, TypeOK, OwnBits, CorrectionNeedsBoth
<1>10. ParityDecidesFrame'
  <2>1. frame'[s] = <<m2, m1>> /\ bits'[s] = <<m1, m2>> /\ corrections'[s] = 0
    BY <1>1, <1>2, <1>5 DEF Start, TeleportInv, TypeOK
  <2>2. \A r \in Session \ {s} :
          frame'[r] = frame[r] /\ bits'[r] = bits[r] /\ corrections'[r] = corrections[r]
    BY <1>1 DEF Start, TeleportInv, TypeOK
  <2> QED
    BY <2>1, <2>2 DEF TeleportInv, ParityDecidesFrame
<1> QED
  BY <1>6, <1>7, <1>8, <1>9, <1>10 DEF TeleportInv

(* A session whose qubit or control packet is under way has started.       *)
LEMMA UnderWayStarted ==
  ASSUME TeleportInv, NEW s \in Session, target[s] = "flight" \/ ctrl[s] \in {"connecting", "flight"}
  PROVE  s \in started /\ callback[Dest[s]] \in Session
  BY DEF TeleportInv, TypeOK, Untouched, CallbackStarted

LEMMA ConnectOrLoseStep ==
  ASSUME TeleportInv, NEW s \in Session, OnTcpConnectSuccess(s) \/ LoseCtrl(s)
  PROVE  TeleportInv'
<1>1. /\ s \in started /\ ctrl[s] \in {"connecting", "flight"}
      /\ ctrl' \in {[ctrl EXCEPT ![s] = "flight"], [ctrl EXCEPT ![s] = "lost"]}
      /\ UNCHANGED <<started, callback, target, frame, bits, haveQ, haveCtrl, corrections, aborted>>
  BY UnderWayStarted DEF OnTcpConnectSuccess, LoseCtrl
<1>2. TypeOK' /\ Untouched' /\ CallbackStarted' /\ OwnBits' /\ CorrectionNeedsBoth'
  BY <1>1 DEF TeleportInv, TypeOK, Untouched, CallbackStarted, OwnBits, CorrectionNeedsBoth
<1>3. ParityDecidesFrame'
  BY <1>1 DEF TeleportInv, ParityDecidesFrame
<1> QED
  BY <1>2, <1>3 DEF TeleportInv

LEMMA ArrivalStep ==
  ASSUME TeleportInv, NEW s \in Session, QubitArrivalHandler(s) PROVE TeleportInv'
<1> DEFINE r == callback[Dest[s]]
<1>1. s \in started /\ r \in Session /\ r \in started
  BY UnderWayStarted DEF QubitArrivalHandler, TeleportInv, CallbackStarted
<1>2. /\ target' = [target EXCEPT ![s] = "sink"] /\ haveQ' = [haveQ EXCEPT ![r] = TRUE]
      /\ UNCHANGED <<started, callback, ctrl, bits, haveCtrl, aborted>>
      /\ TryApplyCorrection(r)
  BY DEF QubitArrivalHandler
<1> HIDE DEF r
<1>3. /\ frame' \in [Session -> Frame] /\ corrections' \in [Session -> Nat]
      /\ ParityDecidesFrame'
      /\ \A t \in Session \ {r} : corrections'[t] = corrections[t]
      /\ corrections'[r] = IF haveCtrl'[r] /\ haveQ'[r] /\ target'[r] = "sink"
                           THEN corrections[r] + 1 ELSE corrections[r]
  BY <1>1, <1>2, CorrectionStep DEF TeleportInv
<1>4. TypeOK'
  BY <1>1, <1>2, <1>3 DEF TeleportInv, TypeOK
<1>5. Untouched' /\ CallbackStarted' /\ OwnBits'
  BY <1>1, <1>2, <1>3 DEF TeleportInv, TypeOK, Untouched, CallbackStarted, OwnBits
<1>6. CorrectionNeedsBoth'
  BY <1>1, <1>2, <1>3 DEF TeleportInv, TypeOK, OwnBits, CorrectionNeedsBoth
<1> QED
  BY <1>3, <1>4, <1>5, <1>6 DEF TeleportInv

LEMMA CtrlStep ==
  ASSUME TeleportInv, NEW s \in Session, OnCtrlRx(s) PROVE TeleportInv'
<1>1. s \in started
  BY UnderWayStarted DEF OnCtrlRx
<1>2. /\ ctrl' = [ctrl EXCEPT ![s] = "arrived"] /\ haveCtrl' = [haveCtrl EXCEPT ![s] = TRUE]
      /\ UNCHANGED <<started, callback, target, bits, haveQ, aborted>>
      /\ TryApplyCorrection(s)
  BY DEF OnCtrlRx
<1>3. /\ frame' \in [Session -> Frame] /\ corrections' \in [Session -> Nat]
      /\ ParityDecidesFrame'
      /\ \A t \in Session \ {s} : corrections'[t] = corrections[t]
      /\ corrections'[s] = IF haveCtrl'[s] /\ haveQ'[s] /\ target'[s] = "sink"
                           THEN corrections[s] + 1 ELSE corrections[s]
  BY <1>2, CorrectionStep DEF TeleportInv
<1>4. TypeOK'
  BY <1>2, <1>3 DEF TeleportInv, TypeOK
<1>5. Untouched' /\ CallbackStarted' /\ OwnBits'
  BY <1>1, <1>2, <1>3 DEF TeleportInv, TypeOK, Untouched, CallbackStarted, OwnBits
<1>6. CorrectionNeedsBoth'
  BY <1>2, <1>3 DEF TeleportInv, TypeOK, CorrectionNeedsBoth
<1> QED
  BY <1>3, <1>4, <1>5, <1>6 DEF TeleportInv

LEMMA TeleportStep ==
  ASSUME TeleportInv, [Next]_vars PROVE TeleportInv'
<1>1. CASE UNCHANGED vars
  BY <1>1 DEF vars, TeleportInv, TypeOK, Untouched, CallbackStarted, OwnBits,
              CorrectionNeedsBoth, ParityDecidesFrame
<1> QED
  BY <1>1, StartStep, ConnectOrLoseStep, ArrivalStep, CtrlStep DEF Next, Step

(* The states of every run, whatever the destinations.                     *)
THEOREM TeleportInvariant == Spec => []TeleportInv
  BY InitTeleport, TeleportStep, PTL DEF Spec

(* Every variable keeps its type.                                          *)
THEOREM TypeOKAlways == Spec => []TypeOK
<1>1. TeleportInv => TypeOK
  BY DEF TeleportInv
<1> QED
  BY <1>1, TeleportInvariant, PTL

(* A sink never corrects before it has both the qubit and its own bits.    *)
THEOREM CorrectionNeedsBothAlways == Spec => []CorrectionNeedsBoth
<1>1. TeleportInv => CorrectionNeedsBoth
  BY DEF TeleportInv
<1> QED
  BY <1>1, TeleportInvariant, PTL

(* Whether the qubit is as it was depends on the parity of the corrections. *)
THEOREM ParityDecidesFrameAlways == Spec => []ParityDecidesFrame
<1>1. TeleportInv => ParityDecidesFrame
  BY DEF TeleportInv
<1> QED
  BY <1>1, TeleportInvariant, PTL

-----------------------------------------------------------------------------
(* Sessions with destinations of their own. *)

LEMMA InitOwn ==
  ASSUME Init PROVE OwnInv
  BY InitTeleport DEF OwnInv, OwnOf, Init

\* What happens at one session does not reach another with its own destination.
LEMMA OthersKept ==
  ASSUME OwnInv, NEW a \in Session, Alone(a), NEW s \in Session \ {a}, Step(s)
  PROVE  /\ a \in started' <=> a \in started
         /\ callback'[Dest[a]] = callback[Dest[a]]
         /\ target'[a] = target[a] /\ ctrl'[a] = ctrl[a]
         /\ haveQ'[a] = haveQ[a] /\ haveCtrl'[a] = haveCtrl[a]
         /\ corrections'[a] = corrections[a]
<1> USE DEF OwnInv
<1>1. Dest[s] # Dest[a] /\ Dest[s] \in Node /\ Dest[a] \in Node
  BY TeleportAssumption DEF Alone
<1>2. CASE Start(s)
  BY <1>1, <1>2 DEF Start, TeleportInv, TypeOK
<1>3. CASE OnTcpConnectSuccess(s) \/ LoseCtrl(s)
  BY <1>3 DEF OnTcpConnectSuccess, LoseCtrl, TeleportInv, TypeOK
<1>4. CASE QubitArrivalHandler(s)
  <2> DEFINE r == callback[Dest[s]]
  <2>1. s \in started /\ r \in Session
    BY <1>4, UnderWayStarted DEF QubitArrivalHandler
  <2>2. r # a
    <3>1. r # None
      BY <2>1, TeleportAssumption
    <3>2. Dest[r] = Dest[s]
      BY <1>1, <3>1 DEF TeleportInv, CallbackStarted
    <3> QED
      BY <1>1, <3>2
  <2>3. /\ target' = [target EXCEPT ![s] = "sink"] /\ haveQ' = [haveQ EXCEPT ![r] = TRUE]
        /\ UNCHANGED <<started, callback, ctrl, bits, haveCtrl>>
        /\ TryApplyCorrection(r)
    BY <1>4 DEF QubitArrivalHandler
  <2> HIDE DEF r
  <2>4. \A t \in Session \ {r} : corrections'[t] = corrections[t]
    BY <2>1, <2>3, CorrectionStep DEF TeleportInv
  <2> QED
    BY <2>1, <2>2, <2>3, <2>4 DEF TeleportInv, TypeOK
<1>5. CASE OnCtrlRx(s)
  <2>1. /\ ctrl' = [ctrl EXCEPT ![s] = "arrived"] /\ haveCtrl' = [haveCtrl EXCEPT ![s] = TRUE]
        /\ UNCHANGED <<started, callback, target, bits, haveQ>>
        /\ TryApplyCorrection(s)
    BY <1>5 DEF OnCtrlRx
  <2>2. \A t \in Session \ {s} : corrections'[t] = corrections[t]
    BY <2>1, CorrectionStep DEF TeleportInv
  <2> QED
    BY <2>1, <2>2 DEF TeleportInv, TypeOK
<1> QED
  BY <1>2, <1>3, <1>4, <1>5 DEF Step

LEMMA OwnKept ==
  ASSUME OwnInv, TeleportInv', NEW a \in Session, Alone(a), Step(a)
  PROVE  OwnOf(a)'
<1>1. TeleportInv /\ OwnOf(a) /\ Dest[a] \in Node
  BY TeleportAssumption DEF OwnInv
<1>2. CASE Start(a)
  <2>1. a \notin started /\ ~haveQ[a] /\ ~haveCtrl[a] /\ corrections[a] = 0
    BY <1>1, <1>2 DEF Start, TeleportInv, Untouched
  <2>2. target'[a] # "sink" /\ ctrl'[a] # "arrived" /\ callback'[Dest[a]] = a
    BY <1>1, <1>2 DEF Start, TeleportInv, TypeOK
  <2> QED
    BY <1>2, <2>1, <2>2 DEF Start, OwnOf
<1>3. CASE OnTcpConnectSuccess(a) \/ LoseCtrl(a)
  BY <1>1, <1>3 DEF OnTcpConnectSuccess, LoseCtrl, OwnOf, TeleportInv, TypeOK
<1>4. CASE QubitArrivalHandler(a)
  <2>1. a \in started /\ callback[Dest[a]] = a /\ target[a] = "flight"
    BY <1>1, <1>4, UnderWayStarted DEF QubitArrivalHandler, OwnOf
  <2>2. /\ target' = [target EXCEPT ![a] = "sink"] /\ haveQ' = [haveQ EXCEPT ![a] = TRUE]
        /\ UNCHANGED <<started, callback, ctrl, bits, haveCtrl>>
        /\ TryApplyCorrection(a)
    BY <1>4, <2>1 DEF QubitArrivalHandler
  <2>3. corrections'[a] = IF haveCtrl'[a] /\ haveQ'[a] /\ target'[a] = "sink"
                          THEN corrections[a] + 1 ELSE corrections[a]
    BY <1>1, <2>2, CorrectionStep DEF TeleportInv
  <2>4. corrections[a] = 0 /\ haveQ'[a] /\ target'[a] = "sink" /\ haveCtrl'[a] = haveCtrl[a]
    BY <1>1, <2>1, <2>2 DEF OwnOf, TeleportInv, TypeOK
  <2> QED
    BY <1>1, <2>1, <2>2, <2>3, <2>4 DEF OwnOf
<1>5. CASE OnCtrlRx(a)
  <2>1. /\ ctrl' = [ctrl EXCEPT ![a] = "arrived"] /\ haveCtrl' = [haveCtrl EXCEPT ![a] = TRUE]
        /\ UNCHANGED <<started, callback, target, bits, haveQ>>
        /\ TryApplyCorrection(a)
    BY <1>5 DEF OnCtrlRx
  <2>2. corrections'[a] = IF haveCtrl'[a] /\ haveQ'[a] /\ target'[a] = "sink"
                          THEN corrections[a] + 1 ELSE corrections[a]
    BY <1>1, <2>1, CorrectionStep DEF TeleportInv
  <2>3. corrections[a] = 0 /\ haveCtrl'[a] /\ ctrl'[a] = "arrived"
    BY <1>1, <1>5, <2>1 DEF OnCtrlRx, OwnOf, TeleportInv, TypeOK
  <2>4. haveQ'[a] <=> target'[a] = "sink"
    BY <1>1, <2>1 DEF OwnOf
  <2> QED
    BY <1>1, <2>1, <2>2, <2>3, <2>4 DEF OwnOf
<1> QED
  BY <1>2, <1>3, <1>4, <1>5 DEF Step

LEMMA OwnStep ==
  ASSUME OwnInv, [Next]_vars PROVE OwnInv'
<1>1. TeleportInv /\ TeleportInv'
  BY TeleportStep DEF OwnInv
<1>2. ASSUME NEW a \in Session, Alone(a), NEW s \in Session, Step(s) PROVE OwnOf(a)'
  <2>1. CASE s = a
    BY <1>1, <1>2, <2>1, OwnKept
  <2>2. CASE s # a
    BY <1>2, <2>2, OthersKept DEF OwnInv, OwnOf
  <2> QED
    BY <2>1, <2>2
<1>3. ASSUME UNCHANGED vars, NEW a \in Session, Alone(a) PROVE OwnOf(a)'
  BY <1>3 DEF vars, OwnInv, OwnOf
<1>4. \A a \in Session : Alone(a)' <=> Alone(a)
  BY DEF Alone
<1> QED
  BY <1>1, <1>2, <1>3, <1>4 DEF OwnInv, Next

(* A session with a destination of its own hands its qubit over in the     *)
(* state it had, corrected exactly once, as soon as qubit and bits are in, *)
(* whatever sessions with a destination in common do.                      *)
THEOREM TeleportedIntactAlways == Spec => []TeleportedIntact
<1>1. Init => OwnInv
  BY InitOwn
<1>2. OwnInv /\ [Next]_vars => OwnInv'
  BY OwnStep
<1>3. OwnInv => TeleportedIntact
  <2> SUFFICES ASSUME OwnInv, NEW s \in Session, Alone(s),
                      target[s] = "sink", ctrl[s] = "arrived"
               PROVE  frame[s] = NoFrame /\ corrections[s] = 1
    BY DEF TeleportedIntact
  <2>1. corrections[s] = 1
    BY DEF OwnInv, OwnOf
  <2>2. frame[s] = IF corrections[s] % 2 = 1 THEN NoFrame ELSE <<bits[s][2], bits[s][1]>>
    BY DEF OwnInv, TeleportInv, ParityDecidesFrame
  <2>3. 1 % 2 = 1
    OBVIOUS
  <2> QED
    BY <2>1, <2>2, <2>3
<1> QED
  BY <1>1, <1>2, <1>3, PTL DEF Spec

(* The safety of sessions as a whole (model/q2ns-teleportation-app.cc:338):*)
(* whichever of qubit and bits comes first, at every sink of every         *)
(* topology, the correction waits for both and repairs what it should.     *)
THEOREM SessionsSafeAlways == Spec => []SessionsSafe
<1>1. TypeOK /\ CorrectionNeedsBoth /\ ParityDecidesFrame /\ TeleportedIntact => SessionsSafe
  BY DEF SessionsSafe
<1> QED
  BY <1>1, TypeOKAlways, CorrectionNeedsBothAlways,
     ParityDecidesFrameAlways, TeleportedIntactAlways, PTL

-----------------------------------------------------------------------------
(* Sessions with destinations of their own implement SessionService.       *)

LEMMA CountsOnce ==
  ASSUME OwnInv
  PROVE  {s \in Session : Alone(s) /\ corrections[s] % 2 = 1}
           = {s \in Session : Alone(s) /\ corrections[s] = 1}
<1>1. \A s \in Session : Alone(s) => corrections[s] \in {0, 1}
  BY DEF OwnInv, OwnOf
<1>2. 0 % 2 = 0 /\ 1 % 2 = 1
  OBVIOUS
<1> QED
  BY <1>1, <1>2

LEMMA CountsOnceNext ==
  ASSUME OwnInv'
  PROVE  {s \in Session : Alone(s) /\ corrections'[s] % 2 = 1}
           = {s \in Session : Alone(s) /\ corrections'[s] = 1}
<1>1. \A s \in Session : Alone(s) => corrections'[s] \in {0, 1}
  BY DEF OwnInv, OwnOf, Alone
<1>2. 0 % 2 = 0 /\ 1 % 2 = 1
  OBVIOUS
<1> QED
  BY <1>1, <1>2

(* A step of a session begins it, completes it, or leaves it as it is.     *)
LEMMA SessionStep ==
  ASSUME OwnInv, OwnInv', NEW s \in Session, Alone(s), Step(s)
  PROVE  \/ started' = started \cup {s} /\ corrections'[s] = corrections[s]
         \/ /\ s \in started /\ started' = started
            /\ \/ corrections'[s] = corrections[s]
               \/ corrections[s] = 0 /\ corrections'[s] = 1
<1>1. TeleportInv /\ corrections[s] \in {0, 1} /\ corrections'[s] \in {0, 1}
  BY DEF OwnInv, OwnOf, Alone
<1>2. CASE Start(s) \/ OnTcpConnectSuccess(s) \/ LoseCtrl(s)
  BY <1>1, <1>2, UnderWayStarted DEF Start, OnTcpConnectSuccess, LoseCtrl
<1>3. CASE QubitArrivalHandler(s) \/ OnCtrlRx(s)
  <2>1. s \in started /\ started' = started /\ bits' = bits
    BY <1>1, <1>3 DEF QubitArrivalHandler, OnCtrlRx, TeleportInv, Untouched
  <2>2. callback[Dest[s]] = s
    BY <2>1 DEF OwnInv, OwnOf
  <2>3. TryApplyCorrection(s)
    BY <1>3, <2>2 DEF QubitArrivalHandler, OnCtrlRx
  <2>4. corrections'[s] \in {corrections[s], corrections[s] + 1}
    BY <1>1, <2>1, <2>3, CorrectionStep DEF TeleportInv
  <2> QED
    BY <1>1, <2>1, <2>4
<1> QED
  BY <1>2, <1>3 DEF Step

LEMMA ServiceStep ==
  ASSUME OwnInv, OwnInv', [Next]_vars
  PROVE  [Service!Next]_(Service!serviceVars)
<1> DEFINE A == {s \in Session : Alone(s)}
           B == {s \in started : Alone(s)}
           D == {s \in Session : Alone(s) /\ corrections[s] % 2 = 1}
<1>1. D = {s \in Session : Alone(s) /\ corrections[s] = 1}
  BY CountsOnce
<1>2. D' = {s \in Session : Alone(s) /\ corrections'[s] = 1}
  BY CountsOnceNext DEF Alone
<1>3. B' = {s \in started' : Alone(s)}
  BY DEF Alone
<1>4. ASSUME NEW s \in Session, Step(s), Alone(s)
      PROVE  (\E t \in A : Service!Begin(t) \/ Service!Complete(t)) \/ UNCHANGED Service!serviceVars
  <2>1. \A t \in Session \ {s} : Alone(t) => corrections'[t] = corrections[t]
    BY <1>4, OthersKept
  <2>2. CASE started' = started \cup {s} /\ corrections'[s] = corrections[s]
    <3>1. B' = B \cup {s} /\ D' = D
      BY <1>1, <1>2, <1>3, <1>4, <2>1, <2>2
    <3> QED
      BY <1>4, <3>1 DEF Service!Begin
  <2>3. CASE s \in started /\ started' = started /\ corrections'[s] = corrections[s]
    <3>1. B' = B /\ D' = D
      BY <1>1, <1>2, <1>3, <1>4, <2>1, <2>3
    <3> QED
      BY <3>1 DEF Service!serviceVars
  <2>4. CASE s \in started /\ started' = started /\ corrections[s] = 0 /\ corrections'[s] = 1
    <3>1. B' = B /\ s \in B \ D /\ D' = D \cup {s}
      BY <1>1, <1>2, <1>3, <1>4, <2>1, <2>4
    <3> QED
      BY <1>4, <3>1 DEF Service!Complete
  <2> QED
    BY <1>4, <2>2, <2>3, <2>4, SessionStep
<1>5. ASSUME NEW s \in Session, Step(s), ~Alone(s) PROVE UNCHANGED Service!serviceVars
  <2>1. \A t \in Session : Alone(t) =>
          (t \in started' <=> t \in started) /\ corrections'[t] = corrections[t]
    BY <1>5, OthersKept
  <2>2. started \subseteq Session /\ started' \subseteq Session
    BY DEF OwnInv, TeleportInv, TypeOK
  <2>3. B' = B
    BY <1>3, <2>1, <2>2
  <2>4. D' = D
    BY <1>1, <1>2, <2>1
  <2> QED
    BY <2>3, <2>4 DEF Service!serviceVars
<1>6. CASE UNCHANGED vars
  <2>1. B' = B /\ D' = D
    BY <1>6 DEF vars, Alone
  <2> QED
    BY <2>1 DEF Service!serviceVars
<1> QED
  BY <1>4, <1>5, <1>6 DEF Next, Service!Next

(* Every session with a destination of its own is done at most once, after *)
(* it began, and stays done, whatever is lost and in whatever order the    *)
(* qubits and bits arrive.                                                 *)
THEOREM ImplementsSessionService == Spec => ServiceSpec
<1>1. Init => OwnInv
  BY InitOwn
<1>2. OwnInv /\ [Next]_vars => OwnInv'
  BY OwnStep
<1>3. Init => Service!Init
  <2>1. 0 % 2 = 0
    OBVIOUS
  <2> QED
    BY <2>1 DEF Init, Service!Init
<1>4. OwnInv /\ OwnInv' /\ [Next]_vars => [Service!Next]_(Service!serviceVars)
  BY ServiceStep
<1> QED
  BY <1>1, <1>2, <1>3, <1>4, PTL DEF Spec, ServiceSpec, Service!Spec

-----------------------------------------------------------------------------
(* The teleportation programs: Alice's script runs at fixed times, so each *)
(* event has one time at which it is due, and Bob's two arrivals are due   *)
(* QubitDue and BitsDue after the start.                                   *)

SendStep == IF variant = "viz" THEN 4 ELSE 1
Steps == IF variant = "viz" THEN 9 ELSE 1

(* When a step of a script is taken.                                       *)
VizDue == <<100, 110, 140, 150, 350, 360, 390, 400, 410>>
StepDue(i) == IF variant = "viz" THEN VizDue[i] ELSE 0

QubitDue == StepDue(SendStep) + times.quantum
RoundTrip == 2 * (times.classical + times.tx)
BitsDue == IF variant = "tcp" THEN RoundTrip + times.tx + times.classical + times.tx
           ELSE StepDue(Steps) + times.classical + times.tx

TimesInv ==
  /\ variant \in {"basic", "comms", "viz", "udp", "tcp"}
  /\ times.quantum \in Nat /\ times.classical \in Nat /\ times.tx \in Nat /\ times.stop \in Nat
  /\ PacketsInTime /\ variant # "tcp" => InTime(times)
  /\ variant \in {"udp", "tcp"} => times.quantum = times.classical

Of(kind) == {e \in agenda : e.kind = kind}

AgendaInv ==
  /\ \A e, f \in agenda : e.kind = f.kind => e = f
  /\ \A e \in agenda : e.due \in Nat /\ e.kind \in {"step", "qubit", "bits", "connected", "stop"}
  /\ \A e \in Of("step") : e.arg \in 1..Steps /\ e.due = StepDue(e.arg)
  /\ \A e \in Of("qubit") : e.due = QubitDue
  /\ \A e \in Of("bits") : e.due = BitsDue /\ variant # "basic"
  /\ \A e \in Of("connected") : e.due = RoundTrip /\ variant = "tcp"
  /\ \A e \in Of("stop") : e.due = times.stop

(* A qubit, and the bits, are to be sent, under way or with Bob.           *)
ToSend(last) == \E e \in Of("step") : e.arg <= last
CtrlUnderWay == Of("bits") # {} \/ Of("connected") # {}

ArrivalsInv ==
  /\ bobInfo = [qubitAt |-> bobInfo.qubitAt, bitsAt |-> bobInfo.bitsAt, m1 |-> bobInfo.m1,
                m2 |-> bobInfo.m2, done |-> bobInfo.done, noise |-> bobInfo.noise,
                result |-> bobInfo.result]
  /\ bobInfo.done \in BOOLEAN
  /\ bobInfo.qubitAt \in {-1, QubitDue} /\ bobInfo.bitsAt \in {-1, BitsDue}
  /\ ToSend(SendStep) => bobInfo.qubitAt = -1 /\ Of("qubit") = {}
  /\ Of("qubit") # {} => bobInfo.qubitAt = -1
  /\ ToSend(SendStep) \/ Of("qubit") # {} \/ bobInfo.qubitAt # -1
  /\ ToSend(Steps) => bobInfo.bitsAt = -1 /\ ~CtrlUnderWay
  /\ CtrlUnderWay => bobInfo.bitsAt = -1
  /\ Of("connected") # {} => Of("bits") = {} /\ tcp = [pending |-> TRUE, sent |-> FALSE]
  /\ variant # "basic" => ToSend(Steps) \/ CtrlUnderWay \/ bobInfo.bitsAt # -1

DoneInv ==
  /\ bobInfo.done <=> bobInfo.qubitAt # -1 /\ (variant = "basic" \/ bobInfo.bitsAt # -1)
  /\ PacketsInTime /\ ~going /\ ~bobInfo.done => variant = "tcp" /\ BitsDue >= times.stop

ProgramInv == TimesInv /\ AgendaInv /\ ArrivalsInv /\ DoneInv

-----------------------------------------------------------------------------
LEMMA ScriptIs ==
  ASSUME TimesInv
  PROVE  /\ Len(ET!Script) = Steps
         /\ \A i \in 1..Steps : /\ ET!Script[i].sends <=> i = SendStep
                                /\ ET!Script[i].measures <=> i = Steps
                                /\ i < Steps => StepDue(i) + ET!Script[i + 1].gap = StepDue(i + 1)
<1>1. CASE variant = "viz"
  <2>1. ET!Script = ET!VizScript
    BY <1>1 DEF ET!Script
  <2>2. Len(ET!VizScript) = 9 /\ Steps = 9 /\ SendStep = 4
    BY <1>1 DEF ET!VizScript, Steps, SendStep
  <2>3. \A i \in 1..9 : (ET!VizScript[i].sends <=> i = 4) /\ (ET!VizScript[i].measures <=> i = 9)
    BY DEF ET!VizScript, ET!Step
  <2>4. \A i \in 1..8 : VizDue[i] + ET!VizScript[i + 1].gap = VizDue[i + 1]
    BY DEF ET!VizScript, ET!Step, VizDue
  <2> QED
    BY <1>1, <2>1, <2>2, <2>3, <2>4 DEF StepDue
<1>2. CASE variant # "viz"
  <2>1. ET!Script = ET!CommsScript
    BY <1>2 DEF ET!Script, ET!BasicScript, TimesInv
  <2>2. /\ Len(ET!CommsScript) = 1 /\ Steps = 1 /\ SendStep = 1
        /\ ET!CommsScript[1].sends /\ ET!CommsScript[1].measures
    BY <1>2 DEF ET!CommsScript, ET!Step, Steps, SendStep
  <2> QED
    BY <2>1, <2>2
<1> QED
  BY <1>1, <1>2

LEMMA Dues ==
  ASSUME TimesInv
  PROVE  /\ \A i \in 1..Steps : StepDue(i) \in 0..410
         /\ SendStep \in 1..Steps /\ Steps \in 1..9
         /\ QubitDue \in Nat /\ BitsDue \in Nat /\ RoundTrip \in Nat
<1>1. \A i \in 1..9 : VizDue[i] \in 0..410
  BY DEF VizDue
<1>2. \A i \in 1..Steps : StepDue(i) \in 0..410
  BY <1>1 DEF StepDue, Steps
<1>3. SendStep \in 1..Steps /\ Steps \in 1..9
  BY DEF SendStep, Steps
<1>4. StepDue(SendStep) \in Nat /\ StepDue(Steps) \in Nat
  <2>1. Steps \in 1..Steps
    BY <1>3
  <2>2. StepDue(SendStep) \in 0..410 /\ StepDue(Steps) \in 0..410
    BY <1>2, <1>3, <2>1, Zenon
  <2> QED
    BY <2>2
<1>5. times.quantum \in Nat /\ times.classical \in Nat /\ times.tx \in Nat
  BY DEF TimesInv
<1> QED
  BY <1>2, <1>3, <1>4, <1>5 DEF QubitDue, BitsDue, RoundTrip

LEMMA ProgramInitInv ==
  ASSUME ExamplesAssumption, ET!Init
  PROVE  ProgramInv
<1>1. variant \in {"basic", "comms", "viz", "udp", "tcp"} /\ variant \in Variants
  BY DEF ET!Init, ExamplesAssumption
<1>2. PICK tx \in Transmissions, propagation \in Propagations :
        times = CASE variant = "basic" -> ET!BasicTimes(tx)
                  [] variant = "comms" -> ET!CommsTimes(tx)
                  [] variant = "viz" -> ET!VizTimes(tx)
                  [] OTHER -> ET!NoisyTimes(propagation, tx)
  BY DEF ET!Init
<1>3. tx \in Nat /\ propagation \in Nat
  BY DEF ExamplesAssumption
<1>4. TimesInv
  <2>1. CASE variant = "basic"
    <3>1. times = ET!BasicTimes(tx)
      BY <1>2, <2>1
    <3> QED
      BY <1>1, <1>3, <2>1, <3>1
         DEF PacketsInTime, TimesInv, InTime, ET!BasicTimes, ET!CommsTimes, ET!LinkTimes
  <2>2. CASE variant = "comms"
    <3>1. times = ET!CommsTimes(tx)
      BY <1>2, <2>2
    <3> QED
      BY <1>1, <1>3, <2>2, <3>1 DEF PacketsInTime, TimesInv, InTime, ET!CommsTimes, ET!LinkTimes
  <2>3. CASE variant = "viz"
    <3>1. times = ET!VizTimes(tx)
      BY <1>2, <2>3
    <3> QED
      BY <1>1, <1>3, <2>3, <3>1 DEF PacketsInTime, TimesInv, InTime, ET!VizTimes, ET!LinkTimes
  <2>4. CASE variant \in {"udp", "tcp"}
    <3>1. times = ET!NoisyTimes(propagation, tx)
      BY <1>2, <2>4
    <3>2. PacketsInTime /\ variant = "udp" => InTime(times)
      BY <1>1, <3>1 DEF PacketsInTime
    <3> QED
      BY <1>1, <1>3, <2>4, <3>1, <3>2 DEF TimesInv, ET!NoisyTimes, ET!LinkTimes
  <2> QED
    BY <1>1, <2>1, <2>2, <2>3, <2>4
<1> DEFINE first == ET!Event(ET!Script[1].gap, 0, "step", 1)
           stop == ET!Event(times.stop, 1, "stop", 0)
<1>5. agenda = {first, stop}
  BY DEF ET!Init
<1>6. /\ first.kind = "step" /\ first.arg = 1 /\ first.due = StepDue(1)
      /\ stop.kind = "stop" /\ stop.due = times.stop
  <2>1. ET!Script[1].gap = StepDue(1)
    <3>1. CASE variant = "viz"
      BY <3>1 DEF ET!Script, ET!VizScript, ET!Step, StepDue, VizDue
    <3>2. CASE variant # "viz"
      <4>1. ET!Script = ET!CommsScript
        BY <3>2 DEF ET!Script, ET!BasicScript
      <4> QED
        BY <3>2, <4>1 DEF ET!CommsScript, ET!Step, StepDue
    <3> QED
      BY <3>1, <3>2
  <2> QED
    BY <2>1 DEF ET!Event
<1> HIDE DEF first, stop
<1>7. /\ Of("step") = {first} /\ Of("stop") = {stop}
      /\ Of("qubit") = {} /\ Of("bits") = {} /\ Of("connected") = {}
  BY <1>5, <1>6 DEF Of
<1>8. 1 \in 1..Steps /\ StepDue(1) \in Nat /\ SendStep >= 1 /\ Steps >= 1
  <2>1. Steps \in 1..9 /\ SendStep \in 1..Steps
    BY <1>4, Dues
  <2>2. 1 \in 1..Steps
    BY <2>1
  <2>3. StepDue(1) \in 0..410
    BY <1>4, <2>2, Dues
  <2> QED
    BY <2>1, <2>2, <2>3
<1>9. AgendaInv
  <2>1. times.stop \in Nat
    BY <1>4 DEF TimesInv
  <2> QED
    BY <1>5, <1>6, <1>7, <1>8, <2>1 DEF AgendaInv
<1>10. bobInfo = ET!NoInfo /\ going = TRUE
  BY DEF ET!Init
<1>11. ToSend(SendStep) /\ ToSend(Steps)
  BY <1>6, <1>7, <1>8 DEF ToSend
<1>12. ArrivalsInv
  BY <1>7, <1>10, <1>11 DEF ArrivalsInv, CtrlUnderWay, ET!NoInfo
<1>13. DoneInv
  BY <1>10 DEF DoneInv, ET!NoInfo
<1> QED
  BY <1>4, <1>9, <1>12, <1>13 DEF ProgramInv

-----------------------------------------------------------------------------
(* Taking the event e and scheduling new ones, of kinds of their own.      *)
LEMMA AgendaStep ==
  ASSUME \A f, g \in agenda : f.kind = g.kind => f = g,
         NEW e \in agenda, NEW new, agenda' = (agenda \ {e}) \cup new,
         \A f \in new : f.kind = e.kind \/ Of(f.kind) = {},
         \A f, g \in new : f.kind = g.kind => f = g
  PROVE  /\ \A f, g \in agenda' : f.kind = g.kind => f = g
         /\ \A k : Of(k)' = (IF k = e.kind THEN {} ELSE Of(k)) \cup {f \in new : f.kind = k}
<1>1. \A f \in agenda \ {e} : f.kind # e.kind /\ \A g \in new : f.kind # g.kind
  BY DEF Of
<1>2. \A f, g \in agenda' : f.kind = g.kind => f = g
  BY <1>1
<1>3. ASSUME NEW k
      PROVE  Of(k)' = (IF k = e.kind THEN {} ELSE Of(k)) \cup {f \in new : f.kind = k}
  BY <1>1 DEF Of
<1> QED
  BY <1>2, <1>3

-----------------------------------------------------------------------------
(* Bob corrects, or tries to.                                              *)
Info(b) ==
  b = [qubitAt |-> b.qubitAt, bitsAt |-> b.bitsAt, m1 |-> b.m1, m2 |-> b.m2,
       done |-> b.done, noise |-> b.noise, result |-> b.result]

Corrected(b) ==
  /\ Info(bobInfo') /\ bobInfo'.qubitAt = b.qubitAt /\ bobInfo'.bitsAt = b.bitsAt
  /\ bobInfo'.done = TRUE
  /\ going' = going \/ going' = FALSE

LEMMA VerifiedIs ==
  ASSUME NEW b, Info(b), NEW g, ET!VerifiedInX(b, g)
  PROVE  /\ Info(bobInfo') /\ bobInfo'.qubitAt = b.qubitAt /\ bobInfo'.bitsAt = b.bitsAt
         /\ bobInfo'.done = TRUE
<1>1. PICK mx : bobInfo' = [b EXCEPT !.result = 1 - mx, !.done = TRUE]
  BY DEF ET!VerifiedInX
<1> QED
  BY <1>1 DEF Info

LEMMA BasicIs ==
  ASSUME NEW b, Info(b), ET!BasicCorrections(b)
  PROVE  Corrected(b)
<1>1. PICK g : ET!VerifiedInX(b, g) /\ going' = going
  BY DEF ET!BasicCorrections
<1> QED
  BY <1>1, VerifiedIs DEF Corrected

LEMMA TryIs ==
  ASSUME NEW b, Info(b), b.done = FALSE, ET!TryCorrections(b),
         variant \in {"comms", "viz", "udp", "tcp"}
  PROVE  /\ ET!BothArrived(b) => Corrected(b)
         /\ ~ET!BothArrived(b) => bobInfo' = b /\ going' = going
<1>1. ASSUME ~ET!BothArrived(b)
      PROVE  bobInfo' = b /\ going' = going
  BY <1>1 DEF ET!TryCorrections
<1>2. ASSUME ET!BothArrived(b)
      PROVE  Corrected(b)
  <2>1. /\ variant \in {"udp", "tcp"} => ET!NoisyCorrections(b)
        /\ variant = "comms" => ET!CommsCorrections(b)
        /\ variant = "viz" => ET!VizCorrections(b)
    BY <1>2 DEF ET!TryCorrections, ET!Noisy
  <2>2. CASE variant \in {"udp", "tcp"}
    <3>1. PICK noise, r : /\ bobInfo' = [b EXCEPT !.done = TRUE, !.noise = noise, !.result = r]
                          /\ going' = FALSE
      BY <2>1, <2>2 DEF ET!NoisyCorrections
    <3> QED
      BY <3>1 DEF Info, Corrected
  <2>3. CASE variant = "comms"
    <3>1. PICK g : ET!VerifiedInX(b, g) /\ going' = going
      BY <2>1, <2>3 DEF ET!CommsCorrections
    <3> QED
      BY <3>1, VerifiedIs DEF Corrected
  <2>4. CASE variant = "viz"
    <3>1. PICK g : ET!VerifiedInX(b, g) /\ going' = FALSE
      BY <2>1, <2>4 DEF ET!VizCorrections
    <3> QED
      BY <3>1, VerifiedIs DEF Corrected
  <2> QED
    BY <2>2, <2>3, <2>4
<1> QED
  BY <1>1, <1>2

-----------------------------------------------------------------------------
(* A step of Alice's script.                                               *)
QubitSent(e) == ET!Event(e.due + times.quantum, uid, "qubit", 0)
StepAfter(e) == ET!Event(e.due + ET!Script[e.arg + 1].gap, uid + 2, "step", e.arg + 1)
CtrlSent(e) == ET!SendCtrlPacket(e.due, uid + 1)
Scheduled(e) ==
  (IF e.arg = SendStep THEN {QubitSent(e)} ELSE {})
    \cup (IF e.arg < Steps THEN {StepAfter(e)} ELSE {})
    \cup (IF e.arg = Steps THEN CtrlSent(e) ELSE {})

LEMMA CtrlIs ==
  ASSUME TimesInv, NEW e, e.due = StepDue(Steps)
  PROVE  /\ variant = "basic" => CtrlSent(e) = {}
         /\ variant = "tcp" => \E c : CtrlSent(e) = {c} /\ c.kind = "connected" /\ c.due = RoundTrip
         /\ variant \notin {"basic", "tcp"} =>
              \E c : CtrlSent(e) = {c} /\ c.kind = "bits" /\ c.due = BitsDue
<1>1. ASSUME variant = "basic"
      PROVE  CtrlSent(e) = {}
  BY <1>1 DEF CtrlSent, ET!SendCtrlPacket
<1>2. ASSUME variant = "tcp"
      PROVE  \E c : CtrlSent(e) = {c} /\ c.kind = "connected" /\ c.due = RoundTrip
  <2> DEFINE c == ET!Event(e.due + 2 * (times.classical + times.tx), uid + 1, "connected", 0)
  <2>1. CtrlSent(e) = {c}
    BY <1>2 DEF CtrlSent, ET!SendCtrlPacket
  <2>2. e.due = 0 /\ times.classical \in Nat /\ times.tx \in Nat
    BY <1>2 DEF StepDue, TimesInv
  <2>3. c.kind = "connected" /\ c.due = RoundTrip
    BY <2>2 DEF ET!Event, RoundTrip
  <2> QED
    BY <2>1, <2>3
<1>3. ASSUME variant \notin {"basic", "tcp"}
      PROVE  \E c : CtrlSent(e) = {c} /\ c.kind = "bits" /\ c.due = BitsDue
  <2> DEFINE c == ET!Reaches(e.due, uid + 1, "bits")
  <2>1. CtrlSent(e) = {c}
    BY <1>3 DEF CtrlSent, ET!SendCtrlPacket
  <2>2. c.kind = "bits" /\ c.due = BitsDue
    BY <1>3 DEF ET!Reaches, ET!Event, BitsDue
  <2> QED
    BY <2>1, <2>2
<1> QED
  BY <1>1, <1>2, <1>3

LEMMA AliceIs ==
  ASSUME ProgramInv, NEW e \in agenda, ET!AliceStep(e)
  PROVE  /\ e \in Of("step") /\ going /\ UNCHANGED <<variant, times, bobInfo, going>>
         /\ agenda' = (agenda \ {e}) \cup Scheduled(e)
         /\ variant = "tcp" => tcp' = [pending |-> TRUE, sent |-> FALSE]
<1>1. e \in Of("step") /\ going /\ clock' = e.due
  BY DEF ET!AliceStep, ET!Takes, Of
<1>2. e.arg \in 1..Steps
  BY <1>1 DEF ProgramInv, AgendaInv
<1>3. /\ ET!Script[e.arg].sends <=> e.arg = SendStep
      /\ ET!Script[e.arg].measures <=> e.arg = Steps
      /\ Len(ET!Script) = Steps
  BY <1>2, ScriptIs DEF ProgramInv
<1>4. agenda' = (agenda \ {e}) \cup Scheduled(e)
  BY <1>1, <1>2, <1>3 DEF ET!AliceStep, Scheduled, QubitSent, StepAfter, CtrlSent
<1>5. variant = "tcp" => tcp' = [pending |-> TRUE, sent |-> FALSE]
  <2>1. variant = "tcp" => Steps = 1
    BY DEF Steps
  <2> QED
    BY <1>2, <1>3, <2>1 DEF ET!AliceStep
<1>6. UNCHANGED <<variant, times, bobInfo, going>>
  BY DEF ET!AliceStep, ET!Fixed
<1> QED
  BY <1>1, <1>4, <1>5, <1>6

(* What is pending after it.                                               *)
LEMMA AliceSets ==
  ASSUME ProgramInv, NEW e \in agenda, ET!AliceStep(e)
  PROVE  /\ \A f, g \in agenda' : f.kind = g.kind => f = g
         /\ \A f \in agenda' : f \in agenda \/ f.kind \in {"step", "qubit", "bits", "connected"}
         /\ Of("stop")' = Of("stop")
         /\ IF e.arg = SendStep
            THEN \E f : Of("qubit")' = {f} /\ f.kind = "qubit" /\ f.due = QubitDue
            ELSE Of("qubit")' = Of("qubit")
         /\ IF e.arg < Steps
            THEN \E f : /\ Of("step")' = {f} /\ f.kind = "step"
                        /\ f.arg = e.arg + 1 /\ f.due = StepDue(e.arg + 1)
            ELSE Of("step")' = {}
         /\ IF e.arg = Steps /\ variant \notin {"basic", "tcp"}
            THEN \E f : Of("bits")' = {f} /\ f.kind = "bits" /\ f.due = BitsDue
            ELSE Of("bits")' = {}
         /\ IF e.arg = Steps /\ variant = "tcp"
            THEN \E f : Of("connected")' = {f} /\ f.kind = "connected" /\ f.due = RoundTrip
            ELSE Of("connected")' = {}
<1>1. /\ e \in Of("step") /\ e.kind = "step" /\ e.arg \in 1..Steps /\ e.due = StepDue(e.arg)
      /\ agenda' = (agenda \ {e}) \cup Scheduled(e)
  BY AliceIs DEF ProgramInv, AgendaInv, Of
<1>2. Of("bits") = {} /\ Of("connected") = {}
  <2>1. ToSend(Steps)
    BY <1>1 DEF ToSend
  <2> QED
    BY <2>1 DEF ProgramInv, ArrivalsInv, CtrlUnderWay
<1>3. e.arg = SendStep => Of("qubit") = {}
  <2>1. e.arg = SendStep => ToSend(SendStep)
    BY <1>1 DEF ToSend
  <2> QED
    BY <2>1 DEF ProgramInv, ArrivalsInv
<1>4. /\ QubitSent(e).kind = "qubit"
      /\ e.arg = SendStep => QubitSent(e).due = QubitDue
  BY <1>1 DEF QubitSent, ET!Event, QubitDue
<1>5. /\ StepAfter(e).kind = "step" /\ StepAfter(e).arg = e.arg + 1
      /\ e.arg < Steps => StepAfter(e).due = StepDue(e.arg + 1)
  BY <1>1, ScriptIs DEF StepAfter, ET!Event, ProgramInv
<1>6. PICK c : e.arg = Steps =>
        /\ variant = "basic" => CtrlSent(e) = {}
        /\ variant = "tcp" => CtrlSent(e) = {c} /\ c.kind = "connected" /\ c.due = RoundTrip
        /\ variant \notin {"basic", "tcp"} => CtrlSent(e) = {c} /\ c.kind = "bits" /\ c.due = BitsDue
  BY <1>1, CtrlIs DEF ProgramInv
<1> DEFINE sent == IF e.arg = Steps THEN CtrlSent(e) ELSE {}
<1>7. /\ e.arg # Steps \/ variant = "basic" => sent = {}
      /\ e.arg = Steps /\ variant = "tcp" => sent = {c} /\ c.kind = "connected" /\ c.due = RoundTrip
      /\ e.arg = Steps /\ variant \notin {"basic", "tcp"} =>
           sent = {c} /\ c.kind = "bits" /\ c.due = BitsDue
  BY <1>6
<1>8. \A f \in Scheduled(e) :
        \/ e.arg = SendStep /\ f = QubitSent(e)
        \/ e.arg < Steps /\ f = StepAfter(e)
        \/ f \in sent
  BY DEF Scheduled
<1>9. /\ e.arg = SendStep => QubitSent(e) \in Scheduled(e)
      /\ e.arg < Steps => StepAfter(e) \in Scheduled(e)
      /\ sent \subseteq Scheduled(e)
  BY DEF Scheduled
<1> HIDE DEF sent
<1>10. \A f \in sent : f = c /\ f.kind \in {"bits", "connected"}
  BY <1>7
<1>11. /\ \A f \in Scheduled(e) : f.kind = e.kind \/ Of(f.kind) = {}
       /\ \A f, g \in Scheduled(e) : f.kind = g.kind => f = g
       /\ \A f \in Scheduled(e) : f.kind \in {"step", "qubit", "bits", "connected"}
  BY <1>1, <1>2, <1>3, <1>4, <1>5, <1>8, <1>10
<1>12. /\ \A f, g \in agenda' : f.kind = g.kind => f = g
       /\ \A k : Of(k)' = (IF k = e.kind THEN {} ELSE Of(k)) \cup {f \in Scheduled(e) : f.kind = k}
  <2>1. \A f, g \in agenda : f.kind = g.kind => f = g
    BY DEF ProgramInv, AgendaInv
  <2> QED
    BY <1>1, <1>11, <2>1, AgendaStep
<1>13. /\ {f \in Scheduled(e) : f.kind = "qubit"} = IF e.arg = SendStep THEN {QubitSent(e)} ELSE {}
       /\ {f \in Scheduled(e) : f.kind = "step"} = IF e.arg < Steps THEN {StepAfter(e)} ELSE {}
       /\ {f \in Scheduled(e) : f.kind \in {"bits", "connected"}} = sent
       /\ {f \in Scheduled(e) : f.kind = "stop"} = {}
  BY <1>4, <1>5, <1>8, <1>9, <1>10
<1>14. /\ {f \in Scheduled(e) : f.kind = "bits"} = {f \in sent : f.kind = "bits"}
       /\ {f \in Scheduled(e) : f.kind = "connected"} = {f \in sent : f.kind = "connected"}
  BY <1>9, <1>13
<1>15. /\ Of("stop")' = Of("stop")
       /\ IF e.arg = SendStep THEN Of("qubit")' = {QubitSent(e)} ELSE Of("qubit")' = Of("qubit")
       /\ IF e.arg < Steps THEN Of("step")' = {StepAfter(e)} ELSE Of("step")' = {}
       /\ Of("bits")' = {f \in sent : f.kind = "bits"}
       /\ Of("connected")' = {f \in sent : f.kind = "connected"}
  <2>1. Of("stop")' = Of("stop")
    BY <1>1, <1>12, <1>13
  <2>2. IF e.arg = SendStep THEN Of("qubit")' = {QubitSent(e)} ELSE Of("qubit")' = Of("qubit")
    BY <1>1, <1>3, <1>12, <1>13
  <2>3. IF e.arg < Steps THEN Of("step")' = {StepAfter(e)} ELSE Of("step")' = {}
    BY <1>1, <1>12, <1>13
  <2>4. Of("bits")' = {f \in sent : f.kind = "bits"}
    BY <1>1, <1>2, <1>12, <1>14
  <2>5. Of("connected")' = {f \in sent : f.kind = "connected"}
    BY <1>1, <1>2, <1>12, <1>14
  <2> QED
    BY <2>1, <2>2, <2>3, <2>4, <2>5
<1>16. IF e.arg = Steps /\ variant \notin {"basic", "tcp"}
       THEN \E f : Of("bits")' = {f} /\ f.kind = "bits" /\ f.due = BitsDue
       ELSE Of("bits")' = {}
  BY <1>7, <1>15
<1>17. IF e.arg = Steps /\ variant = "tcp"
       THEN \E f : Of("connected")' = {f} /\ f.kind = "connected" /\ f.due = RoundTrip
       ELSE Of("connected")' = {}
  BY <1>7, <1>15
<1>18. \A f \in agenda' : f \in agenda \/ f.kind \in {"step", "qubit", "bits", "connected"}
  BY <1>1, <1>11
<1> QED
  BY <1>4, <1>5, <1>12, <1>15, <1>16, <1>17, <1>18

LEMMA DuesKept ==
  ASSUME UNCHANGED <<variant, times>>
  PROVE  /\ QubitDue' = QubitDue /\ BitsDue' = BitsDue /\ RoundTrip' = RoundTrip
         /\ Steps' = Steps /\ SendStep' = SendStep /\ \A i : StepDue(i)' = StepDue(i)
         /\ TimesInv' <=> TimesInv
BY DEF QubitDue, BitsDue, RoundTrip, Steps, SendStep, StepDue, TimesInv, InTime

LEMMA AliceInv ==
  ASSUME ProgramInv, NEW e \in agenda, ET!AliceStep(e)
  PROVE  ProgramInv'
<1>1. /\ e \in Of("step") /\ going /\ UNCHANGED <<variant, times, bobInfo, going>>
      /\ variant = "tcp" => tcp' = [pending |-> TRUE, sent |-> FALSE]
  BY AliceIs
<1>2. /\ TimesInv /\ AgendaInv /\ ArrivalsInv /\ DoneInv
      /\ e.arg \in 1..Steps /\ SendStep \in 1..Steps /\ Steps \in 1..9
      /\ \A k \in 1..Steps : StepDue(k) \in 0..410
      /\ QubitDue \in Nat /\ BitsDue \in Nat /\ RoundTrip \in Nat
  BY <1>1, Dues DEF ProgramInv, AgendaInv
<1>3. /\ QubitDue' = QubitDue /\ BitsDue' = BitsDue /\ RoundTrip' = RoundTrip
      /\ Steps' = Steps /\ SendStep' = SendStep /\ \A k : StepDue(k)' = StepDue(k)
      /\ TimesInv'
  BY <1>1, <1>2, DuesKept
<1>4. /\ \A f, g \in agenda' : f.kind = g.kind => f = g
      /\ \A f \in agenda' : f \in agenda \/ f.kind \in {"step", "qubit", "bits", "connected"}
      /\ Of("stop")' = Of("stop")
  BY AliceSets
<1>5. /\ e.arg = SendStep => \E f : Of("qubit")' = {f} /\ f.kind = "qubit" /\ f.due = QubitDue
      /\ e.arg # SendStep => Of("qubit")' = Of("qubit")
  BY AliceSets
<1>6. /\ e.arg < Steps => \E f : /\ Of("step")' = {f} /\ f.kind = "step"
                                 /\ f.arg = e.arg + 1 /\ f.due = StepDue(e.arg + 1)
      /\ e.arg = Steps => Of("step")' = {}
  BY <1>2, AliceSets
<1>7. /\ e.arg = Steps /\ variant \notin {"basic", "tcp"} =>
           \E f : Of("bits")' = {f} /\ f.kind = "bits" /\ f.due = BitsDue
      /\ ~(e.arg = Steps /\ variant \notin {"basic", "tcp"}) => Of("bits")' = {}
      /\ e.arg = Steps /\ variant = "tcp" =>
           \E f : Of("connected")' = {f} /\ f.kind = "connected" /\ f.due = RoundTrip
      /\ ~(e.arg = Steps /\ variant = "tcp") => Of("connected")' = {}
  BY AliceSets
<1>8. /\ \A f \in Of("step")' : f.arg \in 1..Steps /\ f.due = StepDue(f.arg)
      /\ \A f \in Of("qubit")' : f.due = QubitDue
      /\ \A f \in Of("bits")' : f.due = BitsDue /\ variant # "basic"
      /\ \A f \in Of("connected")' : f.due = RoundTrip /\ variant = "tcp"
      /\ \A f \in Of("stop")' : f.due = times.stop
  <2>1. \A f \in Of("step")' : f.arg \in 1..Steps /\ f.due = StepDue(f.arg)
    BY <1>2, <1>6
  <2>2. \A f \in Of("qubit")' : f.due = QubitDue
    BY <1>2, <1>5 DEF AgendaInv
  <2>3. /\ \A f \in Of("bits")' : f.due = BitsDue /\ variant # "basic"
        /\ \A f \in Of("connected")' : f.due = RoundTrip /\ variant = "tcp"
        /\ \A f \in Of("stop")' : f.due = times.stop
    BY <1>2, <1>4, <1>7 DEF AgendaInv
  <2> QED
    BY <2>1, <2>2, <2>3
<1>9. \A f \in agenda' : f.due \in Nat /\ f.kind \in {"step", "qubit", "bits", "connected", "stop"}
  <2> SUFFICES ASSUME NEW f \in agenda'
               PROVE  /\ f.due \in Nat
                      /\ f.kind \in {"step", "qubit", "bits", "connected", "stop"}
    OBVIOUS
  <2>1. CASE f \in agenda
    BY <1>2, <2>1 DEF AgendaInv
  <2>2. CASE f.kind \in {"step", "qubit", "bits", "connected"}
    <3>1. /\ f.kind = "step" => f \in Of("step")'
          /\ f.kind = "qubit" => f \in Of("qubit")'
          /\ f.kind = "bits" => f \in Of("bits")'
          /\ f.kind = "connected" => f \in Of("connected")'
      BY DEF Of
    <3>2. f.kind = "step" => f.due \in 0..410
      BY <1>2, <1>8, <3>1
    <3> QED
      BY <1>2, <1>8, <2>2, <3>1, <3>2
  <2> QED
    BY <1>4, <2>1, <2>2
<1>10. AgendaInv'
  <2>1. times' = times /\ variant' = variant
    BY <1>1
  <2> QED
    BY <1>3, <1>4, <1>8, <1>9, <2>1 DEF AgendaInv
<1>11. /\ ToSend(Steps) /\ (e.arg <= SendStep => ToSend(SendStep))
       /\ (ToSend(SendStep) => e.arg <= SendStep)
  <2>1. \A f \in Of("step") : f = e
    BY <1>1, <1>2 DEF AgendaInv, Of
  <2> QED
    BY <1>1, <1>2, <2>1 DEF ToSend
<1>12. /\ bobInfo.bitsAt = -1 /\ ~CtrlUnderWay
       /\ e.arg <= SendStep => bobInfo.qubitAt = -1 /\ Of("qubit") = {}
       /\ e.arg > SendStep => Of("qubit") # {} \/ bobInfo.qubitAt # -1
  BY <1>2, <1>11 DEF ArrivalsInv
<1>13. /\ ToSend(SendStep)' <=> e.arg < SendStep
       /\ ToSend(Steps)' <=> e.arg < Steps
  <2>1. /\ ToSend(SendStep)' <=> \E f \in Of("step")' : f.arg <= SendStep
        /\ ToSend(Steps)' <=> \E f \in Of("step")' : f.arg <= Steps
    BY <1>3 DEF ToSend
  <2> QED
    BY <1>2, <1>6, <2>1
<1>14. CtrlUnderWay' <=> e.arg = Steps /\ variant # "basic"
  BY <1>7 DEF CtrlUnderWay
<1>15. ArrivalsInv'
  <2>1. /\ bobInfo' = [qubitAt |-> bobInfo'.qubitAt, bitsAt |-> bobInfo'.bitsAt, m1 |-> bobInfo'.m1,
                       m2 |-> bobInfo'.m2, done |-> bobInfo'.done, noise |-> bobInfo'.noise,
                       result |-> bobInfo'.result]
        /\ bobInfo'.done \in BOOLEAN
        /\ bobInfo'.qubitAt \in {-1, QubitDue} /\ bobInfo'.bitsAt \in {-1, BitsDue}
    BY <1>1, <1>2 DEF ArrivalsInv
  <2>2. /\ ToSend(SendStep)' => bobInfo'.qubitAt = -1 /\ Of("qubit")' = {}
        /\ Of("qubit")' # {} => bobInfo'.qubitAt = -1
        /\ ToSend(SendStep)' \/ Of("qubit")' # {} \/ bobInfo'.qubitAt # -1
    <3>1. bobInfo' = bobInfo /\ (Of("qubit") # {} => bobInfo.qubitAt = -1)
      BY <1>1, <1>2 DEF ArrivalsInv
    <3>2. e.arg = SendStep => Of("qubit")' # {}
      BY <1>5
    <3> QED
      BY <1>2, <1>5, <1>12, <1>13, <3>1, <3>2
  <2>3. /\ ToSend(Steps)' => bobInfo'.bitsAt = -1 /\ ~CtrlUnderWay'
        /\ CtrlUnderWay' => bobInfo'.bitsAt = -1
        /\ variant' # "basic" => ToSend(Steps)' \/ CtrlUnderWay' \/ bobInfo'.bitsAt # -1
    BY <1>1, <1>2, <1>12, <1>13, <1>14
  <2>4. Of("connected")' # {} => Of("bits")' = {} /\ tcp' = [pending |-> TRUE, sent |-> FALSE]
    BY <1>1, <1>7
  <2> QED
    BY <1>3, <2>1, <2>2, <2>3, <2>4 DEF ArrivalsInv
<1>16. DoneInv'
  BY <1>1, <1>2, <1>3 DEF DoneInv
<1> QED
  BY <1>3, <1>10, <1>15, <1>16 DEF ProgramInv

-----------------------------------------------------------------------------
(* An event that is taken and schedules nothing.                           *)
LEMMA TakenInv ==
  ASSUME ProgramInv, NEW e \in agenda, agenda' = agenda \ {e}, UNCHANGED <<variant, times>>
  PROVE  /\ TimesInv' /\ AgendaInv'
         /\ \A k : Of(k)' = IF k = e.kind THEN {} ELSE Of(k)
<1>1. TimesInv /\ AgendaInv
  BY DEF ProgramInv
<1>2. \A k : Of(k)' = IF k = e.kind THEN {} ELSE Of(k)
  <2>1. \A f, g \in agenda : f.kind = g.kind => f = g
    BY <1>1 DEF AgendaInv
  <2> QED
    BY <2>1 DEF Of
<1>3. \A k : Of(k)' \subseteq Of(k)
  BY <1>2
<1>4. /\ QubitDue' = QubitDue /\ BitsDue' = BitsDue /\ RoundTrip' = RoundTrip
      /\ Steps' = Steps /\ \A i : StepDue(i)' = StepDue(i)
      /\ TimesInv'
  BY <1>1, DuesKept
<1>5. AgendaInv'
  <2>1. /\ \A f, g \in agenda' : f.kind = g.kind => f = g
        /\ \A f \in agenda' : f.due \in Nat /\ f.kind \in {"step", "qubit", "bits", "connected", "stop"}
    BY <1>1 DEF AgendaInv
  <2>2. /\ Of("step")' \subseteq Of("step") /\ Of("qubit")' \subseteq Of("qubit")
        /\ Of("bits")' \subseteq Of("bits") /\ Of("connected")' \subseteq Of("connected")
        /\ Of("stop")' \subseteq Of("stop")
    BY <1>3
  <2>3. times' = times /\ variant' = variant
    OBVIOUS
  <2> QED
    BY <1>1, <1>4, <2>1, <2>2, <2>3 DEF AgendaInv
<1> QED
  BY <1>2, <1>4, <1>5

LEMMA Sendings ==
  ASSUME UNCHANGED <<variant, times>>, Of("step")' = Of("step")
  PROVE  ToSend(SendStep)' = ToSend(SendStep) /\ ToSend(Steps)' = ToSend(Steps)
<1>1. Steps' = Steps /\ SendStep' = SendStep
  BY DuesKept
<1>2. /\ ToSend(SendStep)' = \E f \in Of("step")' : f.arg <= SendStep'
      /\ ToSend(Steps)' = \E f \in Of("step")' : f.arg <= Steps'
  BY DEF ToSend
<1> QED
  BY <1>1, <1>2 DEF ToSend

LEMMA QubitInv ==
  ASSUME ProgramInv, NEW e \in agenda, ET!QubitArrives(e)
  PROVE  ProgramInv'
<1>1. /\ e.kind = "qubit" /\ going /\ clock' = e.due /\ agenda' = agenda \ {e}
      /\ UNCHANGED <<variant, times, tcp>>
  BY DEF ET!QubitArrives, ET!Takes, ET!Fixed
<1>2. /\ TimesInv /\ AgendaInv /\ ArrivalsInv /\ DoneInv
      /\ QubitDue \in Nat /\ BitsDue \in Nat
      /\ QubitDue' = QubitDue /\ BitsDue' = BitsDue
  BY <1>1, Dues, DuesKept DEF ProgramInv
<1>3. e \in Of("qubit") /\ clock' = QubitDue
  BY <1>1, <1>2 DEF Of, AgendaInv
<1>4. bobInfo.qubitAt = -1 /\ bobInfo.done = FALSE /\ Info(bobInfo) /\ ~ToSend(SendStep)
  BY <1>2, <1>3 DEF ArrivalsInv, DoneInv, Info
<1>5. /\ TimesInv' /\ AgendaInv'
      /\ Of("step")' = Of("step") /\ Of("qubit")' = {} /\ Of("bits")' = Of("bits")
      /\ Of("connected")' = Of("connected")
  BY <1>1, TakenInv
<1>6. PICK b : b = [bobInfo EXCEPT !.qubitAt = clock']
  OBVIOUS
<1>7. /\ Info(b) /\ b.qubitAt = QubitDue /\ b.bitsAt = bobInfo.bitsAt /\ b.done = FALSE
  BY <1>3, <1>4, <1>6 DEF Info
<1>8. IF variant = "basic" THEN ET!BasicCorrections(b) ELSE ET!TryCorrections(b)
  BY <1>6 DEF ET!QubitArrives
<1>9. ET!BothArrived(b) <=> bobInfo.bitsAt # -1
  BY <1>2, <1>7 DEF ET!BothArrived, ArrivalsInv
<1>10. /\ Info(bobInfo') /\ bobInfo'.qubitAt = QubitDue /\ bobInfo'.bitsAt = bobInfo.bitsAt
       /\ bobInfo'.done \in BOOLEAN
       /\ bobInfo'.done <=> variant = "basic" \/ bobInfo.bitsAt # -1
       /\ going' \/ bobInfo'.done
  <2>1. CASE variant = "basic"
    <3>1. Corrected(b)
      BY <1>7, <1>8, <2>1, BasicIs
    <3> QED
      BY <1>1, <1>7, <2>1, <3>1 DEF Corrected
  <2>2. CASE variant # "basic" /\ bobInfo.bitsAt # -1
    <3>1. Corrected(b)
      BY <1>2, <1>7, <1>8, <1>9, <2>2, TryIs DEF TimesInv
    <3> QED
      BY <1>1, <1>7, <2>2, <3>1 DEF Corrected
  <2>3. CASE variant # "basic" /\ bobInfo.bitsAt = -1
    <3>1. bobInfo' = b /\ going' = going
      BY <1>2, <1>7, <1>8, <1>9, <2>3, TryIs DEF TimesInv
    <3> QED
      BY <1>1, <1>7, <2>3, <3>1
  <2> QED
    BY <2>1, <2>2, <2>3
<1>11. ToSend(SendStep)' = ToSend(SendStep) /\ ToSend(Steps)' = ToSend(Steps)
  BY <1>1, <1>5, Sendings
<1>12. CtrlUnderWay' <=> CtrlUnderWay
  BY <1>5 DEF CtrlUnderWay
<1>13. ArrivalsInv'
  <2>1. variant' = variant /\ tcp' = tcp
    BY <1>1
  <2> QED
    BY <1>2, <1>4, <1>5, <1>10, <1>11, <1>12, <2>1 DEF ArrivalsInv, Info
<1>14. DoneInv'
  <2>1. variant' = variant /\ times' = times
    BY <1>1
  <2> QED
    BY <1>2, <1>10, <2>1 DEF DoneInv
<1> QED
  BY <1>5, <1>13, <1>14 DEF ProgramInv

LEMMA BitsInv ==
  ASSUME ProgramInv, NEW e \in agenda, ET!BitsArrive(e)
  PROVE  ProgramInv'
<1>1. /\ e.kind = "bits" /\ going /\ clock' = e.due /\ agenda' = agenda \ {e}
      /\ UNCHANGED <<variant, times, tcp>>
  BY DEF ET!BitsArrive, ET!Takes, ET!Fixed
<1>2. /\ TimesInv /\ AgendaInv /\ ArrivalsInv /\ DoneInv
      /\ QubitDue \in Nat /\ BitsDue \in Nat
      /\ QubitDue' = QubitDue /\ BitsDue' = BitsDue
  BY <1>1, Dues, DuesKept DEF ProgramInv
<1>3. e \in Of("bits") /\ clock' = BitsDue /\ variant \in {"comms", "viz", "udp", "tcp"}
  BY <1>1, <1>2 DEF Of, AgendaInv, TimesInv
<1>4. /\ bobInfo.bitsAt = -1 /\ bobInfo.done = FALSE /\ Info(bobInfo)
      /\ CtrlUnderWay /\ ~ToSend(Steps) /\ Of("connected") = {}
  BY <1>2, <1>3 DEF ArrivalsInv, DoneInv, CtrlUnderWay, Info
<1>5. /\ TimesInv' /\ AgendaInv'
      /\ Of("step")' = Of("step") /\ Of("qubit")' = Of("qubit") /\ Of("bits")' = {}
      /\ Of("connected")' = Of("connected")
  BY <1>1, TakenInv
<1>6. PICK b : b = [bobInfo EXCEPT !.bitsAt = clock', !.m1 = measured[1], !.m2 = measured[2]]
  OBVIOUS
<1>7. /\ Info(b) /\ b.bitsAt = BitsDue /\ b.qubitAt = bobInfo.qubitAt /\ b.done = FALSE
  BY <1>3, <1>4, <1>6 DEF Info
<1>8. ET!TryCorrections(b)
  BY <1>6 DEF ET!BitsArrive
<1>9. ET!BothArrived(b) <=> bobInfo.qubitAt # -1
  BY <1>2, <1>7 DEF ET!BothArrived, ArrivalsInv
<1>10. /\ Info(bobInfo') /\ bobInfo'.bitsAt = BitsDue /\ bobInfo'.qubitAt = bobInfo.qubitAt
       /\ bobInfo'.done \in BOOLEAN
       /\ bobInfo'.done <=> bobInfo.qubitAt # -1
       /\ going' \/ bobInfo'.done
  <2>1. CASE bobInfo.qubitAt # -1
    <3>1. Corrected(b)
      BY <1>3, <1>7, <1>8, <1>9, <2>1, TryIs
    <3> QED
      BY <1>1, <1>7, <2>1, <3>1 DEF Corrected
  <2>2. CASE bobInfo.qubitAt = -1
    <3>1. bobInfo' = b /\ going' = going
      BY <1>3, <1>7, <1>8, <1>9, <2>2, TryIs
    <3> QED
      BY <1>1, <1>7, <2>2, <3>1
  <2> QED
    BY <2>1, <2>2
<1>11. ToSend(SendStep)' = ToSend(SendStep) /\ ToSend(Steps)' = ToSend(Steps)
  BY <1>1, <1>5, Sendings
<1>12. ~CtrlUnderWay'
  BY <1>4, <1>5 DEF CtrlUnderWay
<1>13. ArrivalsInv'
  <2>1. variant' = variant /\ tcp' = tcp
    BY <1>1
  <2> QED
    BY <1>2, <1>4, <1>5, <1>10, <1>11, <1>12, <2>1 DEF ArrivalsInv, Info
<1>14. DoneInv'
  <2>1. variant' = variant /\ times' = times
    BY <1>1
  <2> QED
    BY <1>2, <1>3, <1>10, <2>1 DEF DoneInv
<1> QED
  BY <1>5, <1>13, <1>14 DEF ProgramInv


LEMMA ConnectedInv ==
  ASSUME ProgramInv, NEW e \in agenda, ET!OnTcpConnectSuccess(e)
  PROVE  ProgramInv'
<1>1. /\ e.kind = "connected" /\ going /\ clock' = e.due
      /\ UNCHANGED <<variant, times, bobInfo, going>>
  BY DEF ET!OnTcpConnectSuccess, ET!Takes, ET!Fixed
<1>2. /\ TimesInv /\ AgendaInv /\ ArrivalsInv /\ DoneInv
      /\ QubitDue \in Nat /\ BitsDue \in Nat /\ RoundTrip \in Nat
      /\ QubitDue' = QubitDue /\ BitsDue' = BitsDue /\ RoundTrip' = RoundTrip
      /\ Steps' = Steps /\ \A i : StepDue(i)' = StepDue(i)
      /\ TimesInv'
  BY <1>1, Dues, DuesKept DEF ProgramInv
<1>3. e \in Of("connected") /\ clock' = RoundTrip /\ variant = "tcp"
  BY <1>1, <1>2 DEF Of, AgendaInv
<1>4. /\ tcp = [pending |-> TRUE, sent |-> FALSE] /\ Of("bits") = {}
      /\ bobInfo.bitsAt = -1 /\ ~ToSend(Steps)
  BY <1>2, <1>3 DEF ArrivalsInv, CtrlUnderWay
<1>5. PICK f : f = ET!Reaches(clock' + times.tx, uid, "bits")
  OBVIOUS
<1>6. f.kind = "bits" /\ f.due = BitsDue
  BY <1>3, <1>5 DEF ET!Reaches, ET!Event, BitsDue
<1>7. agenda' = (agenda \ {e}) \cup {f}
  BY <1>4, <1>5 DEF ET!OnTcpConnectSuccess
<1>8. /\ \A g, h \in agenda' : g.kind = h.kind => g = h
      /\ \A k : Of(k)' = (IF k = e.kind THEN {} ELSE Of(k)) \cup {g \in {f} : g.kind = k}
  <2>1. \A g, h \in agenda : g.kind = h.kind => g = h
    BY <1>2 DEF AgendaInv
  <2>2. \A g \in {f} : g.kind = e.kind \/ Of(g.kind) = {}
    BY <1>4, <1>6
  <2>3. \A g, h \in {f} : g.kind = h.kind => g = h
    OBVIOUS
  <2> QED
    BY <1>7, <2>1, <2>2, <2>3, AgendaStep
<1>9. /\ Of("step")' = Of("step") /\ Of("qubit")' = Of("qubit") /\ Of("stop")' = Of("stop")
      /\ Of("connected")' = {} /\ Of("bits")' = {f}
  BY <1>1, <1>4, <1>6, <1>8
<1>10. AgendaInv'
  <2>1. \A g \in agenda' : g.due \in Nat /\ g.kind \in {"step", "qubit", "bits", "connected", "stop"}
    BY <1>2, <1>6, <1>7 DEF AgendaInv
  <2>2. /\ \A g \in Of("step") : g.arg \in 1..Steps /\ g.due = StepDue(g.arg)
        /\ \A g \in Of("qubit") : g.due = QubitDue
        /\ \A g \in Of("stop") : g.due = times.stop
    BY <1>2 DEF AgendaInv
  <2>3. times' = times /\ variant' = "tcp"
    BY <1>1, <1>3
  <2> QED
    BY <1>2, <1>6, <1>8, <1>9, <2>1, <2>2, <2>3 DEF AgendaInv
<1>11. ToSend(SendStep)' = ToSend(SendStep) /\ ToSend(Steps)' = ToSend(Steps)
  BY <1>1, <1>9, Sendings
<1>12. CtrlUnderWay'
  BY <1>9 DEF CtrlUnderWay
<1>13. ArrivalsInv'
  BY <1>1, <1>2, <1>4, <1>9, <1>11, <1>12 DEF ArrivalsInv
<1>14. DoneInv'
  BY <1>1, <1>2 DEF DoneInv
<1> QED
  BY <1>2, <1>10, <1>13, <1>14 DEF ProgramInv

(* When the time is up, what has not come was not to come in time.         *)
LEMMA StopInv ==
  ASSUME ProgramInv, NEW e \in agenda, ET!TimeUp(e)
  PROVE  ProgramInv'
<1>1. /\ e.kind = "stop" /\ agenda' = agenda \ {e} /\ \A f \in agenda : e.due <= f.due
      /\ UNCHANGED <<variant, times, bobInfo, tcp>>
  <2>1. AgendaInv
    BY DEF ProgramInv
  <2>2. /\ e.kind = "stop" /\ agenda' = agenda \ {e}
        /\ \A f \in agenda : e.due < f.due \/ e.due = f.due
        /\ UNCHANGED <<variant, times, bobInfo, tcp>>
    BY DEF ET!TimeUp, ET!Takes, ET!Fixed
  <2>3. \A f \in agenda : f.due \in Nat
    BY <2>1 DEF AgendaInv
  <2> QED
    BY <2>2, <2>3
<1>2. /\ TimesInv /\ AgendaInv /\ ArrivalsInv /\ DoneInv
      /\ QubitDue' = QubitDue /\ BitsDue' = BitsDue
  BY <1>1, DuesKept DEF ProgramInv
<1>3. /\ TimesInv' /\ AgendaInv'
      /\ Of("step")' = Of("step") /\ Of("qubit")' = Of("qubit") /\ Of("bits")' = Of("bits")
      /\ Of("connected")' = Of("connected")
  BY <1>1, TakenInv
<1>4. e.due = times.stop /\ \A f \in agenda : times.stop <= f.due
  BY <1>1, <1>2 DEF AgendaInv, Of
<1>5. ASSUME ~bobInfo.done
      PROVE  \E f \in agenda : f.kind \in {"step", "qubit", "bits", "connected"}
  BY <1>2, <1>5 DEF ArrivalsInv, DoneInv, ToSend, CtrlUnderWay, Of
<1>6. ASSUME PacketsInTime, NEW f \in agenda, f.kind \in {"step", "qubit", "bits", "connected"}
      PROVE  variant = "tcp" /\ BitsDue >= times.stop
  <2>1. /\ times.quantum \in Nat /\ times.classical \in Nat /\ times.tx \in Nat
        /\ times.stop \in Nat /\ f.due \in Nat /\ times.stop <= f.due
        /\ SendStep \in 1..Steps /\ Steps \in 1..Steps
    BY <1>2, <1>4, Dues DEF TimesInv, AgendaInv
  <2>2. \A i \in 1..Steps : StepDue(i) \in 0..410
    BY <1>2, Dues
  <2>3. StepDue(SendStep) \in 0..410 /\ StepDue(Steps) \in 0..410
    BY <2>1, <2>2
  <2>4. /\ f.kind = "step" => f.due \in 0..410
        /\ f.kind = "qubit" => f.due = QubitDue
        /\ f.kind = "bits" => f.due = BitsDue
        /\ f.kind = "connected" => f.due = RoundTrip /\ variant = "tcp"
    BY <1>2, <2>2 DEF AgendaInv, Of
  <2>5. CASE variant = "tcp"
    <3>1. f.kind = "step" => f.due = 0
      BY <1>2, <2>5 DEF AgendaInv, Of, StepDue
    <3>2. times.quantum = times.classical /\ QubitDue = times.quantum
      BY <1>2, <2>1, <2>5 DEF TimesInv, QubitDue, StepDue
    <3>3. BitsDue = RoundTrip + times.tx + times.classical + times.tx
          /\ RoundTrip = 2 * (times.classical + times.tx)
      BY <2>5 DEF BitsDue, RoundTrip
    <3>4. f.due <= BitsDue
      BY <1>6, <2>1, <2>4, <3>1, <3>2, <3>3
    <3>5. BitsDue \in Nat
      BY <1>2, Dues
    <3> QED
      BY <2>1, <2>5, <3>4, <3>5
  <2>6. CASE variant # "tcp"
    <3>1. 410 + times.quantum < times.stop /\ 410 + times.classical + times.tx < times.stop
      BY <1>2, <1>6, <2>6 DEF TimesInv, InTime
    <3>2. BitsDue = StepDue(Steps) + times.classical + times.tx
      BY <2>6 DEF BitsDue
    <3>3. QubitDue = StepDue(SendStep) + times.quantum
      BY DEF QubitDue
    <3>4. f.due < times.stop
      BY <1>6, <2>1, <2>3, <2>4, <2>6, <3>1, <3>2, <3>3
    <3> QED
      BY <2>1, <3>4
  <2> QED
    BY <2>5, <2>6
<1>7. ToSend(SendStep)' = ToSend(SendStep) /\ ToSend(Steps)' = ToSend(Steps)
  BY <1>1, <1>3, Sendings
<1>8. CtrlUnderWay' <=> CtrlUnderWay
  BY <1>3 DEF CtrlUnderWay
<1>9. ArrivalsInv'
  BY <1>1, <1>2, <1>3, <1>7, <1>8 DEF ArrivalsInv
<1>10. DoneInv'
  BY <1>1, <1>2, <1>5, <1>6 DEF DoneInv
<1> QED
  BY <1>3, <1>9, <1>10 DEF ProgramInv


LEMMA ProgramStep ==
  ASSUME ProgramInv, [ET!Next]_(ET!vars)
  PROVE  ProgramInv'
<1>1. ASSUME NEW e \in agenda,
             \/ ET!AliceStep(e) \/ ET!OnTcpConnectSuccess(e) \/ ET!QubitArrives(e)
             \/ ET!BitsArrive(e) \/ ET!TimeUp(e)
      PROVE  ProgramInv'
  BY <1>1, AliceInv, ConnectedInv, QubitInv, BitsInv, StopInv
<1>2. CASE UNCHANGED ET!vars
  <2>1. UNCHANGED <<variant, times, agenda, tcp, bobInfo, going>>
    BY <1>2 DEF ET!vars
  <2>2. /\ QubitDue' = QubitDue /\ BitsDue' = BitsDue /\ RoundTrip' = RoundTrip
        /\ Steps' = Steps /\ SendStep' = SendStep /\ \A i : StepDue(i)' = StepDue(i)
        /\ TimesInv' <=> TimesInv
    BY <2>1, DuesKept
  <2>3. \A k : Of(k)' = Of(k)
    BY <2>1 DEF Of
  <2>4. AgendaInv'
    BY <2>1, <2>2, <2>3 DEF ProgramInv, AgendaInv
  <2>5. ToSend(SendStep)' = ToSend(SendStep) /\ ToSend(Steps)' = ToSend(Steps)
    BY <2>1, <2>3, Sendings
  <2>6. ArrivalsInv'
    BY <2>1, <2>2, <2>3, <2>5 DEF ProgramInv, ArrivalsInv, CtrlUnderWay
  <2>7. DoneInv'
    BY <2>1, <2>2 DEF ProgramInv, DoneInv
  <2> QED
    BY <2>2, <2>4, <2>6, <2>7 DEF ProgramInv
<1> QED
  BY <1>1, <1>2 DEF ET!Next

(* The bits come after the qubit, by the time a packet takes to leave when *)
(* no connection is opened for them.                                       *)
LEMMA TeleportOnTime ==
  ASSUME PacketsInTime, ProgramInv
  PROVE  ET!HeldForTheBits /\ ET!UnfinishedOnlyWhenTooFar
<1>1. TimesInv /\ ArrivalsInv /\ DoneInv
  BY DEF ProgramInv
<1>2. times.classical \in Nat /\ times.tx \in Nat /\ times.stop \in Nat
  BY <1>1 DEF TimesInv
<1>3. ASSUME bobInfo.done, variant \in {"udp", "tcp"}
      PROVE  /\ bobInfo.bitsAt >= bobInfo.qubitAt
             /\ variant = "udp" => bobInfo.bitsAt - bobInfo.qubitAt = times.tx
  <2>1. times.quantum = times.classical /\ variant \notin {"basic", "viz"}
    BY <1>1, <1>3 DEF TimesInv
  <2>2. bobInfo.qubitAt = QubitDue /\ bobInfo.bitsAt = BitsDue
    BY <1>1, <1>3 DEF DoneInv, ArrivalsInv
  <2>3. QubitDue = times.classical
    BY <1>2, <2>1 DEF QubitDue, StepDue
  <2>4. CASE variant = "udp"
    <3>1. BitsDue = times.classical + times.tx
      BY <1>2, <2>4 DEF BitsDue, StepDue
    <3> QED
      BY <1>2, <2>2, <2>3, <3>1
  <2>5. CASE variant = "tcp"
    <3>1. BitsDue = 2 * (times.classical + times.tx) + times.tx + times.classical + times.tx
      BY <2>5 DEF BitsDue, RoundTrip
    <3> QED
      BY <1>2, <2>2, <2>3, <2>5, <3>1
  <2> QED
    BY <1>3, <2>4, <2>5
<1>4. ASSUME ~going, ~bobInfo.done
      PROVE  variant = "tcp" /\ 3 * (times.classical + times.tx) + times.tx >= times.stop
  <2>1. variant = "tcp" /\ BitsDue >= times.stop
    BY <1>1, <1>4 DEF DoneInv
  <2>2. BitsDue = 2 * (times.classical + times.tx) + times.tx + times.classical + times.tx
    BY <2>1 DEF BitsDue, RoundTrip
  <2> QED
    BY <1>2, <2>1, <2>2
<1> QED
  BY <1>3, <1>4 DEF ET!HeldForTheBits, ET!UnfinishedOnlyWhenTooFar, ET!Noisy

(* Bob's qubit is left alone once he has his verdict.                      *)
LEMMA TeleportCorrects ==
  ASSUME ProgramInv, [ET!Next]_(ET!vars)
  PROVE  ET!CorrectsOnce
<1>1. /\ TimesInv /\ AgendaInv /\ ArrivalsInv /\ DoneInv
      /\ ArrivalsInv' /\ DoneInv'
      /\ BitsDue \in Nat
  BY ProgramStep, Dues DEF ProgramInv
<1>2. variant' = variant /\ BitsDue' = BitsDue
  <2>1. UNCHANGED <<variant, times>>
    BY DEF ET!Next, ET!vars, ET!AliceStep, ET!OnTcpConnectSuccess, ET!QubitArrives,
       ET!BitsArrive, ET!TimeUp, ET!Fixed
  <2> QED
    BY <2>1, DuesKept
<1>3. ASSUME bobInfo'.done, variant # "basic"
      PROVE  bobInfo'.bitsAt >= 0
  BY <1>1, <1>2, <1>3 DEF ArrivalsInv, DoneInv
<1>4. ASSUME bobInfo.done
      PROVE  group' = group /\ bobInfo'.result = bobInfo.result
  <2>1. bobInfo.qubitAt # -1 /\ (variant = "basic" \/ bobInfo.bitsAt # -1)
    BY <1>1, <1>4 DEF DoneInv
  <2>2. Of("qubit") = {}
    BY <1>1, <2>1 DEF ArrivalsInv
  <2>3. Of("bits") = {} /\ Of("connected") = {}
    <3>1. CASE variant = "basic"
      BY <1>1, <3>1 DEF AgendaInv
    <3>2. CASE variant # "basic"
      BY <1>1, <2>1, <3>2 DEF ArrivalsInv, CtrlUnderWay
    <3> QED
      BY <3>1, <3>2
  <2>4. Of("step") = {}
    <3>1. ~ToSend(Steps)
      <4>1. variant = "basic" => SendStep = Steps
        BY DEF SendStep, Steps
      <4> QED
        BY <1>1, <2>1, <4>1 DEF ArrivalsInv
    <3>2. Steps \in 1..9 /\ \A e \in Of("step") : e.arg \in 1..Steps
      BY <1>1, Dues DEF AgendaInv
    <3>3. \A e \in Of("step") : e.arg <= Steps
      BY <3>2
    <3> QED
      BY <3>1, <3>3 DEF ToSend
  <2>5. \A e \in agenda : e.kind \notin {"step", "qubit", "bits", "connected"}
    BY <2>2, <2>3, <2>4 DEF Of
  <2>6. UNCHANGED ET!vars \/ \E e \in agenda : ET!TimeUp(e)
    BY <2>5 DEF ET!Next, ET!AliceStep, ET!OnTcpConnectSuccess, ET!QubitArrives,
       ET!BitsArrive, ET!Takes
  <2> QED
    BY <2>6 DEF ET!TimeUp, ET!vars
<1> QED
  BY <1>3, <1>4 DEF ET!CorrectsOnce


-----------------------------------------------------------------------------
(* The cluster program.                                                    *)
Chain == {e \in agenda : e.kind = "step"}
Flights == {e \in agenda : e.kind = "qubit"}
GraphSends == {<<0, 2>>, <<2, 3>>, <<4, 4>>}

(* One step is to come; once the qubits are sent each is at its client, or *)
(* arrives before the measurement.                                         *)
OnItsWay(e, s) == \E f \in Flights : f.a = s[1] /\ f.b = s[2] /\ f.due < e.due
GraphInv ==
  /\ delay \in Nat /\ DOMAIN place = 0..4
  /\ \A e \in Chain \cup Flights : e.due \in Nat
  /\ \A e, f \in Chain : e = f
  /\ \A e \in Chain : e.a = 1 /\ e.b \in 1..6
  /\ \A f \in Flights : <<f.a, f.b>> \in GraphSends
  /\ \A e \in Chain : e.b <= 5 => Flights = {} /\ (e.b > 1 => place[0] = 1)
  /\ \A e \in Chain : e.b = 6 => \A s \in GraphSends : place[s[1]] = s[2] \/ OnItsWay(e, s)

StatesInv == program = "graph" => GraphInv

-----------------------------------------------------------------------------
GraphOps == <<"create", "gates", "gates", "gates", "send", "measure">>
GraphGap(i) == <<100, 10, 30, 30, 10, delay + 10>>[i]

LEMMA GraphScriptIs ==
  ASSUME program = "graph"
  PROVE  /\ Len(ED!Scripts) = 1 /\ Len(ED!Scripts[1]) = 6 /\ DOMAIN ED!Scripts = {1}
         /\ \A i \in 1..6 : ED!Scripts[1][i].op = GraphOps[i] /\ ED!Scripts[1][i].gap = GraphGap(i)
         /\ ED!Scripts[1][1].args = [node |-> 1, qs |-> 0..4]
         /\ ED!Scripts[1][5].args = << <<0, 2>>, <<2, 3>>, <<4, 4>> >>
<1>1. ED!Scripts = << ED!GraphScript(delay) >>
  BY DEF ED!Scripts
<1>2. PICK script : script = ED!GraphScript(delay)
  OBVIOUS
<1>3. /\ Len(script) = 6
      /\ script[1] = ED!Create(100, 1, 0..4)
      /\ script[2].op = "gates" /\ script[2].gap = 10
      /\ script[3].op = "gates" /\ script[3].gap = 30
      /\ script[4].op = "gates" /\ script[4].gap = 30
      /\ script[5] = ED!Send(10, << <<0, 2>>, <<2, 3>>, <<4, 4>> >>)
      /\ script[6] = ED!Step(delay + 10, "measure", 0)
  BY <1>2 DEF ED!GraphScript, ED!Gates, ED!Step, ED!SingleGate, ED!TwoQGate
<1>4. /\ script[1].op = "create" /\ script[1].gap = 100 /\ script[1].args = [node |-> 1, qs |-> 0..4]
      /\ script[5].op = "send" /\ script[5].gap = 10
      /\ script[5].args = << <<0, 2>>, <<2, 3>>, <<4, 4>> >>
      /\ script[6].op = "measure" /\ script[6].gap = delay + 10
  BY <1>3 DEF ED!Create, ED!Send, ED!Step
<1>5. ED!Scripts[1] = script /\ Len(ED!Scripts) = 1 /\ DOMAIN ED!Scripts = {1}
  BY <1>1, <1>2
<1>6. \A i \in 1..6 : script[i].op = GraphOps[i] /\ script[i].gap = GraphGap(i)
  BY <1>3, <1>4 DEF GraphOps, GraphGap
<1> QED
  BY <1>3, <1>4, <1>5, <1>6

LEMMA GraphInitInv ==
  ASSUME ExamplesAssumption, ED!Init
  PROVE  StatesInv
<1> SUFFICES ASSUME program = "graph"
             PROVE  GraphInv
  BY DEF StatesInv
<1>1. delay \in Nat
  BY DEF ED!Init, ExamplesAssumption
<1>2. PICK first : first = ED!Event(ED!Scripts[1][1].gap, 1, "step", 1, 1, 0)
  OBVIOUS
<1>3. agenda = {first}
  <2>1. agenda = {ED!Event(ED!Scripts[s][1].gap, s, "step", s, 1, 0) : s \in DOMAIN ED!Scripts}
    BY DEF ED!Init
  <2> QED
    BY <1>2, <2>1, GraphScriptIs
<1>4. first.kind = "step" /\ first.a = 1 /\ first.b = 1 /\ first.due = 100
  BY <1>2, GraphScriptIs DEF ED!Event, GraphGap
<1>5. DOMAIN place = 0..4
  BY DEF ED!Init
<1>6. Chain = {first} /\ Flights = {}
  BY <1>3, <1>4 DEF Chain, Flights
<1> QED
  BY <1>1, <1>4, <1>5, <1>6 DEF GraphInv

(* The step e is taken, of which the next follows.                         *)
LEMMA ChainStep ==
  ASSUME GraphInv, program = "graph", NEW e \in Chain, NEW op, ED!Runs(e, op)
  PROVE  /\ e.a = 1 /\ e.b \in 1..6 /\ op = GraphOps[e.b] /\ Chain = {e}
         /\ e.due \in Nat /\ clock' = e.due /\ \A f \in Flights : e.due <= f.due
         /\ \A number : ED!NextStep(e, number) =
              IF e.b < 6 THEN {ED!Event(e.due + GraphGap(e.b + 1), number, "step", 1, e.b + 1, 0)}
                         ELSE {}
<1>1. e.a = 1 /\ e.b \in 1..6 /\ Chain = {e} /\ e.due \in Nat
  BY DEF GraphInv
<1>2. clock' = e.due /\ ED!Earliest(e) /\ ED!Scripts[1][e.b].op = op
  BY <1>1 DEF ED!Runs, ED!Takes
<1>3. op = GraphOps[e.b] /\ Len(ED!Scripts[1]) = 6
  BY <1>1, <1>2, GraphScriptIs
<1>4. \A number : ED!NextStep(e, number) =
              IF e.b < 6 THEN {ED!Event(e.due + GraphGap(e.b + 1), number, "step", 1, e.b + 1, 0)}
                         ELSE {}
  <2>1. e.b < 6 => e.b + 1 \in 1..6
    BY <1>1
  <2>2. e.b < 6 => ED!Scripts[1][e.b + 1].gap = GraphGap(e.b + 1)
    BY <2>1, GraphScriptIs
  <2> QED
    BY <1>1, <1>2, <1>3, <2>2 DEF ED!NextStep
<1>5. \A f \in Flights : e.due <= f.due
  <2>1. \A f \in Flights : f \in agenda /\ f.due \in Nat
    BY DEF GraphInv, Flights
  <2>2. \A f \in agenda : e.due < f.due \/ e.due = f.due
    BY <1>2 DEF ED!Earliest
  <2> QED
    BY <1>1, <2>1, <2>2
<1> QED
  BY <1>1, <1>2, <1>3, <1>4, <1>5


(* The chain's next step, and the qubits in flight, after a step.          *)
Moves(e, op, number, new) ==
  /\ ED!Runs(e, op)
  /\ agenda' = (agenda \ {e}) \cup new \cup ED!NextStep(e, number)
  /\ \A f \in new : f.kind # "step"
ChainAfter(b, due) ==
  \E n : Chain' = {n} /\ n.a = 1 /\ n.b = b + 1 /\ n.due = due + GraphGap(b + 1) /\ n.due \in Nat

LEMMA ChainMoves ==
  ASSUME GraphInv, program = "graph", NEW e \in Chain, NEW op, NEW number, NEW new,
         Moves(e, op, number, new)
  PROVE  /\ e.b \in 1..6 /\ op = GraphOps[e.b]
         /\ e.b < 6 => ChainAfter(e.b, e.due)
         /\ e.b = 6 => Chain' = {}
         /\ Flights' = Flights \cup {f \in new : f.kind = "qubit"}
<1>0. /\ ED!Runs(e, op)
      /\ agenda' = (agenda \ {e}) \cup new \cup ED!NextStep(e, number)
      /\ \A f \in new : f.kind # "step"
  BY DEF Moves
<1>1. /\ e.a = 1 /\ e.b \in 1..6 /\ Chain = {e} /\ e.due \in Nat /\ e.kind = "step"
      /\ ED!NextStep(e, number) =
           IF e.b < 6 THEN {ED!Event(e.due + GraphGap(e.b + 1), number, "step", 1, e.b + 1, 0)}
                      ELSE {}
      /\ op = GraphOps[e.b]
  BY <1>0, ChainStep DEF Chain
<1>2. PICK n : n = ED!Event(e.due + GraphGap(e.b + 1), number, "step", 1, e.b + 1, 0)
  OBVIOUS
<1>3. n.a = 1 /\ n.b = e.b + 1 /\ n.kind = "step" /\ n.due = e.due + GraphGap(e.b + 1)
  BY <1>2 DEF ED!Event
<1>4. e.b < 6 => GraphGap(e.b + 1) \in Nat
  <2>1. delay \in Nat
    BY DEF GraphInv
  <2>2. \A i \in 1..6 : GraphGap(i) \in Nat
    BY <2>1 DEF GraphGap
  <2> QED
    BY <1>1, <2>2
<1>5. agenda' = (agenda \ {e}) \cup new \cup (IF e.b < 6 THEN {n} ELSE {})
  BY <1>0, <1>1, <1>2
<1>6. Chain' = IF e.b < 6 THEN {n} ELSE {}
  BY <1>0, <1>1, <1>3, <1>5 DEF Chain
<1>7. Flights' = Flights \cup {f \in new : f.kind = "qubit"}
  BY <1>0, <1>1, <1>3, <1>5 DEF Flights
<1>8. e.b < 6 => ChainAfter(e.b, e.due)
  BY <1>1, <1>3, <1>4, <1>6 DEF ChainAfter
<1> QED
  BY <1>1, <1>6, <1>7, <1>8

LEMMA CreateInv ==
  ASSUME GraphInv, program = "graph", NEW e \in agenda, ED!CreateQubits(e)
  PROVE  GraphInv' /\ group' = group
<1>0. PICK new : new = {}
  OBVIOUS
<1>1. /\ e \in Chain /\ delay' = delay /\ group' = group /\ Moves(e, "create", uid, new)
      /\ place' = [q \in DOMAIN place |-> IF q \in ED!Args(e).qs THEN ED!Args(e).node ELSE place[q]]
  BY <1>0 DEF ED!CreateQubits, ED!Runs, ED!Takes, Chain, ED!Fixed, Moves
<1>2. e.b \in 1..6 /\ GraphOps[e.b] = "create"
  BY <1>1, ChainMoves
<1>3. e.b = 1 /\ e.a = 1
  BY <1>1, <1>2 DEF GraphOps, GraphInv
<1>4. ED!Args(e) = [node |-> 1, qs |-> 0..4]
  BY <1>3, GraphScriptIs DEF ED!Args
<1>5. DOMAIN place = 0..4 /\ Flights = {} /\ delay \in Nat
  BY <1>1, <1>3 DEF GraphInv
<1>6. DOMAIN place' = 0..4 /\ place'[0] = 1
  BY <1>1, <1>4, <1>5
<1>7. ChainAfter(e.b, e.due) /\ Flights' = Flights \cup {f \in new : f.kind = "qubit"}
  BY <1>1, <1>3, ChainMoves
<1>8. PICK n : Chain' = {n} /\ n.a = 1 /\ n.b = 2 /\ n.due \in Nat
  BY <1>3, <1>7 DEF ChainAfter
<1>9. Flights' = {}
  BY <1>0, <1>5, <1>7
<1> QED
  BY <1>1, <1>5, <1>6, <1>8, <1>9 DEF GraphInv

LEMMA GateStepInv ==
  ASSUME GraphInv, program = "graph", NEW e \in agenda, ED!ApplyGates(e)
  PROVE  GraphInv' /\ place[0] = 1
<1>0. PICK new : new = {}
  OBVIOUS
<1>1. /\ e \in Chain /\ delay' = delay /\ place' = place /\ Moves(e, "gates", uid, new)
  BY <1>0 DEF ED!ApplyGates, ED!Runs, ED!Takes, Chain, ED!Fixed, Moves
<1>2. e.b \in 1..6 /\ GraphOps[e.b] = "gates"
  BY <1>1, ChainMoves
<1>3. e.b \in 2..4
  BY <1>2 DEF GraphOps
<1>4. DOMAIN place = 0..4 /\ Flights = {} /\ delay \in Nat /\ place[0] = 1
  BY <1>1, <1>3 DEF GraphInv
<1>5. ChainAfter(e.b, e.due) /\ Flights' = Flights \cup {f \in new : f.kind = "qubit"}
  BY <1>1, <1>3, ChainMoves
<1>6. PICK n : Chain' = {n} /\ n.a = 1 /\ n.b = e.b + 1 /\ n.due \in Nat
  BY <1>5 DEF ChainAfter
<1>7. Flights' = {}
  BY <1>0, <1>4, <1>5
<1> QED
  BY <1>1, <1>3, <1>4, <1>6, <1>7 DEF GraphInv

SentAt(i) == << <<0, 2>>, <<2, 3>>, <<4, 4>> >>[i]

LEMMA SendInv ==
  ASSUME GraphInv, program = "graph", NEW e \in agenda, ED!SendQubits(e)
  PROVE  GraphInv' /\ group' = group
<1> DEFINE sends == ED!Args(e)
           flight(i) == ED!Event(clock' + delay, uid + i - 1, "qubit", sends[i][1], sends[i][2], 0)
           number == uid + Len(sends)
<1>1. PICK new : new = {flight(i) : i \in DOMAIN sends}
  OBVIOUS
<1>2. /\ e \in Chain /\ ED!Runs(e, "send") /\ delay' = delay /\ group' = group
      /\ agenda' = (agenda \ {e}) \cup new \cup ED!NextStep(e, number)
      /\ place' = [q \in DOMAIN place |->
                     IF \E i \in DOMAIN sends : sends[i][1] = q THEN 0 ELSE place[q]]
  BY <1>1 DEF ED!SendQubits, ED!Runs, ED!Takes, Chain, ED!Fixed
<1>3. e.a = 1 /\ e.b = 5 /\ clock' = e.due /\ e.due \in Nat
  <2>1. /\ e.b \in 1..6 /\ GraphOps[e.b] = "send" /\ e.a = 1
        /\ clock' = e.due /\ e.due \in Nat
    BY <1>2, ChainStep
  <2> QED
    BY <2>1 DEF GraphOps
<1>4. sends = << <<0, 2>>, <<2, 3>>, <<4, 4>> >>
  BY <1>3, GraphScriptIs DEF ED!Args
<1>5. DOMAIN place' = 0..4 /\ Flights = {} /\ delay \in Nat
  BY <1>2, <1>3 DEF GraphInv
<1>6. DOMAIN sends = 1..3 /\ \A i \in 1..3 : sends[i] = SentAt(i)
  BY <1>4 DEF SentAt
<1>7. \A i \in 1..3 : /\ flight(i).kind = "qubit" /\ flight(i).due = e.due + delay
                      /\ flight(i).a = SentAt(i)[1] /\ flight(i).b = SentAt(i)[2]
  BY <1>3, <1>6 DEF ED!Event
<1> HIDE DEF sends, flight, number
<1>8. new = {flight(i) : i \in 1..3}
  BY <1>1, <1>6
<1>9. \A f \in new : /\ f.kind = "qubit" /\ f.due = e.due + delay
                     /\ <<f.a, f.b>> \in GraphSends
  <2>1. \A i \in 1..3 : <<SentAt(i)[1], SentAt(i)[2]>> \in GraphSends
    BY DEF SentAt, GraphSends
  <2> QED
    BY <1>7, <1>8, <2>1
<1>10. \A s \in GraphSends : \E f \in new : f.a = s[1] /\ f.b = s[2]
  <2>1. \A s \in GraphSends : \E i \in 1..3 : SentAt(i)[1] = s[1] /\ SentAt(i)[2] = s[2]
    BY DEF SentAt, GraphSends
  <2> QED
    BY <1>7, <1>8, <2>1
<1>15. Moves(e, "send", number, new)
  BY <1>2, <1>9 DEF Moves
<1>16. ChainAfter(e.b, e.due) /\ Flights' = Flights \cup {f \in new : f.kind = "qubit"}
  BY <1>2, <1>3, <1>15, ChainMoves
<1>11. Flights' = new
  BY <1>5, <1>9, <1>16
<1>12. PICK n : Chain' = {n} /\ n.a = 1 /\ n.b = 6 /\ n.due = e.due + GraphGap(6) /\ n.due \in Nat
  <2>1. e.b + 1 = 6
    BY <1>3
  <2> QED
    BY <1>16, <2>1 DEF ChainAfter
<1>13. n.due = e.due + delay + 10 /\ e.due + delay < n.due /\ e.due + delay \in Nat
  BY <1>3, <1>5, <1>12 DEF GraphGap
<1>14. \A s \in GraphSends : OnItsWay(n, s)'
  <2>1. \A s \in GraphSends : \E f \in Flights' : f.a = s[1] /\ f.b = s[2] /\ f.due < n.due
    BY <1>9, <1>10, <1>11, <1>13
  <2> QED
    BY <2>1 DEF OnItsWay
<1>17. \A x \in Chain' : x = n
  BY <1>12
<1>18. /\ \A x \in Chain' \cup Flights' : x.due \in Nat
       /\ \A f \in Flights' : <<f.a, f.b>> \in GraphSends
       /\ \A x, y \in Chain' : x = y
       /\ \A x \in Chain' : x.a = 1 /\ x.b \in 1..6 /\ ~(x.b <= 5)
  <2>1. \A f \in Flights' : f.due \in Nat /\ <<f.a, f.b>> \in GraphSends
    BY <1>9, <1>11, <1>13
  <2>2. n.due \in Nat /\ n.a = 1 /\ n.b \in 1..6 /\ ~(n.b <= 5)
    BY <1>12
  <2> QED
    BY <1>17, <2>1, <2>2
<1>19. \A x \in Chain' : \A s \in GraphSends : OnItsWay(x, s)'
  BY <1>14, <1>17
<1> QED
  BY <1>2, <1>5, <1>18, <1>19 DEF GraphInv


\* The qubit s[1] is with the client s[2].
At(s) == place[s[1]] = s[2]

LEMMA MeasureInv ==
  ASSUME GraphInv, program = "graph", NEW e \in agenda, ED!MeasureNeighbours(e)
  PROVE  GraphInv' /\ \A s \in GraphSends : At(s)
<1>1. /\ e \in Chain /\ ED!Runs(e, "measure") /\ delay' = delay /\ place' = place
      /\ \E m1, m3 : agenda' = (agenda \ {e}) \cup ED!OutcomePackets(m1, m3)
  BY DEF ED!MeasureNeighbours, ED!Runs, ED!Takes, Chain, ED!Fixed
<1>2. e.b = 6 /\ Chain = {e} /\ \A f \in Flights : e.due <= f.due
  <2>1. /\ e.b \in 1..6 /\ GraphOps[e.b] = "measure" /\ Chain = {e}
        /\ \A f \in Flights : e.due <= f.due
    BY <1>1, ChainStep
  <2> QED
    BY <2>1 DEF GraphOps
<1>3. PICK packets : /\ agenda' = (agenda \ {e}) \cup packets
                     /\ \A f \in packets : f.kind = "packet"
  <2>1. \A number, from, to, m : ED!Packet(number, from, to, m).kind = "packet"
    BY DEF ED!Packet, ED!Event
  <2>2. \A m1, m3 : \A f \in ED!OutcomePackets(m1, m3) : f.kind = "packet"
    BY <2>1 DEF ED!OutcomePackets
  <2>3. PICK m1, m3 : agenda' = (agenda \ {e}) \cup ED!OutcomePackets(m1, m3)
    BY <1>1
  <2> QED
    BY <2>2, <2>3
<1>4. Chain' = {} /\ Flights' = Flights
  BY <1>1, <1>2, <1>3 DEF Chain, Flights
<1>5. \A s \in GraphSends : ~OnItsWay(e, s)
  <2>1. e.due \in Nat /\ \A f \in Flights : f.due \in Nat
    BY <1>1 DEF GraphInv
  <2>2. \A f \in Flights : ~(f.due < e.due)
    BY <1>2, <2>1
  <2> QED
    BY <2>2 DEF OnItsWay
<1>6. \A s \in GraphSends : At(s)
  BY <1>1, <1>2, <1>5 DEF GraphInv, At
<1> QED
  BY <1>1, <1>4, <1>6 DEF GraphInv

LEMMA ClientInv ==
  ASSUME GraphInv, program = "graph", NEW e \in agenda, ED!QubitArrives(e)
  PROVE  GraphInv' /\ group' = group
<1>1. /\ e \in Flights /\ delay' = delay /\ group' = group
      /\ agenda' = agenda \ {e} /\ place' = [place EXCEPT ![e.a] = e.b]
  <2>1. ED!AckTo(e.a, e.b) = {}
    BY DEF ED!AckTo, ED!GraphAckTo
  <2>2. {ED!Packet(uid, e.b, to, e.a) : to \in ED!AckTo(e.a, e.b)} = {}
    BY <2>1
  <2> QED
    BY <2>2 DEF ED!QubitArrives, ED!Takes, Flights, ED!Fixed
<1>2. Chain' = Chain /\ Flights' = Flights \ {e}
  BY <1>1 DEF Chain, Flights
<1>3. <<e.a, e.b>> \in GraphSends /\ DOMAIN place = 0..4
  BY <1>1 DEF GraphInv
<1>4. ASSUME NEW x \in Chain
      PROVE  /\ x.b \notin 1..5
             /\ x.b = 6 => \A s \in GraphSends : place'[s[1]] = s[2] \/ OnItsWay(x, s)'
  <2>1. ~(x.b <= 5) /\ x.b \in 1..6
    BY <1>1 DEF GraphInv
  <2>2. ASSUME x.b = 6, NEW s \in GraphSends
        PROVE  place'[s[1]] = s[2] \/ OnItsWay(x, s)'
    <3>1. s[1] \in 0..4
      BY DEF GraphSends
    <3>2. CASE s[1] = e.a
      <4>1. s[2] = e.b
        BY <1>3, <3>2 DEF GraphSends
      <4> QED
        BY <1>1, <1>3, <3>1, <3>2, <4>1
    <3>3. CASE s[1] # e.a
      <4>1. place'[s[1]] = place[s[1]]
        BY <1>1, <1>3, <3>1, <3>3
      <4>2. place[s[1]] = s[2] \/ OnItsWay(x, s)
        BY <2>2 DEF GraphInv
      <4>3. OnItsWay(x, s) => OnItsWay(x, s)'
        BY <1>2, <3>3 DEF OnItsWay
      <4> QED
        BY <4>1, <4>2, <4>3
    <3> QED
      BY <3>2, <3>3
  <2> QED
    BY <2>1, <2>2
<1>5. DOMAIN place' = 0..4
  BY <1>1, <1>3
<1>6. /\ \A x \in Chain' \cup Flights' : x.due \in Nat
      /\ \A x, y \in Chain' : x = y
      /\ \A x \in Chain' : x.a = 1 /\ x.b \in 1..6 /\ ~(x.b <= 5)
      /\ \A f \in Flights' : <<f.a, f.b>> \in GraphSends
  BY <1>2, <1>4 DEF GraphInv
<1>7. \A x \in Chain' : x.b = 6 => \A s \in GraphSends : place'[s[1]] = s[2] \/ OnItsWay(x, s)'
  BY <1>2, <1>4
<1>8. delay' \in Nat
  BY <1>1 DEF GraphInv
<1> QED
  BY <1>1, <1>5, <1>6, <1>7, <1>8 DEF GraphInv

\* A step that touches neither the chain nor the qubits.
LEMMA GraphKept ==
  ASSUME GraphInv, UNCHANGED <<delay, place>>, Chain' = Chain, Flights' = Flights
  PROVE  GraphInv'
<1>1. \A x, s : OnItsWay(x, s)' <=> OnItsWay(x, s)
  BY DEF OnItsWay
<1> QED
  BY <1>1 DEF GraphInv

LEMMA GraphStep ==
  ASSUME StatesInv, [ED!Next]_(ED!vars)
  PROVE  StatesInv' /\ ED!MeasuresOnceArrived
<1>1. UNCHANGED program
  BY DEF ED!Next, ED!vars, ED!CreateQubits, ED!ApplyGates, ED!SendQubits, ED!MeasureNeighbours,
     ED!Announce, ED!QubitArrives, ED!AckArrives, ED!OutcomeArrives, ED!Fixed
<1> SUFFICES ASSUME program = "graph"
             PROVE  GraphInv' /\ ED!MeasuresOnceArrived
  BY <1>1 DEF StatesInv, ED!MeasuresOnceArrived
<1>2. GraphInv
  BY DEF StatesInv
<1>3. CASE UNCHANGED ED!vars
  <2>1. UNCHANGED <<delay, place, agenda, group>>
    BY <1>3 DEF ED!vars
  <2>2. Chain' = Chain /\ Flights' = Flights
    BY <2>1 DEF Chain, Flights
  <2> QED
    BY <1>2, <2>1, <2>2, GraphKept DEF ED!MeasuresOnceArrived
<1>4. ASSUME NEW e \in agenda, ED!CreateQubits(e) \/ ED!SendQubits(e) \/ ED!QubitArrives(e)
      PROVE  GraphInv' /\ group' = group
  BY <1>2, <1>4, CreateInv, SendInv, ClientInv
<1>5. ASSUME NEW e \in agenda, ED!ApplyGates(e)
      PROVE  GraphInv' /\ place[0] = 1
  BY <1>2, <1>5, GateStepInv
<1>6. ASSUME NEW e \in agenda, ED!MeasureNeighbours(e)
      PROVE  GraphInv' /\ place[0] = 2 /\ place[2] = 3 /\ place[4] = 4
  <2>1. GraphInv' /\ \A s \in GraphSends : At(s)
    BY <1>2, <1>6, MeasureInv
  <2> QED
    BY <2>1 DEF GraphSends, At
<1>7. ASSUME NEW e \in agenda, ED!Announce(e)
      PROVE  FALSE
  <2>1. e \in Chain /\ ED!Runs(e, "announce")
    BY <1>7 DEF ED!Announce, ED!Runs, ED!Takes, Chain
  <2>2. e.b \in 1..6 /\ GraphOps[e.b] = "announce"
    BY <1>2, <2>1, ChainStep
  <2> QED
    BY <2>2 DEF GraphOps
<1>8. ASSUME NEW e \in agenda, ED!AckArrives(e) \/ ED!OutcomeArrives(e)
      PROVE  GraphInv' /\ group' = group
  <2>1. /\ e.kind = "packet" /\ agenda' = agenda \ {e}
        /\ UNCHANGED <<delay, place, group>>
    BY <1>8 DEF ED!AckArrives, ED!OutcomeArrives, ED!Takes, ED!Fixed
  <2>2. Chain' = Chain /\ Flights' = Flights
    BY <2>1 DEF Chain, Flights
  <2> QED
    BY <1>2, <2>1, <2>2, GraphKept
<1> QED
  BY <1>3, <1>4, <1>5, <1>6, <1>7, <1>8 DEF ED!Next, ED!MeasuresOnceArrived

-----------------------------------------------------------------------------
ExamplesInv ==
  /\ example = "states" => StatesInv
  /\ example = "teleport" => ProgramInv

(* In every reachable state of the examples: each pending event is due at  *)
(* its one time, the qubit and the bits are to be sent, under way or with  *)
(* Bob, the verdict is in exactly when both have come, and the cluster     *)
(* program's qubits arrive before the step that measures                   *)
(* (examples/q2nsviz-graphstate-gen-example.cc:278).                       *)
THEOREM ExamplesInvariant ==
  ASSUME ExamplesAssumption
  PROVE  ExamplesSpec => []ExamplesInv
<1>1. ExamplesInit => ExamplesInv
  BY ProgramInitInv, GraphInitInv DEF ExamplesInit, ExamplesInv
<1>2. ExamplesInv /\ [ExamplesNext]_exampleVars => ExamplesInv'
  <2> SUFFICES ASSUME ExamplesInv, [ExamplesNext]_exampleVars
               PROVE  ExamplesInv'
    OBVIOUS
  <2>1. CASE UNCHANGED exampleVars
    <3>1. UNCHANGED <<example, ED!vars, ET!vars>>
      BY <2>1 DEF exampleVars, simulatorVars, statesVars, teleportVars, ED!vars, ET!vars
    <3> QED
      BY <3>1, GraphStep, ProgramStep DEF ExamplesInv
  <2>2. CASE example = "states" /\ ED!Next /\ UNCHANGED <<example, teleportVars>>
    BY <2>2, GraphStep DEF ExamplesInv
  <2>3. CASE example = "teleport" /\ ET!Next /\ UNCHANGED <<example, statesVars>>
    BY <2>3, ProgramStep DEF ExamplesInv
  <2> QED
    BY <2>1, <2>2, <2>3 DEF ExamplesNext
<1> QED
  BY <1>1, <1>2, PTL DEF ExamplesSpec

(* Whatever the delays, the cluster program measures only once its clients *)
(* have their qubits, and Bob corrects once, with the bits in hand         *)
(* (examples/q2ns-5-noisy-teleportation-advanced-example.cc:133).          *)
THEOREM StepsInOrderAlways ==
  ASSUME ExamplesAssumption
  PROVE  ExamplesSpec => StepsInOrder
<1>1. ASSUME ExamplesInv, [ExamplesNext]_exampleVars
      PROVE  /\ example = "states" => ED!MeasuresOnceArrived
             /\ example = "teleport" => ET!CorrectsOnce
  <2>1. CASE UNCHANGED exampleVars
    <3>1. UNCHANGED <<example, ED!vars, ET!vars>>
      BY <2>1 DEF exampleVars, simulatorVars, statesVars, teleportVars, ED!vars, ET!vars
    <3> QED
      BY <1>1, <3>1, GraphStep, TeleportCorrects DEF ExamplesInv
  <2>2. CASE example = "states" /\ ED!Next /\ UNCHANGED <<example, teleportVars>>
    BY <1>1, <2>2, GraphStep DEF ExamplesInv
  <2>3. CASE example = "teleport" /\ ET!Next /\ UNCHANGED <<example, statesVars>>
    BY <1>1, <2>3, TeleportCorrects DEF ExamplesInv
  <2> QED
    BY <1>1, <2>1, <2>2, <2>3 DEF ExamplesNext
<1> QED
  BY <1>1, ExamplesInvariant, PTL DEF ExamplesSpec, StepsInOrder

(* Whatever the distance, the qubit waits for the bits, over UDP for just  *)
(* the time a packet takes to leave, and the end of the simulation cuts    *)
(* off only TCP trials over too long a distance, if the other programs'    *)
(* packets come before it                                                  *)
(* (examples/q2ns-5-noisy-teleportation-advanced-example.cc:114, 133).     *)
THEOREM OnTimeAlways ==
  ASSUME ExamplesAssumption, PacketsInTime
  PROVE  ExamplesSpec => []OnTime
<1>1. ExamplesInv => OnTime
  BY TeleportOnTime DEF ExamplesInv, OnTime
<1> QED
  BY <1>1, ExamplesInvariant, PTL

=============================================================================
