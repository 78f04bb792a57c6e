-------------------------- MODULE SwapChainProofs --------------------------
(***************************************************************************)
(* What holds of swap sessions for every set of paths, ports and           *)
(* protocols, over any order and any loss of qubits, packets and           *)
(* connections.                                                            *)
(*                                                                         *)
(* HalfInv says of which halves a repeater that has measured is the        *)
(* holder.  The books of a session say what its sink will have heard: F[s] *)
(* is the sum of the outcomes of each set of its repeaters, and heard[s]   *)
(* the repeaters whose header its sink has read.  The frame of the pair is *)
(* the sum over those that have measured, the one the sink accumulates the *)
(* sum over those it has heard, and the header of a repeater it has not    *)
(* heard yet is under way once or not at all.                              *)
(***************************************************************************)
EXTENDS SwapChain, FiniteSetTheorems, TLAPS

HalfStates == {"none", "flight", "there", "lost"}

Types ==
  /\ started \subseteq Session
  /\ DOMAIN half = Session
  /\ \A s \in Session : half[s] \in [Links(s) -> HalfStates]
  /\ measured \in [Session -> SUBSET Nat]
  /\ frame \in [Session -> Frame]
  /\ accum \in [Session -> Frame]
  /\ recv \in [Session -> Nat]
  /\ haveF \subseteq Session
  /\ done \subseteq haveF
  /\ udp \subseteq Headers
  /\ conn \in [Sockets -> {"none", "connecting", "open", "failed"}]
  /\ stream \in [Sockets -> Seq(Headers)]
  /\ pending \in [Sockets -> Seq(Headers)]

HalfInv ==
  /\ \A s \in Session \ started : \A i \in Links(s) : half[s][i] = "none"
  /\ \A s \in Session : \A r \in measured[s] :
       r \in Repeaters(s) /\ HasPrev(s, r, half) /\ HasNext(s, r, half)
  /\ \A s \in done : HaveQ(s, half)
  /\ \A s \in Session \ MayLose : \A i \in Links(s) : half[s][i] # "lost"

\* Sums of outcomes over sets of repeaters.
Sums(s) ==
  {f \in [SUBSET Repeaters(s) -> Frame] :
     /\ f[{}] = NoFrame
     /\ \A S \in SUBSET Repeaters(s) : \A r \in Repeaters(s) \ S :
          f[S \cup {r}] = XorFrame(f[S], f[{r}])}

AllSums == {F \in [Session -> UNION {Sums(s) : s \in Session}] :
              \A s \in Session : F[s] \in Sums(s)}
Hearings == [Session -> UNION {SUBSET Repeaters(s) : s \in Session}]

BookKept(F, heard, s) ==
  /\ heard[s] \subseteq measured[s]
  /\ recv[s] = Cardinality(heard[s])
  /\ accum[s] = F[s][heard[s]]
  /\ frame[s] = IF s \in done THEN NoFrame ELSE F[s][measured[s]]
  /\ s \in haveF => heard[s] = Repeaters(s)

\* A header under way tells the outcome of a repeater that was not heard.
News(F, heard, meas, h) ==
  /\ h.from \in meas[h.sid] \ heard[h.sid]
  /\ F[h.sid][{h.from}] = <<h.m[2], h.m[1]>>

SameOrigin(g, h) == g.sid = h.sid /\ g.from = h.from

UdpKept(F, heard) ==
  \A h \in udp :
    /\ Proto[h.sid] = "udp"
    /\ News(F, heard, measured, h)
    /\ \A g \in udp : SameOrigin(g, h) => g = h

Accepts(k) == conn[k] = "open" \/ (conn[k] # "failed" /\ k.node \in Buffers)

OfSocket(F, heard, meas, k, h) ==
  /\ Proto[h.sid] = "tcp"
  /\ Socket(h.sid, h.from) = k
  /\ News(F, heard, meas, h)

SocketKept(F, heard, k) ==
  /\ IF Accepts(k) THEN pending[k] = <<>> ELSE stream[k] = <<>>
  /\ Len(pending[k]) <= 1
  /\ \A i \in DOMAIN pending[k] : OfSocket(F, heard, measured, k, pending[k][i])
  /\ \A i \in DOMAIN stream[k] : OfSocket(F, heard, measured, k, stream[k][i])
  /\ \A i, j \in DOMAIN stream[k] : SameOrigin(stream[k][i], stream[k][j]) => i = j

Kept(F, heard) ==
  /\ \A s \in Session : BookKept(F, heard, s)
  /\ UdpKept(F, heard)
  /\ \A k \in Sockets : SocketKept(F, heard, k)

SwapInv == Types /\ HalfInv /\ \E F \in AllSums, heard \in Hearings : Kept(F, heard)


-----------------------------------------------------------------------------
(* Constants: links, repeaters, headers and frames.                        *)
LEMMA LastType ==
  ASSUME SwapAssumption, NEW s \in Session
  PROVE  /\ Last(s) \in Nat \ {0}
         /\ Last(s) \in Links(s) /\ Last(s) \in LeftOf[s]
         /\ Repeaters(s) \subseteq Links(s)
         /\ \A r \in Repeaters(s) : r - 1 \in Links(s)
         /\ IsFiniteSet(Repeaters(s)) /\ Cardinality(Repeaters(s)) \in Nat
<1>1. Last(s) \in Nat \ {0} /\ Last(s) \in LeftOf[s]
  BY DEF SwapAssumption
<1> DEFINE n == Last(s)
<1>2. /\ IsFiniteSet(2..n) /\ Cardinality(2..n) \in Nat
  BY <1>1, FS_Interval, FS_CardinalityType
<1> QED
  BY <1>1, <1>2 DEF Links, Repeaters

LEMMA SocketType ==
  ASSUME NEW s \in Session, NEW r \in Repeaters(s)
  PROVE  Socket(s, r) \in Sockets
BY DEF Sockets

LEMMA HeaderType ==
  ASSUME NEW s \in Session, NEW r \in Repeaters(s), NEW m \in Bit \X Bit
  PROVE  [sid |-> s, from |-> r, m |-> m] \in Headers
BY DEF Headers

LEMMA HeaderFields ==
  ASSUME NEW h \in Headers
  PROVE  /\ h.sid \in Session /\ h.from \in Repeaters(h.sid) /\ h.m \in Bit \X Bit
         /\ <<h.m[2], h.m[1]>> \in Frame
<1>1. PICK s \in Session :
        h \in {[sid |-> s, from |-> r, m |-> m] : r \in Repeaters(s), m \in Bit \X Bit}
  BY DEF Headers
<1>2. PICK r \in Repeaters(s), m \in Bit \X Bit : h = [sid |-> s, from |-> r, m |-> m]
  BY <1>1
<1> QED
  BY <1>2 DEF Frame

(* Frames form a group in which every frame undoes itself.                 *)
LEMMA FrameAlgebra ==
  ASSUME NEW f \in Frame, NEW g \in Frame, NEW o \in Frame
  PROVE  /\ XorFrame(f, g) \in Frame
         /\ XorFrame(f, g) = XorFrame(g, f)
         /\ XorFrame(XorFrame(f, g), o) = XorFrame(XorFrame(f, o), g)
         /\ XorFrame(f, NoFrame) = f /\ XorFrame(NoFrame, f) = f
         /\ XorFrame(f, f) = NoFrame
         /\ NoFrame \in Frame
<1>1. PICK f1 \in Bit, f2 \in Bit : f = <<f1, f2>>
  BY DEF Frame
<1>2. PICK g1 \in Bit, g2 \in Bit : g = <<g1, g2>>
  BY DEF Frame
<1>3. PICK o1 \in Bit, o2 \in Bit : o = <<o1, o2>>
  BY DEF Frame
<1>4. \A a \in Bit, b \in Bit, c \in Bit :
        /\ XorBit(a, b) \in Bit /\ XorBit(a, b) = XorBit(b, a)
        /\ XorBit(XorBit(a, b), c) = XorBit(XorBit(a, c), b)
        /\ XorBit(a, 0) = a /\ XorBit(0, a) = a /\ XorBit(a, a) = 0
  BY DEF Bit, XorBit
<1> QED
  BY <1>1, <1>2, <1>3, <1>4 DEF Frame, XorFrame, NoFrame, Bit

-----------------------------------------------------------------------------
(* The sums of outcomes when one more repeater measures.                   *)
AddOutcome(f, s, r, o) ==
  [S \in SUBSET Repeaters(s) |-> IF r \in S THEN XorFrame(f[S \ {r}], o) ELSE f[S]]

Grown(g, f, s, r, o) ==
  /\ g \in Sums(s)
  /\ \A S \in SUBSET Repeaters(s) :
       r \notin S => g[S] = f[S] /\ g[S \cup {r}] = XorFrame(f[S], o)
  /\ \A q \in Repeaters(s) \ {r} : g[{q}] = f[{q}]
  /\ g[{r}] = o

(* One more outcome is added to every sum it belongs to.                   *)
LEMMA SumsGrow ==
  ASSUME NEW s \in Session, NEW f \in Sums(s), NEW r \in Repeaters(s), NEW o \in Frame
  PROVE  \E g : Grown(g, f, s, r, o)
<1> DEFINE g == AddOutcome(f, s, r, o)
<1> DEFINE R == Repeaters(s)
<1>1. /\ f \in [SUBSET R -> Frame]
      /\ f[{}] = NoFrame
      /\ \A S \in SUBSET R : \A q \in R \ S : f[S \cup {q}] = XorFrame(f[S], f[{q}])
  BY DEF Sums
<1>2. \A S \in SUBSET R : g[S] = IF r \in S THEN XorFrame(f[S \ {r}], o) ELSE f[S]
  BY DEF AddOutcome
<1>g. \A S \in SUBSET R : f[S] \in Frame /\ XorFrame(f[S], o) \in Frame
  BY <1>1, FrameAlgebra
<1>3. g \in [SUBSET R -> Frame]
  <2>1. \A S \in SUBSET R : S \ {r} \in SUBSET R
    OBVIOUS
  <2>2. \A S \in SUBSET R : g[S] \in Frame
    BY <1>2, <1>g, <2>1
  <2>3. g = [S \in SUBSET R |-> g[S]]
    BY DEF AddOutcome
  <2> QED
    BY <2>2, <2>3
<1>4. \A S \in SUBSET R : r \notin S => g[S] = f[S] /\ g[S \cup {r}] = XorFrame(f[S], o)
  <2> SUFFICES ASSUME NEW S \in SUBSET R, r \notin S
               PROVE  g[S] = f[S] /\ g[S \cup {r}] = XorFrame(f[S], o)
    OBVIOUS
  <2>1. S \cup {r} \in SUBSET R /\ r \in S \cup {r} /\ (S \cup {r}) \ {r} = S
    OBVIOUS
  <2> QED
    BY <1>2, <2>1
<1>5. g[{r}] = o
  <2>1. {} \in SUBSET R /\ r \notin {} /\ {} \cup {r} = {r}
    OBVIOUS
  <2>2. g[{} \cup {r}] = XorFrame(f[{}], o)
    BY <1>4, <2>1
  <2> QED
    BY <2>1, <2>2, <1>1, FrameAlgebra
<1>6. \A q \in R \ {r} : g[{q}] = f[{q}]
  BY <1>2
<1>7. g[{}] = NoFrame
  BY <1>1, <1>2
<1>8. \A S \in SUBSET R : \A q \in R \ S : g[S \cup {q}] = XorFrame(g[S], g[{q}])
  <2> SUFFICES ASSUME NEW S \in SUBSET R, NEW q \in R \ S
               PROVE  g[S \cup {q}] = XorFrame(g[S], g[{q}])
    OBVIOUS
  <2>1. CASE q = r
    BY <1>4, <1>5, <2>1
  <2>2. CASE q # r /\ r \notin S
    <3>1. S \cup {q} \in SUBSET R /\ r \notin S \cup {q}
      BY <2>2
    <3> QED
      BY <1>1, <1>4, <1>6, <2>2, <3>1
  <2>3. CASE q # r /\ r \in S
    <3> DEFINE T == S \ {r}
    <3>1. /\ T \in SUBSET R /\ r \notin T /\ q \in R \ T
          /\ S = T \cup {r} /\ S \cup {q} = (T \cup {q}) \cup {r}
          /\ T \cup {q} \in SUBSET R /\ r \notin T \cup {q} /\ {q} \in SUBSET R
      BY <2>3
    <3> HIDE DEF T
    <3>2. g[S \cup {q}] = XorFrame(f[T \cup {q}], o) /\ g[S] = XorFrame(f[T], o)
      BY <1>4, <3>1
    <3>3. f[T \cup {q}] = XorFrame(f[T], f[{q}]) /\ g[{q}] = f[{q}]
      BY <1>1, <1>6, <2>3, <3>1
    <3>4. f[T] \in Frame /\ f[{q}] \in Frame
      BY <1>g, <3>1
    <3> QED
      BY <3>2, <3>3, <3>4, FrameAlgebra
  <2> QED
    BY <2>1, <2>2, <2>3
<1>9. g \in Sums(s)
  BY <1>3, <1>7, <1>8 DEF Sums
<1> QED
  BY <1>4, <1>5, <1>6, <1>9 DEF Grown


-----------------------------------------------------------------------------
(* What a step does, apart from the half it moves.                         *)
Measures(s, r, m) ==
  /\ r \in Repeaters(s) \ measured[s]
  /\ HasPrev(s, r, half') /\ HasNext(s, r, half')
  /\ measured' = [measured EXCEPT ![s] = @ \cup {r}]
  /\ frame' = [frame EXCEPT ![s] = AfterMeasureBell(@, NoFrame, m[1], m[2])]
  /\ Send([sid |-> s, from |-> r, m |-> m])

MaybeMeasures(s) ==
  \/ UNCHANGED <<measured, frame, netVars>>
  \/ \E r \in Repeaters(s), m \in Bit \X Bit : Measures(s, r, m)

LEMMA MaybeDo ==
  ASSUME NEW s \in Session, NEW r, MaybeDoBsmAndAnnounce(s, r)
  PROVE  MaybeMeasures(s)
<1>1. CASE r \in Repeaters(s) \ measured[s] /\ HasPrev(s, r, half') /\ HasNext(s, r, half')
  BY <1>1 DEF MaybeDoBsmAndAnnounce, MaybeMeasures, Measures
<1>2. CASE ~(r \in Repeaters(s) \ measured[s] /\ HasPrev(s, r, half') /\ HasNext(s, r, half'))
  BY <1>2 DEF MaybeDoBsmAndAnnounce, MaybeMeasures
<1> QED
  BY <1>1, <1>2

Starts(s) ==
  /\ s \notin started
  /\ started' = started \cup {s}
  /\ half' = [half EXCEPT ![s] = [i \in Links(s) |-> "flight"]]
  /\ UNCHANGED sinkVars
  /\ MaybeMeasures(s)

Lands(s, i) ==
  /\ half[s][i] = "flight"
  /\ half' = [half EXCEPT ![s][i] = "there"]
  /\ UNCHANGED <<started, accum, recv, haveF>>
  /\ \/ MaybeMeasures(s) /\ UNCHANGED done
     \/ UNCHANGED <<measured, netVars>> /\ i = Last(s) /\ TryApply(s)

Settles == UNCHANGED <<started, half, measured, frame, sinkVars>>

(* Every step of the chain is one of these.                                *)
LEMMA StepCases ==
  ASSUME Next
  PROVE  \/ \E s \in Session : Starts(s)
         \/ \E s \in Session : \E i \in Links(s) : Lands(s, i) \/ LoseQubit(s, i)
         \/ \E h \in udp : UdpArrives(h) \/ (UdpLost(h) /\ Settles)
         \/ \E k \in Sockets : \/ OnTcpConnected(k) /\ Settles
                               \/ OnTcpConnectFail(k) /\ Settles
                               \/ \E n \in Nat : TcpRead(k, n)
<1>1. CASE \E s \in Session : Start(s)
  <2>s. PICK s \in Session : Start(s)
    BY <1>1
  <2>1. s \notin started /\ started' = started \cup {s}
        /\ half' = [half EXCEPT ![s] = [i \in Links(s) |-> "flight"]] /\ UNCHANGED sinkVars
    BY <2>s DEF Start
  <2>2. UNCHANGED <<measured, frame, netVars>> \/ \E r : MaybeDoBsmAndAnnounce(s, r)
    BY <2>s, Zenon DEF Start
  <2>3. MaybeMeasures(s)
    BY <2>2, MaybeDo DEF MaybeMeasures
  <2> QED
    BY <2>1, <2>3 DEF Starts
<1>2. CASE \E s \in Session : \E i \in Links(s) : QubitArrives(s, i) \/ LoseQubit(s, i)
  <2>s. PICK s \in Session : \E i \in Links(s) : QubitArrives(s, i) \/ LoseQubit(s, i)
    BY <1>2
  <2>i. PICK i \in Links(s) : QubitArrives(s, i) \/ LoseQubit(s, i)
    BY <2>s
  <2> SUFFICES ASSUME QubitArrives(s, i) PROVE Lands(s, i)
    BY <2>i
  <2> DEFINE at == IF i \in LeftOf[s] THEN i + 1 ELSE i
  <2>1. /\ half[s][i] = "flight" /\ half' = [half EXCEPT ![s][i] = "there"]
        /\ UNCHANGED <<started, accum, recv, haveF>>
        /\ IF at \in Repeaters(s)
           THEN MaybeDoBsmAndAnnounce(s, at) /\ UNCHANGED done
           ELSE /\ UNCHANGED <<measured, netVars>>
                /\ IF i = Last(s) THEN TryApply(s) ELSE UNCHANGED <<done, frame>>
    BY DEF QubitArrives
  <2> HIDE DEF at
  <2>2. CASE at \in Repeaters(s)
    BY <2>1, <2>2, MaybeDo DEF Lands
  <2>3. CASE at \notin Repeaters(s) /\ i = Last(s)
    BY <2>1, <2>3 DEF Lands
  <2>4. CASE at \notin Repeaters(s) /\ i # Last(s)
    BY <2>1, <2>4 DEF Lands, MaybeMeasures, netVars
  <2> QED
    BY <2>2, <2>3, <2>4
<1>3. CASE \E h \in udp : UdpArrives(h) \/ UdpLost(h)
  BY <1>3 DEF UdpLost, Settles, sinkVars
<1>4. CASE \E k \in Sockets : OnTcpConnected(k) \/ OnTcpConnectFail(k)
  BY <1>4 DEF OnTcpConnected, OnTcpConnectFail, Settles, sinkVars
<1>5. CASE \E k \in Sockets : \E n \in 1..Sessions : TcpRead(k, n)
  <2>1. PICK k \in Sockets : \E n \in 1..Sessions : TcpRead(k, n)
    BY <1>5
  <2>2. PICK n : TcpRead(k, n)
    BY <2>1
  <2>3. n \in Nat
    BY <2>2 DEF TcpRead
  <2> QED
    BY <2>2, <2>3
<1> QED
  BY <1>1, <1>2, <1>3, <1>4, <1>5 DEF Next

-----------------------------------------------------------------------------
(* Types.                                                                  *)
LEMMA SendTypes ==
  ASSUME Types, NEW h \in Headers, Send(h)
  PROVE  (udp \subseteq Headers /\ conn \in [Sockets -> {"none", "connecting", "open", "failed"}]
          /\ stream \in [Sockets -> Seq(Headers)] /\ pending \in [Sockets -> Seq(Headers)])'
<1> DEFINE k == Socket(h.sid, h.from)
<1> HIDE DEF k
<1>0. /\ udp \subseteq Headers /\ conn \in [Sockets -> {"none", "connecting", "open", "failed"}]
      /\ stream \in [Sockets -> Seq(Headers)] /\ pending \in [Sockets -> Seq(Headers)]
  BY DEF Types
<1>1. CASE Proto[h.sid] = "udp"
  BY <1>0, <1>1 DEF Send
<1>2. CASE Proto[h.sid] # "udp"
  <2>1. /\ udp' = udp
        /\ conn' = [conn EXCEPT ![k] = IF @ = "none" THEN "connecting" ELSE @]
        /\ \/ stream' = [stream EXCEPT ![k] = Append(@, h)] /\ pending' = pending
           \/ pending' = [pending EXCEPT ![k] = <<h>>] /\ stream' = stream
    BY <1>2 DEF Send, k
  <2>2. conn' \in [Sockets -> {"none", "connecting", "open", "failed"}]
    BY <1>0, <2>1
  <2>3. \A q \in Seq(Headers) : Append(q, h) \in Seq(Headers) /\ <<h>> \in Seq(Headers)
    OBVIOUS
  <2>4. stream' \in [Sockets -> Seq(Headers)] /\ pending' \in [Sockets -> Seq(Headers)]
    BY <1>0, <2>1, <2>3
  <2> QED
    BY <1>0, <2>1, <2>2, <2>4
<1> QED
  BY <1>1, <1>2

LEMMA MeasureTypes ==
  ASSUME Types, NEW s \in Session, MaybeMeasures(s)
  PROVE  /\ measured' \in [Session -> SUBSET Nat] /\ frame' \in [Session -> Frame]
         /\ udp' \subseteq Headers
         /\ conn' \in [Sockets -> {"none", "connecting", "open", "failed"}]
         /\ stream' \in [Sockets -> Seq(Headers)] /\ pending' \in [Sockets -> Seq(Headers)]
<1>1. CASE UNCHANGED <<measured, frame, netVars>>
  BY <1>1 DEF Types, netVars
<1>2. ASSUME NEW r \in Repeaters(s), NEW m \in Bit \X Bit, Measures(s, r, m)
      PROVE  /\ measured' \in [Session -> SUBSET Nat] /\ frame' \in [Session -> Frame]
             /\ [sid |-> s, from |-> r, m |-> m] \in Headers
             /\ Send([sid |-> s, from |-> r, m |-> m])
  <2>1. [sid |-> s, from |-> r, m |-> m] \in Headers
    BY HeaderType
  <2>2. r \in Nat
    BY DEF Repeaters
  <2>3. measured' \in [Session -> SUBSET Nat]
    BY <1>2, <2>2 DEF Measures, Types
  <2>4. \A f \in Frame : AfterMeasureBell(f, NoFrame, m[1], m[2]) \in Frame
    <3>1. <<m[2], m[1]>> \in Frame /\ NoFrame \in Frame
      BY DEF Frame, NoFrame, Bit
    <3> QED
      BY <3>1, FrameAlgebra DEF AfterMeasureBell
  <2>5. frame' \in [Session -> Frame]
    BY <1>2, <2>4 DEF Measures, Types
  <2> QED
    BY <1>2, <2>1, <2>3, <2>5 DEF Measures
<1>3. CASE \E r \in Repeaters(s), m \in Bit \X Bit : Measures(s, r, m)
  BY <1>2, <1>3, SendTypes
<1> QED
  BY <1>1, <1>3 DEF MaybeMeasures

LEMMA ApplyTypes ==
  ASSUME Types, NEW s \in Session, TryApply(s), haveF \subseteq haveF', haveF' \subseteq Session,
         accum' \in [Session -> Frame]
  PROVE  frame' \in [Session -> Frame] /\ done' \subseteq haveF'
<1>1. \A f \in Frame : XorFrame(f, accum'[s]) \in Frame
  BY FrameAlgebra
<1>2. frame \in [Session -> Frame] /\ done \subseteq haveF
  BY DEF Types
<1>3. CASE s \in haveF' \ done /\ HaveQ(s, half')
  <2>1. done' = done \cup {s} /\ frame' = [frame EXCEPT ![s] = XorFrame(@, accum'[s])]
    BY <1>3 DEF TryApply
  <2>2. frame' \in [Session -> Frame]
    BY <1>1, <1>2, <2>1
  <2> QED
    BY <1>2, <1>3, <2>1, <2>2
<1>4. CASE ~(s \in haveF' \ done /\ HaveQ(s, half'))
  BY <1>2, <1>4 DEF TryApply
<1> QED
  BY <1>3, <1>4

LEMMA RxTypes ==
  ASSUME Types, NEW h \in Headers, OnCtrlRx(h)
  PROVE  /\ accum' \in [Session -> Frame] /\ recv' \in [Session -> Nat]
         /\ haveF \subseteq haveF' /\ haveF' \subseteq Session
         /\ frame' \in [Session -> Frame] /\ done' \subseteq haveF'
<1> DEFINE s == h.sid
           o == <<h.m[2], h.m[1]>>
<1>1. s \in Session /\ o \in Frame
  BY HeaderFields
<1> HIDE DEF s, o
<1>2. /\ accum' = [accum EXCEPT ![s] = XorFrame(@, o)]
      /\ recv' = [recv EXCEPT ![s] = @ + 1]
      /\ haveF' = haveF \cup {s} \/ haveF' = haveF
      /\ TryApply(s) \/ UNCHANGED <<done, frame>>
  BY DEF OnCtrlRx, s, o
<1>3. \A f \in Frame : XorFrame(f, o) \in Frame
  BY <1>1, FrameAlgebra
<1>4. accum' \in [Session -> Frame] /\ recv' \in [Session -> Nat]
  BY <1>1, <1>2, <1>3 DEF Types
<1>5. haveF \subseteq haveF' /\ haveF' \subseteq Session
  BY <1>1, <1>2 DEF Types
<1>6. CASE TryApply(s)
  BY <1>1, <1>4, <1>5, <1>6, ApplyTypes
<1>7. CASE UNCHANGED <<done, frame>>
  <2>1. frame' \in [Session -> Frame] /\ done' \subseteq haveF'
    BY <1>5, <1>7 DEF Types
  <2> QED
    BY <1>4, <1>5, <2>1
<1> QED
  BY <1>2, <1>4, <1>5, <1>6, <1>7

HalfMoves(s, i, v) ==
  /\ half[s][i] = "flight"
  /\ half' = [half EXCEPT ![s][i] = v]

LEMMA HalfTypes ==
  ASSUME Types, NEW s \in Session,
         \/ half' = [half EXCEPT ![s] = [i \in Links(s) |-> "flight"]]
         \/ \E i \in Links(s), v \in HalfStates : half' = [half EXCEPT ![s][i] = v]
  PROVE  /\ DOMAIN half' = Session
         /\ \A t \in Session : half'[t] \in [Links(t) -> HalfStates]
         /\ \A t \in Session \ {s} : half'[t] = half[t]
<1>0. DOMAIN half = Session /\ \A t \in Session : half[t] \in [Links(t) -> HalfStates]
  BY DEF Types
<1>1. CASE half' = [half EXCEPT ![s] = [i \in Links(s) |-> "flight"]]
  <2>1. [i \in Links(s) |-> "flight"] \in [Links(s) -> HalfStates]
    BY DEF HalfStates
  <2> QED
    BY <1>0, <1>1, <2>1
<1>2. CASE \E i \in Links(s), v \in HalfStates : half' = [half EXCEPT ![s][i] = v]
  <2>1. PICK i \in Links(s), v \in HalfStates : half' = [half EXCEPT ![s][i] = v]
    BY <1>2
  <2>2. [half[s] EXCEPT ![i] = v] \in [Links(s) -> HalfStates]
    BY <1>0
  <2> QED
    BY <1>0, <2>1, <2>2
<1> QED
  BY <1>1, <1>2

(* Every step keeps the types.                                             *)
LEMMA TypesStep ==
  ASSUME Types, Next
  PROVE  Types'
<1>1. CASE \E s \in Session : Starts(s)
  <2>1. PICK s \in Session : Starts(s)
    BY <1>1
  <2>2. MaybeMeasures(s) /\ half' = [half EXCEPT ![s] = [i \in Links(s) |-> "flight"]]
    BY <2>1 DEF Starts
  <2>3. DOMAIN half' = Session /\ \A t \in Session : half'[t] \in [Links(t) -> HalfStates]
    BY <2>2, HalfTypes
  <2> QED
    BY <2>1, <2>2, <2>3, MeasureTypes DEF Types, Starts, sinkVars
<1>2. CASE \E s \in Session : \E i \in Links(s) : Lands(s, i)
  <2>s. PICK s \in Session : \E i \in Links(s) : Lands(s, i)
    BY <1>2
  <2>1. PICK i \in Links(s) : Lands(s, i)
    BY <2>s
  <2>2. half' = [half EXCEPT ![s][i] = "there"] /\ UNCHANGED <<started, accum, recv, haveF>>
    BY <2>1 DEF Lands
  <2>3. DOMAIN half' = Session /\ \A t \in Session : half'[t] \in [Links(t) -> HalfStates]
    BY <2>2, HalfTypes DEF HalfStates
  <2>4. CASE MaybeMeasures(s) /\ UNCHANGED done
    BY <2>2, <2>3, <2>4, MeasureTypes DEF Types
  <2>5. CASE UNCHANGED <<measured, netVars>> /\ TryApply(s)
    BY <2>2, <2>3, <2>5, ApplyTypes DEF Types, netVars
  <2> QED
    BY <2>1, <2>4, <2>5 DEF Lands
<1>3. CASE \E s \in Session : \E i \in Links(s) : LoseQubit(s, i)
  <2>s. PICK s \in Session : \E i \in Links(s) : LoseQubit(s, i)
    BY <1>3
  <2>1. PICK i \in Links(s) : LoseQubit(s, i)
    BY <2>s
  <2>2. half' = [half EXCEPT ![s][i] = "lost"]
        /\ UNCHANGED <<started, measured, frame, sinkVars, netVars>>
    BY <2>1 DEF LoseQubit
  <2>3. DOMAIN half' = Session /\ \A t \in Session : half'[t] \in [Links(t) -> HalfStates]
    BY <2>2, HalfTypes DEF HalfStates
  <2> QED
    BY <2>2, <2>3 DEF Types, sinkVars, netVars
<1>4. CASE \E h \in udp : UdpArrives(h)
  <2>1. PICK h \in udp : UdpArrives(h)
    BY <1>4
  <2>2. h \in Headers /\ OnCtrlRx(h) /\ udp' = udp \ {h}
        /\ UNCHANGED <<started, half, measured, conn, stream, pending>>
    BY <2>1 DEF UdpArrives, Types
  <2> QED
    BY <2>2, RxTypes DEF Types
<1>5. CASE \E h \in udp : UdpLost(h) /\ Settles
  BY <1>5 DEF Types, UdpLost, Settles, sinkVars
<1>6. CASE \E k \in Sockets : OnTcpConnected(k) /\ Settles
  <2>1. PICK k \in Sockets : OnTcpConnected(k) /\ Settles
    BY <1>6
  <2>2. \A p, q \in Seq(Headers) : p \o q \in Seq(Headers) /\ <<>> \in Seq(Headers)
    OBVIOUS
  <2>3. stream \in [Sockets -> Seq(Headers)] /\ pending \in [Sockets -> Seq(Headers)]
    BY DEF Types
  <2>4. stream' \in [Sockets -> Seq(Headers)] /\ pending' \in [Sockets -> Seq(Headers)]
    BY <2>1, <2>2, <2>3 DEF OnTcpConnected
  <2> QED
    BY <2>1, <2>4 DEF Types, OnTcpConnected, Settles, sinkVars
<1>7. CASE \E k \in Sockets : OnTcpConnectFail(k) /\ Settles
  BY <1>7 DEF Types, OnTcpConnectFail, Settles, sinkVars
<1>8. CASE \E k \in Sockets : \E n \in Nat : TcpRead(k, n)
  <2>1. PICK k \in Sockets, n \in Nat : TcpRead(k, n)
    BY <1>8
  <2>2. /\ n \in 1..Len(stream[k])
        /\ stream' = [stream EXCEPT ![k] = SubSeq(@, n + 1, Len(@))]
        /\ UNCHANGED <<started, half, measured, udp, conn, pending>>
        /\ OnCtrlRx(Head(stream[k]))
    BY <2>1 DEF TcpRead
  <2>3. stream[k] \in Seq(Headers)
    BY DEF Types
  <2>4. Head(stream[k]) \in Headers /\ SubSeq(stream[k], n + 1, Len(stream[k])) \in Seq(Headers)
    BY <2>2, <2>3
  <2>5. stream' \in [Sockets -> Seq(Headers)]
    BY <2>2, <2>4 DEF Types
  <2> QED
    BY <2>2, <2>4, <2>5, RxTypes DEF Types
<1> QED
  BY <1>1, <1>2, <1>3, <1>4, <1>5, <1>6, <1>7, <1>8, StepCases

-----------------------------------------------------------------------------
(* Halves: one that is there stays, and one that was sent stays sent.      *)
Advances ==
  \A s \in Session : \A i \in Links(s) :
    /\ half[s][i] = "there" => half'[s][i] = "there"
    /\ half[s][i] # "none" => half'[s][i] # "none"

Unsent(s, h) == \A i \in Links(s) : h[s][i] = "none"
Unlost(h) == \A s \in Session \ MayLose : \A i \in Links(s) : h[s][i] # "lost"

(* What a step owes to HalfInv.                                            *)
LEMMA HalfKept ==
  ASSUME SwapAssumption, Types, HalfInv, Advances, Unlost(half'),
         \A s \in Session \ started' : Unsent(s, half'),
         \A s \in Session : \A r \in measured'[s] \ measured[s] :
           r \in Repeaters(s) /\ HasPrev(s, r, half') /\ HasNext(s, r, half'),
         \A s \in done' \ done : HaveQ(s, half')
  PROVE  HalfInv'
<1>1. \A s \in Session : \A r \in Repeaters(s) :
        /\ HasPrev(s, r, half) => HasPrev(s, r, half')
        /\ HasNext(s, r, half) => HasNext(s, r, half')
  <2> SUFFICES ASSUME NEW s \in Session, NEW r \in Repeaters(s)
               PROVE  /\ HasPrev(s, r, half) => HasPrev(s, r, half')
                      /\ HasNext(s, r, half) => HasNext(s, r, half')
    OBVIOUS
  <2>1. r \in Links(s) /\ r - 1 \in Links(s)
    BY LastType
  <2> QED
    BY <2>1 DEF Advances, HasPrev, HasNext
<1>2. \A s \in done : HaveQ(s, half')
  <2> SUFFICES ASSUME NEW s \in done PROVE HaveQ(s, half')
    OBVIOUS
  <2>1. s \in Session /\ HaveQ(s, half)
    BY DEF Types, HalfInv
  <2>2. Last(s) \in Links(s)
    BY <2>1, LastType
  <2> QED
    BY <2>1, <2>2 DEF Advances, HaveQ
<1>3. \A s \in Session : \A r \in measured[s] :
        r \in Repeaters(s) /\ HasPrev(s, r, half') /\ HasNext(s, r, half')
  BY <1>1 DEF HalfInv
<1>4. \A s \in Session : \A r \in measured'[s] :
        r \in Repeaters(s) /\ HasPrev(s, r, half') /\ HasNext(s, r, half')
  BY <1>3
<1>5. \A s \in done' : HaveQ(s, half')
  BY <1>2
<1>6. Session' = Session
  OBVIOUS
<1> QED
  BY <1>4, <1>5, <1>6 DEF HalfInv, Unsent, Unlost, HasPrev, HasNext, HaveQ

LEMMA MeasuredHas ==
  ASSUME Types, NEW s \in Session, MaybeMeasures(s)
  PROVE  /\ \A t \in Session : \A r \in measured'[t] \ measured[t] :
              r \in Repeaters(t) /\ HasPrev(t, r, half') /\ HasNext(t, r, half')
         /\ \A t \in Session \ {s} : measured'[t] = measured[t]
         /\ measured[s] \subseteq measured'[s]
<1>0. measured \in [Session -> SUBSET Nat]
  BY DEF Types
<1>1. CASE UNCHANGED <<measured, frame, netVars>>
  BY <1>1
<1>2. ASSUME NEW r \in Repeaters(s), NEW m \in Bit \X Bit, Measures(s, r, m)
      PROVE  /\ measured' = [measured EXCEPT ![s] = @ \cup {r}]
             /\ HasPrev(s, r, half') /\ HasNext(s, r, half')
  BY <1>2 DEF Measures
<1>3. CASE \E r \in Repeaters(s), m \in Bit \X Bit : Measures(s, r, m)
  <2>1. PICK r \in Repeaters(s) : /\ measured' = [measured EXCEPT ![s] = @ \cup {r}]
                                  /\ HasPrev(s, r, half') /\ HasNext(s, r, half')
    BY <1>2, <1>3
  <2>2. /\ \A t \in Session \ {s} : measured'[t] = measured[t]
        /\ measured'[s] = measured[s] \cup {r}
    BY <1>0, <2>1
  <2> QED
    BY <2>1, <2>2
<1> QED
  BY <1>1, <1>3 DEF MaybeMeasures

LEMMA ApplyHas ==
  ASSUME NEW s, TryApply(s)
  PROVE  /\ \A t \in done' \ done : HaveQ(t, half')
         /\ done' = done \/ (done' = done \cup {s} /\ s \in haveF' /\ s \notin done)
BY DEF TryApply

LEMMA MoveAdvances ==
  ASSUME Types, HalfInv, NEW s \in Session, NEW i \in Links(s), NEW v \in {"there", "lost"},
         HalfMoves(s, i, v), v = "lost" => s \in MayLose, started' = started
  PROVE  /\ Advances /\ Unlost(half')
         /\ \A t \in Session \ started' : Unsent(t, half')
<1>0. DOMAIN half = Session /\ \A t \in Session : half[t] \in [Links(t) -> HalfStates]
  BY DEF Types
<1>1. half[s][i] = "flight" /\ half' = [half EXCEPT ![s][i] = v]
  BY DEF HalfMoves
<1>2. \A t \in Session : \A j \in Links(t) :
        half'[t][j] = IF t = s /\ j = i THEN v ELSE half[t][j]
  BY <1>0, <1>1
<1>3. s \in started
  BY <1>1 DEF HalfInv
<1>4. Advances
  BY <1>1, <1>2 DEF Advances
<1>5. Unlost(half')
  BY <1>2 DEF Unlost, HalfInv
<1>6. \A t \in Session \ started' : Unsent(t, half')
  BY <1>2, <1>3 DEF Unsent, HalfInv
<1> QED
  BY <1>4, <1>5, <1>6

LEMMA StartAdvances ==
  ASSUME Types, HalfInv, NEW s \in Session, Starts(s)
  PROVE  /\ Advances /\ Unlost(half')
         /\ \A t \in Session \ started' : Unsent(t, half')
<1>0. DOMAIN half = Session
  BY DEF Types
<1>1. s \notin started /\ started' = started \cup {s}
      /\ half' = [half EXCEPT ![s] = [i \in Links(s) |-> "flight"]]
  BY DEF Starts
<1>2. /\ \A t \in Session \ {s} : half'[t] = half[t]
      /\ \A i \in Links(s) : half'[s][i] = "flight" /\ half[s][i] = "none"
  BY <1>0, <1>1 DEF HalfInv
<1>4. Advances
  BY <1>2 DEF Advances
<1>5. Unlost(half')
  BY <1>2 DEF Unlost, HalfInv
<1>6. \A t \in Session \ started' : Unsent(t, half')
  BY <1>1, <1>2 DEF Unsent, HalfInv
<1> QED
  BY <1>4, <1>5, <1>6

LEMMA StillAdvances ==
  ASSUME HalfInv, UNCHANGED <<started, half>>
  PROVE  /\ Advances /\ Unlost(half')
         /\ \A t \in Session \ started' : Unsent(t, half')
BY DEF Advances, Unlost, Unsent, HalfInv

(* Every step keeps what a repeater that has measured holds.               *)
LEMMA HalfStep ==
  ASSUME SwapAssumption, Types, HalfInv, Next
  PROVE  HalfInv'
<1>1. CASE \E s \in Session : Starts(s)
  <2>1. PICK s \in Session : Starts(s)
    BY <1>1
  <2>2. MaybeMeasures(s) /\ done' = done
    BY <2>1 DEF Starts, sinkVars
  <2> QED
    BY <2>1, <2>2, StartAdvances, MeasuredHas, HalfKept
<1>2. CASE \E s \in Session : \E i \in Links(s) : Lands(s, i)
  <2>s. PICK s \in Session : \E i \in Links(s) : Lands(s, i)
    BY <1>2
  <2>1. PICK i \in Links(s) : Lands(s, i)
    BY <2>s
  <2>2. HalfMoves(s, i, "there") /\ started' = started
    BY <2>1 DEF Lands, HalfMoves
  <2>3. Advances /\ Unlost(half') /\ \A t \in Session \ started' : Unsent(t, half')
    BY <2>2, MoveAdvances
  <2>4. CASE MaybeMeasures(s) /\ UNCHANGED done
    BY <2>3, <2>4, MeasuredHas, HalfKept
  <2>5. CASE UNCHANGED <<measured, netVars>> /\ TryApply(s)
    BY <2>3, <2>5, ApplyHas, HalfKept
  <2> QED
    BY <2>1, <2>4, <2>5 DEF Lands
<1>3. CASE \E s \in Session : \E i \in Links(s) : LoseQubit(s, i)
  <2>s. PICK s \in Session : \E i \in Links(s) : LoseQubit(s, i)
    BY <1>3
  <2>1. PICK i \in Links(s) : LoseQubit(s, i)
    BY <2>s
  <2>2. /\ HalfMoves(s, i, "lost") /\ s \in MayLose
        /\ started' = started /\ measured' = measured /\ done' = done
    BY <2>1 DEF LoseQubit, HalfMoves, sinkVars
  <2>3. Advances /\ Unlost(half') /\ \A t \in Session \ started' : Unsent(t, half')
    BY <2>2, MoveAdvances
  <2> QED
    BY <2>2, <2>3, HalfKept
<1>4. ASSUME NEW h, OnCtrlRx(h), UNCHANGED <<started, half, measured>>
      PROVE  HalfInv'
  <2>1. TryApply(h.sid) \/ done' = done
    BY <1>4 DEF OnCtrlRx
  <2>2. \A t \in done' \ done : HaveQ(t, half')
    BY <2>1, ApplyHas
  <2> QED
    BY <1>4, <2>2, StillAdvances, HalfKept
<1>5. CASE \E h \in udp : UdpArrives(h)
  BY <1>4, <1>5 DEF UdpArrives
<1>6. CASE \E k \in Sockets : \E n \in Nat : TcpRead(k, n)
  BY <1>4, <1>6 DEF TcpRead
<1>7. CASE Settles
  BY <1>7, StillAdvances, HalfKept DEF Settles, sinkVars
<1> QED
  BY <1>1, <1>2, <1>3, <1>5, <1>6, <1>7, StepCases

-----------------------------------------------------------------------------
(* Headers under way.                                                      *)
(* What Send does to one socket: nothing, or it takes the header.          *)
LEMMA SocketCases ==
  ASSUME Types, NEW h \in Headers, Send(h), NEW F, NEW heard, NEW k \in Sockets,
         SocketKept(F, heard, k)
  PROVE  \/ UNCHANGED <<conn[k], stream[k], pending[k]>>
         \/ /\ Proto[h.sid] # "udp" /\ Socket(h.sid, h.from) = k
            /\ Accepts(k)' = Accepts(k)
            /\ \/ Accepts(k) /\ stream'[k] = Append(stream[k], h) /\ pending'[k] = <<>>
               \/ ~Accepts(k) /\ stream'[k] = <<>> /\ pending'[k] = <<h>>
<1>0. /\ conn \in [Sockets -> {"none", "connecting", "open", "failed"}]
      /\ stream \in [Sockets -> Seq(Headers)] /\ pending \in [Sockets -> Seq(Headers)]
  BY DEF Types
<1>1. CASE Proto[h.sid] = "udp"
  BY <1>1 DEF Send
<1>2. CASE Proto[h.sid] # "udp"
  <2> DEFINE q == Socket(h.sid, h.from)
  <2> HIDE DEF q
  <2>1. /\ conn' = [conn EXCEPT ![q] = IF @ = "none" THEN "connecting" ELSE @]
        /\ IF Accepts(q)
           THEN stream' = [stream EXCEPT ![q] = Append(@, h)] /\ UNCHANGED pending
           ELSE pending' = [pending EXCEPT ![q] = <<h>>] /\ UNCHANGED stream
    BY <1>2 DEF Send, q, Accepts
  <2>2. CASE k # q
    BY <1>0, <2>1, <2>2
  <2>3. CASE k = q
    <3>1. conn'[k] = IF conn[k] = "none" THEN "connecting" ELSE conn[k]
      BY <1>0, <2>1, <2>3
    <3>2. Accepts(k)' = Accepts(k)
      BY <3>1 DEF Accepts
    <3>3. CASE Accepts(k)
      BY <1>0, <1>2, <2>1, <2>3, <3>2, <3>3 DEF SocketKept, q
    <3>4. CASE ~Accepts(k)
      BY <1>0, <1>2, <2>1, <2>3, <3>2, <3>4 DEF SocketKept, q
    <3> QED
      BY <3>3, <3>4
  <2> QED
    BY <2>2, <2>3
<1> QED
  BY <1>1, <1>2

(* A socket that takes the first header of its origin.                     *)
LEMMA SocketSends ==
  ASSUME SwapAssumption, Types, NEW h \in Headers, Send(h),
         NEW F, NEW G, NEW heard, NEW k \in Sockets,
         SocketKept(F, heard, k),
         \A g \in Headers :
           News(F, heard, measured, g) => News(G, heard, measured', g) /\ ~SameOrigin(g, h),
         News(G, heard, measured', h)
  PROVE  SocketKept(G, heard, k)'
<1>0. stream[k] \in Seq(Headers) /\ pending[k] \in Seq(Headers)
  BY DEF Types
<1>1. /\ \A i \in DOMAIN pending[k] :
           pending[k][i] \in Headers /\ OfSocket(G, heard, measured', k, pending[k][i])
      /\ \A i \in DOMAIN stream[k] :
           /\ stream[k][i] \in Headers /\ OfSocket(G, heard, measured', k, stream[k][i])
           /\ ~SameOrigin(stream[k][i], h)
  BY <1>0 DEF SocketKept, OfSocket
<1>2. CASE UNCHANGED <<conn[k], stream[k], pending[k]>>
  BY <1>1, <1>2 DEF SocketKept, Accepts
<1>3. CASE /\ Proto[h.sid] # "udp" /\ Socket(h.sid, h.from) = k
           /\ Accepts(k)' = Accepts(k)
           /\ \/ Accepts(k) /\ stream'[k] = Append(stream[k], h) /\ pending'[k] = <<>>
              \/ ~Accepts(k) /\ stream'[k] = <<>> /\ pending'[k] = <<h>>
  <2>0. OfSocket(G, heard, measured', k, h)
    <3>1. Proto[h.sid] = "tcp"
      BY <1>3, HeaderFields DEF SwapAssumption
    <3> QED
      BY <1>3, <3>1 DEF OfSocket
  <2>1. CASE Accepts(k) /\ stream'[k] = Append(stream[k], h) /\ pending'[k] = <<>>
    <3> DEFINE n == Len(stream[k])
    <3>1. /\ n \in Nat /\ DOMAIN stream[k] = 1..n
          /\ DOMAIN stream'[k] = 1..(n + 1)
          /\ \A i \in 1..n : stream'[k][i] = stream[k][i]
          /\ stream'[k][n + 1] = h
      BY <1>0, <2>1
    <3> HIDE DEF n
    <3>2. \A i \in 1..(n + 1) : i \in 1..n \/ i = n + 1
      BY <3>1
    <3>3. \A i \in DOMAIN stream'[k] : OfSocket(G, heard, measured', k, stream'[k][i])
      BY <1>1, <2>0, <3>1, <3>2
    <3>4. \A i, j \in DOMAIN stream'[k] : SameOrigin(stream'[k][i], stream'[k][j]) => i = j
      <4> SUFFICES ASSUME NEW i \in 1..(n + 1), NEW j \in 1..(n + 1),
                          SameOrigin(stream'[k][i], stream'[k][j])
                   PROVE  i = j
        BY <3>1
      <4>1. CASE i \in 1..n /\ j \in 1..n
        BY <3>1, <4>1 DEF SocketKept
      <4>2. CASE i = n + 1 /\ j \in 1..n
        BY <1>1, <3>1, <4>2 DEF SameOrigin
      <4>3. CASE i \in 1..n /\ j = n + 1
        BY <1>1, <3>1, <4>3
      <4> QED
        BY <3>2, <4>1, <4>2, <4>3
    <3>5. DOMAIN pending'[k] = {} /\ Len(pending'[k]) = 0
      BY <2>1
    <3> QED
      BY <1>3, <2>1, <3>3, <3>4, <3>5 DEF SocketKept
  <2>2. CASE ~Accepts(k) /\ stream'[k] = <<>> /\ pending'[k] = <<h>>
    <3>1. /\ DOMAIN pending'[k] = {1} /\ pending'[k][1] = h /\ Len(pending'[k]) = 1
          /\ DOMAIN stream'[k] = {}
      BY <2>2
    <3> QED
      BY <1>3, <2>0, <2>2, <3>1 DEF SocketKept
  <2> QED
    BY <1>3, <2>1, <2>2
<1> QED
  BY <1>2, <1>3, SocketCases

(* A packet is under way once.                                             *)
LEMMA UdpSends ==
  ASSUME Types, NEW h \in Headers, Send(h), NEW F, NEW G, NEW heard, UdpKept(F, heard),
         \A g \in Headers :
           News(F, heard, measured, g) => News(G, heard, measured', g) /\ ~SameOrigin(g, h),
         News(G, heard, measured', h)
  PROVE  UdpKept(G, heard)'
<1>0. udp \subseteq Headers
  BY DEF Types
<1>1. \A g \in udp : /\ Proto[g.sid] = "udp" /\ News(G, heard, measured', g) /\ ~SameOrigin(g, h)
                     /\ \A f \in udp : SameOrigin(f, g) => f = g
  BY <1>0 DEF UdpKept
<1>2. CASE Proto[h.sid] = "udp"
  <2>1. udp' = udp \cup {h}
    BY <1>2 DEF Send
  <2> QED
    BY <1>1, <1>2, <2>1 DEF UdpKept, SameOrigin
<1>3. CASE Proto[h.sid] # "udp"
  <2>1. udp' = udp
    BY <1>3 DEF Send
  <2> QED
    BY <1>1, <2>1 DEF UdpKept
<1> QED
  BY <1>2, <1>3

-----------------------------------------------------------------------------
(* Books: a repeater measures.                                             *)
(* The books are sums of outcomes of repeaters that have measured.         *)
LEMMA BookTypes ==
  ASSUME Types, HalfInv, NEW F \in AllSums, NEW heard \in Hearings, NEW s \in Session,
         BookKept(F, heard, s)
  PROVE  /\ F[s] \in Sums(s)
         /\ measured[s] \in SUBSET Repeaters(s) /\ heard[s] \in SUBSET Repeaters(s)
         /\ \A S \in SUBSET Repeaters(s) : F[s][S] \in Frame
         /\ s \in done => s \in haveF
         /\ s \in haveF => measured[s] = Repeaters(s)
<1>1. F[s] \in Sums(s)
  BY DEF AllSums
<1>2. \A S \in SUBSET Repeaters(s) : F[s][S] \in Frame
  BY <1>1 DEF Sums
<1>3. measured[s] \in SUBSET Repeaters(s)
  BY DEF HalfInv
<1>4. heard[s] \in SUBSET Repeaters(s)
  BY <1>3 DEF BookKept
<1>5. s \in done => s \in haveF
  BY DEF Types
<1>6. s \in haveF => measured[s] = Repeaters(s)
  BY <1>3, <1>4 DEF BookKept
<1> QED
  BY <1>1, <1>2, <1>3, <1>4, <1>5, <1>6

(* The outcome of a repeater enters the sums; its header is new.           *)
LEMMA MeasureKeeps ==
  ASSUME SwapAssumption, Types, HalfInv, NEW F \in AllSums, NEW heard \in Hearings, Kept(F, heard),
         NEW s \in Session, NEW r \in Repeaters(s), NEW m \in Bit \X Bit, Measures(s, r, m),
         UNCHANGED sinkVars
  PROVE  \E G \in AllSums : Kept(G, heard)'
<1> DEFINE o == <<m[2], m[1]>>
           h == [sid |-> s, from |-> r, m |-> m]
<1>0. /\ measured \in [Session -> SUBSET Nat] /\ frame \in [Session -> Frame]
      /\ F \in [Session -> UNION {Sums(t) : t \in Session}] /\ \A t \in Session : F[t] \in Sums(t)
  BY DEF Types, AllSums
<1>1. /\ o \in Frame /\ h \in Headers
      /\ h.sid = s /\ h.from = r /\ h.m = m
  BY HeaderType DEF Frame
<1>2. /\ measured' = [measured EXCEPT ![s] = @ \cup {r}]
      /\ frame' = [frame EXCEPT ![s] = AfterMeasureBell(@, NoFrame, m[1], m[2])]
      /\ Send(h) /\ r \notin measured[s]
  BY DEF Measures
<1>3. BookKept(F, heard, s) /\ \A t \in Session : BookKept(F, heard, t)
  BY DEF Kept
<1>4. /\ F[s] \in Sums(s)
      /\ measured[s] \in SUBSET Repeaters(s) /\ heard[s] \in SUBSET Repeaters(s)
      /\ \A S \in SUBSET Repeaters(s) : F[s][S] \in Frame
      /\ s \notin haveF /\ s \notin done
  BY <1>2, <1>3, BookTypes
<1> HIDE DEF o, h
<1>g. PICK g : Grown(g, F[s], s, r, o)
  BY <1>1, <1>4, SumsGrow
<1> DEFINE G == [F EXCEPT ![s] = g]
<1>5. /\ g \in Sums(s)
      /\ \A S \in SUBSET Repeaters(s) :
           r \notin S => g[S] = F[s][S] /\ g[S \cup {r}] = XorFrame(F[s][S], o)
      /\ \A q \in Repeaters(s) \ {r} : g[{q}] = F[s][{q}]
      /\ g[{r}] = o
  BY <1>g DEF Grown
<1>6. G \in AllSums /\ G[s] = g /\ \A t \in Session \ {s} : G[t] = F[t]
  BY <1>0, <1>5 DEF AllSums
<1> HIDE DEF G
<1>7. /\ measured'[s] = measured[s] \cup {r} /\ \A t \in Session \ {s} : measured'[t] = measured[t]
      /\ frame'[s] = XorFrame(frame[s], o) /\ \A t \in Session \ {s} : frame'[t] = frame[t]
  <2>1. frame[s] \in Frame
    BY <1>0
  <2>2. AfterMeasureBell(frame[s], NoFrame, m[1], m[2]) = XorFrame(frame[s], o)
    BY <1>1, <2>1, FrameAlgebra DEF AfterMeasureBell, o
  <2> QED
    BY <1>0, <1>2, <2>2
<1>8. \A t \in Session : BookKept(G, heard, t)'
  <2> SUFFICES ASSUME NEW t \in Session PROVE BookKept(G, heard, t)'
    OBVIOUS
  <2>1. CASE t # s
    BY <1>3, <1>6, <1>7, <2>1 DEF BookKept, sinkVars
  <2>2. CASE t = s
    <3>1. r \notin heard[s]
      BY <1>2, <1>3 DEF BookKept
    <3>2. G[s][heard[s]] = F[s][heard[s]]
      BY <1>4, <1>5, <1>6, <3>1
    <3>3. G[s][measured'[s]] = XorFrame(F[s][measured[s]], o)
      BY <1>2, <1>4, <1>5, <1>6, <1>7
    <3>4. frame'[s] = G[s][measured'[s]]
      BY <1>3, <1>4, <1>7, <3>3 DEF BookKept
    <3> QED
      BY <1>3, <1>4, <1>7, <2>2, <3>2, <3>4 DEF BookKept, sinkVars
  <2> QED
    BY <2>1, <2>2
<1>9. \A f \in Headers :
        News(F, heard, measured, f) => News(G, heard, measured', f) /\ ~SameOrigin(f, h)
  <2> SUFFICES ASSUME NEW f \in Headers, News(F, heard, measured, f)
               PROVE  News(G, heard, measured', f) /\ ~SameOrigin(f, h)
    OBVIOUS
  <2>1. /\ f.sid \in Session
        /\ f.from \in Repeaters(f.sid) /\ f.from \in measured[f.sid] \ heard[f.sid]
    BY HeaderFields DEF News
  <2>2. CASE f.sid # s
    BY <1>1, <1>6, <1>7, <2>1, <2>2 DEF News, SameOrigin
  <2>3. CASE f.sid = s
    <3>1. f.from # r
      BY <1>2, <2>1, <2>3
    <3>2. G[s][{f.from}] = F[s][{f.from}]
      BY <1>5, <1>6, <2>1, <2>3, <3>1
    <3> QED
      BY <1>1, <1>7, <2>3, <3>1, <3>2 DEF News, SameOrigin
  <2> QED
    BY <2>2, <2>3
<1>10. News(G, heard, measured', h)
  <2>1. r \notin heard[s]
    BY <1>2, <1>3 DEF BookKept
  <2> QED
    BY <1>1, <1>5, <1>6, <1>7, <2>1 DEF News, o
<1>11. UdpKept(G, heard)'
  BY <1>1, <1>2, <1>9, <1>10, UdpSends DEF Kept
<1>12. \A k \in Sockets : SocketKept(G, heard, k)'
  BY <1>1, <1>2, <1>9, <1>10, SocketSends DEF Kept
<1>13. Kept(G, heard)'
  BY <1>8, <1>11, <1>12 DEF Kept
<1> QED
  BY <1>6, <1>13

LEMMA MaybeKeeps ==
  ASSUME SwapAssumption, Types, HalfInv, NEW F \in AllSums, NEW heard \in Hearings, Kept(F, heard),
         NEW s \in Session, MaybeMeasures(s), UNCHANGED sinkVars
  PROVE  \E G \in AllSums : Kept(G, heard)'
<1>1. CASE UNCHANGED <<measured, frame, netVars>>
  <2>1. \A t \in Session : BookKept(F, heard, t)'
    BY <1>1 DEF Kept, BookKept, sinkVars
  <2>2. UdpKept(F, heard)'
    BY <1>1 DEF Kept, UdpKept, netVars
  <2>3. \A k \in Sockets : SocketKept(F, heard, k)'
    BY <1>1 DEF Kept, SocketKept, netVars, Accepts
  <2> QED
    BY <2>1, <2>2, <2>3 DEF Kept
<1>2. CASE \E r \in Repeaters(s), m \in Bit \X Bit : Measures(s, r, m)
  BY <1>2, MeasureKeeps
<1> QED
  BY <1>1, <1>2 DEF MaybeMeasures

(* The sink corrects the frame it has heard of from every repeater.        *)
LEMMA ApplyKeeps ==
  ASSUME SwapAssumption, Types, HalfInv, NEW s \in Session, TryApply(s),
         frame' \in [Session -> Frame],
         s \in haveF' \ done => accum'[s] = frame[s]
  PROVE  /\ frame'[s] = IF s \in done' \ done THEN NoFrame ELSE frame[s]
         /\ \A t \in Session \ {s} : frame'[t] = frame[t] /\ (t \in done' <=> t \in done)
         /\ done \subseteq done'
<1>0. frame \in [Session -> Frame]
  BY DEF Types
<1>1. CASE s \in haveF' \ done /\ HaveQ(s, half')
  <2>1. done' = done \cup {s} /\ frame' = [frame EXCEPT ![s] = XorFrame(@, accum'[s])]
    BY <1>1 DEF TryApply
  <2>2. XorFrame(frame[s], accum'[s]) = NoFrame
    BY <1>0, <1>1, FrameAlgebra
  <2> QED
    BY <1>0, <1>1, <2>1, <2>2
<1>2. CASE ~(s \in haveF' \ done /\ HaveQ(s, half'))
  <2>1. done' = done /\ frame' = frame
    BY <1>2 DEF TryApply
  <2> QED
    BY <2>1
<1> QED
  BY <1>1, <1>2

-----------------------------------------------------------------------------
(* Books: the sink hears of a repeater.                                    *)
Hears(H, F, heard, h) ==
  /\ H \in Hearings
  /\ \A t \in Session : BookKept(F, H, t)'
  /\ \A f \in Headers :
       News(F, heard, measured, f) /\ ~SameOrigin(f, h) => News(F, H, measured', f)

(* The header that is read tells of a repeater not heard before: the sink  *)
(* has heard of all of them exactly when it has counted as many.           *)
LEMMA HearBook ==
  ASSUME SwapAssumption, Types, HalfInv, NEW F \in AllSums, NEW heard \in Hearings,
         \A t \in Session : BookKept(F, heard, t),
         NEW h \in Headers, News(F, heard, measured, h), OnCtrlRx(h), measured' = measured
  PROVE  \E H : Hears(H, F, heard, h)
<1> DEFINE s == h.sid
           r == h.from
           o == <<h.m[2], h.m[1]>>
           H == [heard EXCEPT ![s] = @ \cup {r}]
           R == Repeaters(s)
<1>0. /\ heard \in [Session -> UNION {SUBSET Repeaters(t) : t \in Session}]
      /\ accum \in [Session -> Frame] /\ recv \in [Session -> Nat] /\ frame \in [Session -> Frame]
  BY DEF Types, Hearings
<1>1. s \in Session /\ r \in R /\ o \in Frame
  BY HeaderFields
<1>2. r \in measured[s] \ heard[s] /\ F[s][{r}] = o
  BY DEF News
<1>3. /\ F[s] \in Sums(s)
      /\ measured[s] \in SUBSET R /\ heard[s] \in SUBSET R
      /\ \A S \in SUBSET R : F[s][S] \in Frame
      /\ s \in done => s \in haveF
  BY <1>1, BookTypes
<1>4. /\ accum' = [accum EXCEPT ![s] = XorFrame(@, o)]
      /\ recv' = [recv EXCEPT ![s] = @ + 1]
      /\ haveF' = IF recv'[s] >= Cardinality(R) THEN haveF \cup {s} ELSE haveF
      /\ IF s \in haveF' THEN TryApply(s) ELSE UNCHANGED <<done, frame>>
      /\ frame' \in [Session -> Frame]
  BY RxTypes DEF OnCtrlRx
<1>5. BookKept(F, heard, s)
  BY <1>1
<1>6. IsFiniteSet(R) /\ Cardinality(R) \in Nat
  BY <1>1, LastType
<1> HIDE DEF s, r, o, R
<1>7. /\ accum'[s] = XorFrame(accum[s], o) /\ recv'[s] = recv[s] + 1
      /\ \A t \in Session \ {s} : accum'[t] = accum[t] /\ recv'[t] = recv[t]
  BY <1>0, <1>1, <1>4
<1>8. s \notin haveF /\ s \notin done
  <2>1. s \in haveF => heard[s] = R
    BY <1>5 DEF BookKept, R
  <2> QED
    BY <1>1, <1>2, <1>3, <2>1
<1>9. /\ H[s] = heard[s] \cup {r} /\ H[s] \in SUBSET R
      /\ \A t \in Session \ {s} : H[t] = heard[t]
      /\ H \in Hearings
  <2>1. heard[s] \cup {r} \in SUBSET R
    BY <1>1, <1>3
  <2>2. heard[s] \cup {r} \in UNION {SUBSET Repeaters(t) : t \in Session}
    BY <1>1, <2>1 DEF R
  <2> QED
    BY <1>0, <1>1, <2>1, <2>2 DEF Hearings
<1> HIDE DEF H
<1>10. /\ recv'[s] = Cardinality(H[s])
       /\ accum'[s] = F[s][H[s]]
       /\ recv'[s] >= Cardinality(R) => H[s] = R
  <2>1. IsFiniteSet(heard[s]) /\ IsFiniteSet(H[s])
    BY <1>3, <1>6, <1>9, FS_Subset
  <2>2. Cardinality(H[s]) = Cardinality(heard[s]) + 1
    BY <1>2, <1>9, <2>1, FS_AddElement
  <2>3. recv[s] = Cardinality(heard[s]) /\ accum[s] = F[s][heard[s]]
    BY <1>5 DEF BookKept
  <2>4. F[s][heard[s] \cup {r}] = XorFrame(F[s][heard[s]], F[s][{r}])
    <3>1. \A S \in SUBSET R : \A q \in R \ S : F[s][S \cup {q}] = XorFrame(F[s][S], F[s][{q}])
      BY <1>3 DEF Sums, R
    <3>2. heard[s] \in SUBSET R /\ r \in R \ heard[s]
      BY <1>1, <1>2, <1>3
    <3> QED
      BY <3>1, <3>2
  <2>5. /\ Cardinality(H[s]) <= Cardinality(R)
        /\ Cardinality(R) = Cardinality(H[s]) => R = H[s]
    BY <1>6, <1>9, FS_Subset
  <2>6. Cardinality(H[s]) \in Nat
    BY <2>1, FS_CardinalityType
  <2>7. recv'[s] = Cardinality(H[s])
    BY <1>7, <2>2, <2>3
  <2>8. recv'[s] >= Cardinality(R) => H[s] = R
    BY <1>6, <2>5, <2>6, <2>7
  <2>9. accum'[s] = F[s][H[s]]
    BY <1>2, <1>7, <1>9, <2>3, <2>4
  <2> QED
    BY <2>7, <2>8, <2>9
<1>11. H[s] \subseteq measured[s]
  BY <1>2, <1>5, <1>9 DEF BookKept
<1>12. s \in haveF' => H[s] = R /\ measured[s] = R
  BY <1>3, <1>4, <1>8, <1>10, <1>11
<1>13. \A t \in Session \ {s} : t \in haveF' <=> t \in haveF
  BY <1>4
<1>14. /\ frame'[s] = IF s \in done' THEN NoFrame ELSE frame[s]
       /\ \A t \in Session \ {s} : frame'[t] = frame[t] /\ (t \in done' <=> t \in done)
  <2>1. CASE s \in haveF'
    <3>1. accum'[s] = frame[s]
      BY <1>5, <1>8, <1>10, <1>12, <2>1 DEF BookKept
    <3>2. /\ frame'[s] = IF s \in done' \ done THEN NoFrame ELSE frame[s]
          /\ \A t \in Session \ {s} : frame'[t] = frame[t] /\ (t \in done' <=> t \in done)
      BY <1>1, <1>4, <2>1, <3>1, ApplyKeeps
    <3> QED
      BY <1>8, <3>2
  <2>2. CASE s \notin haveF'
    BY <1>4, <1>8, <2>2
  <2> QED
    BY <2>1, <2>2
<1>15. \A t \in Session : BookKept(F, H, t)'
  <2> SUFFICES ASSUME NEW t \in Session PROVE BookKept(F, H, t)'
    OBVIOUS
  <2>1. CASE t # s
    BY <1>7, <1>9, <1>13, <1>14, <2>1 DEF BookKept
  <2>2. CASE t = s
    <3>1. frame'[s] = IF s \in done' THEN NoFrame ELSE F[s][measured[s]]
      BY <1>5, <1>8, <1>14 DEF BookKept
    <3> QED
      BY <1>10, <1>11, <1>12, <2>2, <3>1 DEF BookKept, R
  <2> QED
    BY <2>1, <2>2
<1>16. \A f \in Headers :
         News(F, heard, measured, f) /\ ~SameOrigin(f, h) => News(F, H, measured', f)
  <2> SUFFICES ASSUME NEW f \in Headers, News(F, heard, measured, f), ~SameOrigin(f, h)
               PROVE  News(F, H, measured', f)
    OBVIOUS
  <2>1. f.sid \in Session
    BY HeaderFields
  <2>2. f.from \notin H[f.sid]
    BY <1>9, <2>1 DEF SameOrigin, News, s, r
  <2> QED
    BY <2>2 DEF News
<1> QED
  BY <1>9, <1>15, <1>16 DEF Hears

(* The headers that stay under way are of other repeaters.                 *)
LEMMA UdpHears ==
  ASSUME SwapAssumption, Types, HalfInv, NEW F \in AllSums, NEW heard \in Hearings, Kept(F, heard),
         NEW h \in udp, UdpArrives(h)
  PROVE  \E H \in Hearings : Kept(F, H)'
<1>0. h \in Headers /\ udp \subseteq Headers /\ stream \in [Sockets -> Seq(Headers)]
      /\ pending \in [Sockets -> Seq(Headers)]
  BY DEF Types
<1>1. /\ OnCtrlRx(h) /\ udp' = udp \ {h}
      /\ UNCHANGED <<measured, conn, stream, pending>>
  BY DEF UdpArrives
<1>2. /\ Proto[h.sid] = "udp" /\ News(F, heard, measured, h)
      /\ \A g \in udp : Proto[g.sid] = "udp" /\ News(F, heard, measured, g)
                        /\ \A f \in udp : SameOrigin(f, g) => f = g
  BY DEF Kept, UdpKept
<1>3. PICK H : Hears(H, F, heard, h)
  BY <1>0, <1>1, <1>2, HearBook DEF Kept
<1>4. /\ H \in Hearings /\ \A t \in Session : BookKept(F, H, t)'
      /\ \A f \in Headers :
           News(F, heard, measured, f) /\ ~SameOrigin(f, h) => News(F, H, measured', f)
  BY <1>3 DEF Hears
<1>5. UdpKept(F, H)'
  <2>1. \A g \in udp' : g \in udp /\ News(F, H, measured', g)
    BY <1>0, <1>1, <1>2, <1>4
  <2> QED
    BY <1>2, <2>1 DEF UdpKept
<1>6. \A k \in Sockets : SocketKept(F, H, k)'
  <2> SUFFICES ASSUME NEW k \in Sockets PROVE SocketKept(F, H, k)'
    OBVIOUS
  <2>0. SocketKept(F, heard, k)
    BY DEF Kept
  <2>1. \A g \in Headers : OfSocket(F, heard, measured, k, g) => OfSocket(F, H, measured', k, g)
    BY <1>2, <1>4 DEF OfSocket, SameOrigin
  <2>2. /\ \A i \in DOMAIN pending[k] : pending[k][i] \in Headers
        /\ \A i \in DOMAIN stream[k] : stream[k][i] \in Headers
    BY <1>0
  <2> QED
    BY <1>1, <2>0, <2>1, <2>2 DEF SocketKept, Accepts
<1>7. Kept(F, H)'
  BY <1>4, <1>5, <1>6 DEF Kept
<1> QED
  BY <1>4, <1>7

(* A read may skip headers of other sessions: they are heard of never.     *)
LEMMA TcpHears ==
  ASSUME SwapAssumption, Types, HalfInv, NEW F \in AllSums, NEW heard \in Hearings, Kept(F, heard),
         NEW k \in Sockets, NEW n \in Nat, TcpRead(k, n)
  PROVE  \E H \in Hearings : Kept(F, H)'
<1> DEFINE h == Head(stream[k])
<1>0. /\ udp \subseteq Headers
      /\ stream \in [Sockets -> Seq(Headers)] /\ pending \in [Sockets -> Seq(Headers)]
  BY DEF Types
<1>1. /\ OnCtrlRx(h) /\ n \in 1..Len(stream[k]) /\ conn[k] = "open"
      /\ stream' = [stream EXCEPT ![k] = SubSeq(@, n + 1, Len(@))]
      /\ UNCHANGED <<measured, udp, conn, pending>>
  BY DEF TcpRead
<1>2. /\ h \in Headers /\ h = stream[k][1] /\ 1 \in DOMAIN stream[k]
      /\ DOMAIN stream'[k] = 1..(Len(stream[k]) - n)
      /\ \A i \in DOMAIN stream'[k] : i + n \in DOMAIN stream[k] /\ stream'[k][i] = stream[k][i + n]
      /\ \A q \in Sockets \ {k} : stream'[q] = stream[q]
  <2>1. stream[k] \in Seq(Headers) /\ Len(stream[k]) \in Nat /\ DOMAIN stream[k] = 1..Len(stream[k])
    BY <1>0
  <2>2. stream'[k] = SubSeq(stream[k], n + 1, Len(stream[k]))
        /\ \A q \in Sockets \ {k} : stream'[q] = stream[q]
    BY <1>0, <1>1
  <2>3. /\ DOMAIN stream'[k] = 1..(Len(stream[k]) - n)
        /\ \A i \in DOMAIN stream'[k] : i + n \in DOMAIN stream[k] /\ stream'[k][i] = stream[k][i + n]
    BY <1>1, <2>1, <2>2
  <2>4. h = stream[k][1] /\ 1 \in DOMAIN stream[k] /\ h \in Headers
    BY <1>1, <2>1
  <2> QED
    BY <2>2, <2>3, <2>4
<1> HIDE DEF h
<1>3. SocketKept(F, heard, k) /\ \A q \in Sockets : SocketKept(F, heard, q)
  BY DEF Kept
<1>4. OfSocket(F, heard, measured, k, h)
  BY <1>2, <1>3 DEF SocketKept
<1>5. PICK H : Hears(H, F, heard, h)
  BY <1>1, <1>2, <1>4, HearBook DEF Kept, OfSocket
<1>6. /\ H \in Hearings /\ \A t \in Session : BookKept(F, H, t)'
      /\ \A f \in Headers :
           News(F, heard, measured, f) /\ ~SameOrigin(f, h) => News(F, H, measured', f)
  BY <1>5 DEF Hears
<1>7. UdpKept(F, H)'
  <2>1. \A g \in udp : g \in Headers /\ Proto[g.sid] = "udp" /\ News(F, heard, measured, g)
                       /\ \A f \in udp : SameOrigin(f, g) => f = g
    BY <1>0 DEF Kept, UdpKept
  <2>2. \A g \in udp : ~SameOrigin(g, h)
    BY <1>4, <2>1 DEF OfSocket, SameOrigin
  <2> QED
    BY <1>1, <1>6, <2>1, <2>2 DEF UdpKept
<1>8. \A g \in Headers : \A q \in Sockets :
        OfSocket(F, heard, measured, q, g) /\ ~SameOrigin(g, h) => OfSocket(F, H, measured', q, g)
  BY <1>6 DEF OfSocket
<1>9. SocketKept(F, H, k)'
  <2>1. Accepts(k) /\ Accepts(k)' /\ pending[k] = <<>>
    BY <1>1, <1>3 DEF Accepts, SocketKept
  <2>2. DOMAIN pending'[k] = {} /\ Len(pending'[k]) = 0 /\ pending'[k] = <<>>
    BY <1>1, <2>1
  <2>3. \A i \in DOMAIN stream'[k] :
          /\ i + n \in DOMAIN stream[k] /\ stream'[k][i] = stream[k][i + n] /\ i + n # 1
          /\ stream[k][i + n] \in Headers
    BY <1>0, <1>1, <1>2
  <2>4. \A i, j \in DOMAIN stream[k] : SameOrigin(stream[k][i], stream[k][j]) => i = j
    BY <1>3 DEF SocketKept
  <2>5. \A i \in DOMAIN stream'[k] : OfSocket(F, H, measured', k, stream'[k][i])
    <3> SUFFICES ASSUME NEW i \in DOMAIN stream'[k]
                 PROVE  OfSocket(F, H, measured', k, stream[k][i + n])
      BY <2>3
    <3>1. ~SameOrigin(stream[k][i + n], h)
      BY <1>2, <2>3, <2>4
    <3>2. OfSocket(F, heard, measured, k, stream[k][i + n])
      BY <1>3, <2>3 DEF SocketKept
    <3> QED
      BY <1>8, <2>3, <3>1, <3>2
  <2>6. \A i, j \in DOMAIN stream'[k] : SameOrigin(stream'[k][i], stream'[k][j]) => i = j
    <3> SUFFICES ASSUME NEW i \in DOMAIN stream'[k], NEW j \in DOMAIN stream'[k],
                        SameOrigin(stream[k][i + n], stream[k][j + n])
                 PROVE  i = j
      BY <2>3
    <3>1. i + n = j + n
      BY <2>3, <2>4
    <3> QED
      BY <1>2, <3>1
  <2> QED
    BY <2>1, <2>2, <2>5, <2>6 DEF SocketKept
<1>10. \A q \in Sockets \ {k} : SocketKept(F, H, q)'
  <2> SUFFICES ASSUME NEW q \in Sockets, q # k PROVE SocketKept(F, H, q)'
    OBVIOUS
  <2>1. /\ UNCHANGED <<conn[q], stream[q], pending[q]>> /\ SocketKept(F, heard, q)
        /\ (Accepts(q)' <=> Accepts(q))
    BY <1>1, <1>2, <1>3 DEF Accepts
  <2>2. \A g \in Headers : OfSocket(F, heard, measured, q, g) => OfSocket(F, H, measured', q, g)
    BY <1>4, <1>8 DEF OfSocket, SameOrigin
  <2>3. /\ \A i \in DOMAIN pending[q] : pending[q][i] \in Headers
        /\ \A i \in DOMAIN stream[q] : stream[q][i] \in Headers
    BY <1>0
  <2> QED
    BY <2>1, <2>2, <2>3 DEF SocketKept
<1>11. Kept(F, H)'
  BY <1>6, <1>7, <1>9, <1>10 DEF Kept
<1> QED
  BY <1>6, <1>11

(* The socket connects or fails, a packet or a half is lost.               *)
LEMMA SettleKeeps ==
  ASSUME SwapAssumption, Types, NEW F \in AllSums, NEW heard \in Hearings, Kept(F, heard),
         UNCHANGED <<measured, frame, sinkVars>>,
         udp' \subseteq udp,
         \A k \in Sockets :
           \/ UNCHANGED <<conn[k], stream[k], pending[k]>>
           \/ Accepts(k)' /\ stream'[k] = stream[k] \o pending[k] /\ pending'[k] = <<>>
           \/ ~Accepts(k)' /\ stream'[k] = <<>> /\ pending'[k] = pending[k]
  PROVE  Kept(F, heard)'
<1>0. stream \in [Sockets -> Seq(Headers)] /\ pending \in [Sockets -> Seq(Headers)]
  BY DEF Types
<1>1. \A t \in Session : BookKept(F, heard, t)'
  BY DEF Kept, BookKept, sinkVars
<1>2. UdpKept(F, heard)'
  BY DEF Kept, UdpKept
<1>3. \A k \in Sockets : SocketKept(F, heard, k)'
  <2> SUFFICES ASSUME NEW k \in Sockets PROVE SocketKept(F, heard, k)'
    OBVIOUS
  <2>0. SocketKept(F, heard, k) /\ stream[k] \in Seq(Headers) /\ pending[k] \in Seq(Headers)
    BY <1>0 DEF Kept
  <2>1. CASE UNCHANGED <<conn[k], stream[k], pending[k]>>
    BY <2>0, <2>1 DEF SocketKept, Accepts
  <2>2. CASE Accepts(k)' /\ stream'[k] = stream[k] \o pending[k] /\ pending'[k] = <<>>
    <3>1. DOMAIN pending'[k] = {} /\ Len(pending'[k]) = 0
      BY <2>2
    <3>2. CASE pending[k] = <<>>
      <4>1. stream'[k] = stream[k]
        BY <2>0, <2>2, <3>2
      <4> QED
        BY <2>0, <2>2, <3>1, <4>1 DEF SocketKept
    <3>3. CASE pending[k] # <<>>
      <4>1. stream[k] = <<>>
        BY <2>0, <3>3 DEF SocketKept
      <4>2. stream'[k] = pending[k]
        BY <2>0, <2>2, <4>1
      <4>3. \A i, j \in DOMAIN pending[k] : i = j
        BY <2>0 DEF SocketKept
      <4> QED
        BY <2>0, <2>2, <3>1, <4>2, <4>3 DEF SocketKept
    <3> QED
      BY <3>2, <3>3
  <2>3. CASE ~Accepts(k)' /\ stream'[k] = <<>> /\ pending'[k] = pending[k]
    <3>1. DOMAIN stream'[k] = {}
      BY <2>3
    <3> QED
      BY <2>0, <2>3, <3>1 DEF SocketKept
  <2> QED
    BY <2>1, <2>2, <2>3
<1> QED
  BY <1>1, <1>2, <1>3 DEF Kept

(* Every step keeps the books, with one more outcome or one more heard.    *)
LEMMA BookStep ==
  ASSUME SwapAssumption, Types, HalfInv, NEW F \in AllSums, NEW heard \in Hearings,
         Kept(F, heard), Next
  PROVE  \E G \in AllSums, H \in Hearings : Kept(G, H)'
<1>0. /\ conn \in [Sockets -> {"none", "connecting", "open", "failed"}]
      /\ stream \in [Sockets -> Seq(Headers)] /\ pending \in [Sockets -> Seq(Headers)]
  BY DEF Types
<1>1. CASE \E s \in Session : Starts(s)
  BY <1>1, MaybeKeeps DEF Starts
<1>2. CASE \E s \in Session : \E i \in Links(s) : Lands(s, i)
  <2>s. PICK s \in Session : \E i \in Links(s) : Lands(s, i)
    BY <1>2
  <2>1. PICK i \in Links(s) : Lands(s, i)
    BY <2>s
  <2>2. UNCHANGED <<accum, recv, haveF>>
    BY <2>1 DEF Lands
  <2>3. CASE MaybeMeasures(s) /\ UNCHANGED done
    BY <2>2, <2>3, MaybeKeeps DEF sinkVars
  <2>4. CASE UNCHANGED <<measured, netVars>> /\ TryApply(s)
    <3>0. BookKept(F, heard, s) /\ \A t \in Session : BookKept(F, heard, t)
      BY DEF Kept
    <3>1. s \in haveF => heard[s] = Repeaters(s) /\ measured[s] = Repeaters(s)
      BY <3>0, BookTypes DEF BookKept
    <3>2. s \in haveF' \ done => accum'[s] = frame[s]
      BY <2>2, <3>0, <3>1 DEF BookKept
    <3>3. frame' \in [Session -> Frame]
      BY <2>2, <2>4, ApplyTypes DEF Types
    <3>4. /\ frame'[s] = IF s \in done' \ done THEN NoFrame ELSE frame[s]
          /\ \A t \in Session \ {s} : frame'[t] = frame[t] /\ (t \in done' <=> t \in done)
          /\ done \subseteq done'
      BY <2>4, <3>2, <3>3, ApplyKeeps
    <3>5. \A t \in Session : BookKept(F, heard, t)'
      <4> SUFFICES ASSUME NEW t \in Session PROVE BookKept(F, heard, t)'
        OBVIOUS
      <4>1. CASE t # s
        BY <2>2, <2>4, <3>0, <3>4, <4>1 DEF BookKept
      <4>2. CASE t = s
        BY <2>2, <2>4, <3>0, <3>4, <4>2 DEF BookKept
      <4> QED
        BY <4>1, <4>2
    <3>6. UdpKept(F, heard)' /\ \A k \in Sockets : SocketKept(F, heard, k)'
      BY <2>4 DEF Kept, UdpKept, SocketKept, Accepts, netVars
    <3> QED
      BY <3>5, <3>6 DEF Kept
  <2> QED
    BY <2>1, <2>3, <2>4 DEF Lands
<1>3. CASE \E s \in Session : \E i \in Links(s) : LoseQubit(s, i)
  <2>1. UNCHANGED <<measured, frame, sinkVars, netVars>>
    BY <1>3 DEF LoseQubit
  <2> QED
    BY <2>1, SettleKeeps DEF netVars
<1>4. CASE \E h \in udp : UdpArrives(h)
  BY <1>4, UdpHears
<1>5. CASE \E h \in udp : UdpLost(h) /\ Settles
  <2>1. udp' \subseteq udp /\ UNCHANGED <<measured, frame, sinkVars, conn, stream, pending>>
    BY <1>5 DEF UdpLost
  <2> QED
    BY <2>1, SettleKeeps
<1>6. CASE \E k \in Sockets : OnTcpConnected(k) /\ Settles
  <2>1. PICK k \in Sockets : OnTcpConnected(k)
    BY <1>6
  <2>2. /\ conn' = [conn EXCEPT ![k] = "open"]
        /\ stream' = [stream EXCEPT ![k] = @ \o pending[k]]
        /\ pending' = [pending EXCEPT ![k] = <<>>]
        /\ UNCHANGED <<measured, frame, sinkVars, udp>>
    BY <2>1 DEF OnTcpConnected
  <2>3. \A q \in Sockets :
          \/ UNCHANGED <<conn[q], stream[q], pending[q]>>
          \/ Accepts(q)' /\ stream'[q] = stream[q] \o pending[q] /\ pending'[q] = <<>>
    BY <1>0, <2>2 DEF Accepts
  <2> QED
    BY <2>2, <2>3, SettleKeeps
<1>7. CASE \E k \in Sockets : OnTcpConnectFail(k) /\ Settles
  <2>1. PICK k \in Sockets : OnTcpConnectFail(k)
    BY <1>7
  <2>2. /\ conn' = [conn EXCEPT ![k] = "failed"]
        /\ stream' = [stream EXCEPT ![k] = <<>>]
        /\ UNCHANGED <<measured, frame, sinkVars, udp, pending>>
    BY <2>1 DEF OnTcpConnectFail
  <2>3. \A q \in Sockets :
          \/ UNCHANGED <<conn[q], stream[q], pending[q]>>
          \/ ~Accepts(q)' /\ stream'[q] = <<>> /\ pending'[q] = pending[q]
    BY <1>0, <2>2 DEF Accepts
  <2> QED
    BY <2>2, <2>3, SettleKeeps
<1>8. CASE \E k \in Sockets : \E n \in Nat : TcpRead(k, n)
  BY <1>8, TcpHears
<1> QED
  BY <1>1, <1>2, <1>3, <1>4, <1>5, <1>6, <1>7, <1>8, StepCases

-----------------------------------------------------------------------------
(* The invariant.                                                          *)
LEMMA InvInit ==
  ASSUME SwapAssumption, Init
  PROVE  SwapInv
<1>1. Types
  <2>1. NoFrame \in Frame
    BY DEF NoFrame, Frame, Bit
  <2>2. /\ \A s \in Session : half[s] \in [Links(s) -> HalfStates]
        /\ DOMAIN half = Session
    BY DEF Init, HalfStates
  <2>3. /\ frame \in [Session -> Frame] /\ accum \in [Session -> Frame]
        /\ measured \in [Session -> SUBSET Nat] /\ recv \in [Session -> Nat]
    BY <2>1 DEF Init
  <2>4. <<>> \in Seq(Headers)
    OBVIOUS
  <2>5. /\ conn \in [Sockets -> {"none", "connecting", "open", "failed"}]
        /\ stream \in [Sockets -> Seq(Headers)] /\ pending \in [Sockets -> Seq(Headers)]
    BY <2>4 DEF Init
  <2> QED
    BY <2>2, <2>3, <2>5 DEF Types, Init
<1>2. HalfInv
  BY DEF HalfInv, Init
<1> DEFINE F == [s \in Session |-> [S \in SUBSET Repeaters(s) |-> NoFrame]]
           heard == [s \in Session |-> {}]
<1>3. F \in AllSums
  <2>1. NoFrame \in Frame /\ XorFrame(NoFrame, NoFrame) = NoFrame
    BY DEF NoFrame, Frame, Bit, XorFrame, XorBit
  <2>2. \A s \in Session : F[s] \in Sums(s)
    <3> SUFFICES ASSUME NEW s \in Session PROVE F[s] \in Sums(s)
      OBVIOUS
    <3>1. F[s] \in [SUBSET Repeaters(s) -> Frame]
      BY <2>1
    <3>2. \A S \in SUBSET Repeaters(s) : F[s][S] = NoFrame
      OBVIOUS
    <3>3. \A S \in SUBSET Repeaters(s) : \A r \in Repeaters(s) \ S :
            F[s][S \cup {r}] = XorFrame(F[s][S], F[s][{r}])
      <4> SUFFICES ASSUME NEW S \in SUBSET Repeaters(s), NEW r \in Repeaters(s) \ S
                   PROVE  F[s][S \cup {r}] = XorFrame(F[s][S], F[s][{r}])
        OBVIOUS
      <4>1. S \cup {r} \in SUBSET Repeaters(s) /\ {r} \in SUBSET Repeaters(s)
        OBVIOUS
      <4> QED
        BY <2>1, <3>2, <4>1
    <3> HIDE DEF F
    <3> QED
      BY <3>1, <3>2, <3>3 DEF Sums
  <2>3. F = [s \in Session |-> F[s]]
    OBVIOUS
  <2> HIDE DEF F
  <2> QED
    BY <2>2, <2>3 DEF AllSums
<1>4. heard \in Hearings
  BY DEF Hearings
<1>5. \A s \in Session : BookKept(F, heard, s)
  BY FS_EmptySet DEF BookKept, Init
<1>6. UdpKept(F, heard)
  BY DEF UdpKept, Init
<1>7. \A k \in Sockets : SocketKept(F, heard, k)
  <2> SUFFICES ASSUME NEW k \in Sockets PROVE SocketKept(F, heard, k)
    OBVIOUS
  <2>1. stream[k] = <<>> /\ pending[k] = <<>>
    BY DEF Init
  <2>2. DOMAIN stream[k] = {} /\ DOMAIN pending[k] = {} /\ Len(pending[k]) = 0
    BY <2>1
  <2> HIDE DEF F, heard
  <2> QED
    BY <2>1, <2>2 DEF SocketKept
<1> HIDE DEF F, heard
<1> QED
  BY <1>1, <1>2, <1>3, <1>4, <1>5, <1>6, <1>7 DEF SwapInv, Kept

LEMMA InvStep ==
  ASSUME SwapAssumption, SwapInv, [Next]_vars
  PROVE  SwapInv'
<1>0. Types /\ HalfInv
  BY DEF SwapInv
<1>1. PICK F \in AllSums, heard \in Hearings : Kept(F, heard)
  BY DEF SwapInv
<1>2. CASE Next
  <2>1. \E G \in AllSums, H \in Hearings : Kept(G, H)'
    BY <1>0, <1>1, <1>2, BookStep
  <2> QED
    BY <1>0, <1>2, <2>1, TypesStep, HalfStep DEF SwapInv
<1>3. CASE UNCHANGED vars
  <2>1. Types' /\ HalfInv'
    BY <1>0, <1>3 DEF vars, Types, HalfInv, HasPrev, HasNext, HaveQ
  <2>2. Kept(F, heard)'
    BY <1>0, <1>1, <1>3, SettleKeeps DEF vars, sinkVars
  <2> QED
    BY <2>1, <2>2 DEF SwapInv
<1> QED
  BY <1>2, <1>3

(* The invariant holds of every behaviour.                                 *)
THEOREM SwapInvariant ==
  ASSUME SwapAssumption
  PROVE  Spec => []SwapInv
<1>1. Init => SwapInv
  BY InvInit
<1>2. SwapInv /\ [Next]_vars => SwapInv'
  BY InvStep
<1> QED
  BY <1>1, <1>2, PTL DEF Spec

-----------------------------------------------------------------------------
(* What follows of a session.                                              *)
LEMMA SessionFacts ==
  ASSUME SwapAssumption, SwapInv, NEW s \in Session
  PROVE  /\ measured[s] \subseteq Repeaters(s)
         /\ recv[s] \in 0..Cardinality(Repeaters(s))
         /\ s \in haveF => measured[s] = Repeaters(s) /\ (s \notin done => accum[s] = frame[s])
         /\ s \in done => s \in haveF /\ frame[s] = NoFrame
<1>0. Types /\ HalfInv
  BY DEF SwapInv
<1>1. PICK F \in AllSums, heard \in Hearings : Kept(F, heard)
  BY DEF SwapInv
<1>2. BookKept(F, heard, s)
  BY <1>1 DEF Kept
<1>3. measured[s] \in SUBSET Repeaters(s) /\ heard[s] \in SUBSET Repeaters(s)
      /\ (s \in done => s \in haveF) /\ (s \in haveF => measured[s] = Repeaters(s))
  BY <1>0, <1>2, BookTypes
<1>4. IsFiniteSet(Repeaters(s)) /\ Cardinality(Repeaters(s)) \in Nat
  BY LastType
<1>5. Cardinality(heard[s]) <= Cardinality(Repeaters(s))
  BY <1>3, <1>4, FS_Subset
<1>6. recv[s] \in Nat /\ recv[s] = Cardinality(heard[s])
  BY <1>0, <1>2 DEF Types, BookKept
<1>7. recv[s] \in 0..Cardinality(Repeaters(s))
  BY <1>4, <1>5, <1>6
<1>8. s \in haveF => measured[s] = Repeaters(s) /\ (s \notin done => accum[s] = frame[s])
  BY <1>2, <1>3 DEF BookKept
<1>9. s \in done => s \in haveF /\ frame[s] = NoFrame
  BY <1>2, <1>3 DEF BookKept
<1> QED
  BY <1>3, <1>7, <1>8, <1>9

LEMMA InvType ==
  ASSUME SwapAssumption, SwapInv
  PROVE  TypeOK
<1>1. Types
  BY DEF SwapInv
<1>2. \A s \in Session :
       /\ half[s] \in [Links(s) -> {"none", "flight", "there", "lost"}]
       /\ measured[s] \subseteq Repeaters(s)
       /\ frame[s] \in Frame /\ accum[s] \in Frame
       /\ recv[s] \in 0..Cardinality(Repeaters(s))
  BY <1>1, SessionFacts DEF Types, HalfStates
<1>3. \A k \in Sockets : \A q \in {stream[k], pending[k]} : \A i \in DOMAIN q : q[i] \in Headers
  BY <1>1 DEF Types
<1> QED
  BY <1>1, <1>2, <1>3 DEF Types, TypeOK

LEMMA InvResolved ==
  ASSUME SwapAssumption, SwapInv
  PROVE  ResolvedFromAll
<1>1. haveF \subseteq Session
  BY DEF SwapInv, Types
<1> QED
  BY <1>1, SessionFacts DEF ResolvedFromAll

\* No half that is sent to a Prev endpoint may be lost.
PrevSpared == \A s \in MayLose : 1 \in LeftOf[s]

(* Each link of a session that is done has the half its repeater measured. *)
LEMMA InvIntact ==
  ASSUME SwapAssumption, PrevSpared, SwapInv
  PROVE  SwappedIntact
<1> SUFFICES ASSUME NEW s \in done
             PROVE  /\ measured[s] = Repeaters(s) /\ frame[s] = NoFrame
                    /\ \A i \in Links(s) :
                         half[s][i] = "there" \/ (i = 1 /\ 1 \notin LeftOf[s] /\ half[s][1] = "flight")
  BY DEF SwappedIntact
<1>0. Types /\ HalfInv
  BY DEF SwapInv
<1>1. s \in Session
  BY <1>0 DEF Types
<1>2. measured[s] = Repeaters(s) /\ frame[s] = NoFrame
  BY <1>1, SessionFacts
<1>3. /\ HaveQ(s, half)
      /\ \A r \in Repeaters(s) : HasPrev(s, r, half) /\ HasNext(s, r, half)
  BY <1>0, <1>1, <1>2 DEF HalfInv
<1> SUFFICES ASSUME NEW i \in Links(s)
             PROVE  half[s][i] = "there" \/ (i = 1 /\ 1 \notin LeftOf[s] /\ half[s][1] = "flight")
  BY <1>2
<1>4. Last(s) \in Nat \ {0} /\ Last(s) \in LeftOf[s] /\ i \in 1..Last(s)
  BY <1>1, LastType DEF Links
<1>5. CASE i = Last(s)
  BY <1>3, <1>5 DEF HaveQ
<1>6. CASE i # Last(s) /\ i \in LeftOf[s]
  <2>1. i + 1 \in Repeaters(s) /\ (i + 1) - 1 = i
    BY <1>4, <1>6 DEF Repeaters
  <2>2. HasPrev(s, i + 1, half)
    BY <1>3, <2>1
  <2> QED
    BY <1>6, <2>1, <2>2 DEF HasPrev
<1>7. CASE i # 1 /\ i \notin LeftOf[s]
  <2>1. i \in Repeaters(s)
    BY <1>4, <1>7 DEF Repeaters
  <2> QED
    BY <1>3, <1>7, <2>1 DEF HasNext
<1>8. CASE i # Last(s) /\ i = 1 /\ 1 \notin LeftOf[s]
  <2>1. 2 \in Repeaters(s) /\ 2 - 1 = 1
    BY <1>4, <1>8 DEF Repeaters
  <2>2. HasPrev(s, 2, half)
    BY <1>3, <2>1
  <2>3. half[s][1] # "none"
    BY <1>8, <2>1, <2>2 DEF HasPrev
  <2>4. half[s][1] # "lost"
    BY <1>0, <1>1, <1>8 DEF PrevSpared, HalfInv
  <2>5. half[s][1] \in HalfStates
    BY <1>0, <1>1, <1>8 DEF Types
  <2> QED
    BY <1>8, <2>3, <2>4, <2>5 DEF HalfStates
<1> QED
  BY <1>4, <1>5, <1>6, <1>7, <1>8

-----------------------------------------------------------------------------
(* The frame a sink resolves is the sum of the outcomes of all repeaters   *)
(* of the path, whatever the order of the headers, and whatever socket or  *)
(* port they share (model/q2ns-swap-app.cc:292).                           *)
THEOREM SwapResolvedFromAll ==
  ASSUME SwapAssumption
  PROVE  Spec => [](TypeOK /\ ResolvedFromAll)
<1>1. SwapInv => TypeOK /\ ResolvedFromAll
  BY InvType, InvResolved
<1> QED
  BY <1>1, SwapInvariant, PTL

(* A session that is done has joined every link of its path, no half was   *)
(* lost and its ends share |Phi+>, whatever its sockets lost.  Nothing     *)
(* waits for a half that is on its way to the Prev endpoint, so that one   *)
(* must not be lost; the plans of SwapHelper generate it there             *)
(* (helper/q2ns-swap-helper.cc:197, model/q2ns-swap-app.cc:393).           *)
THEOREM SwapIsSafe ==
  ASSUME SwapAssumption, PrevSpared
  PROVE  Spec => []SwapSafe
<1>1. SwapInv => SwapSafe
  BY InvType, InvResolved, InvIntact DEF SwapSafe
<1> QED
  BY <1>1, SwapInvariant, PTL

-----------------------------------------------------------------------------
(* The service.                                                            *)
JoinFacts ==
  /\ \A s \in Session : measured[s] \subseteq Repeaters(s)
  /\ \A s \in haveF : measured[s] = Repeaters(s)

LEMMA InvJoin ==
  ASSUME SwapAssumption, SwapInv
  PROVE  JoinFacts
<1>1. haveF \subseteq Session
  BY DEF SwapInv, Types
<1> QED
  BY <1>1, SessionFacts DEF JoinFacts

(* A session joins its chain or stays as it is.                            *)
LEMMA JoinStep ==
  ASSUME SwapInv, JoinFacts', NEW s \in Session, MaybeMeasures(s), UNCHANGED done,
         started' \in {started, started \cup {s}}
  PROVE  [Service!Next]_<<Joined, done>>
<1>0. Types
  BY DEF SwapInv
<1>1. /\ \A t \in Session \ {s} : measured'[t] = measured[t]
      /\ measured[s] \subseteq measured'[s]
  BY <1>0, MeasuredHas
<1>2. measured'[s] \subseteq Repeaters(s) /\ started \subseteq Session
  BY <1>0 DEF JoinFacts, Types
<1>3. \A t \in Session \ {s} : t \in Joined' <=> t \in Joined
  BY <1>1, <1>2 DEF Joined
<1>4. s \in Joined => s \in Joined'
  BY <1>1, <1>2 DEF Joined
<1>5. Joined \subseteq Session /\ Joined' \subseteq Session
  BY <1>2 DEF Joined
<1>6. Joined' = Joined \/ Joined' = Joined \cup {s}
  BY <1>3, <1>4, <1>5
<1> QED
  BY <1>6 DEF Service!Next, Service!Begin

LEMMA CompleteStep ==
  ASSUME NEW s \in Session, TryApply(s), Joined' = Joined,
         s \in haveF' => s \in Joined
  PROVE  [Service!Next]_<<Joined, done>>
<1>1. done' = done \/ (done' = done \cup {s} /\ s \in haveF' /\ s \notin done)
  BY ApplyHas
<1> QED
  BY <1>1 DEF Service!Next, Service!Complete

LEMMA RxService ==
  ASSUME SwapAssumption, SwapInv, JoinFacts', NEW h \in Headers, OnCtrlRx(h),
         UNCHANGED <<started, half, measured>>
  PROVE  [Service!Next]_<<Joined, done>>
<1>0. Types /\ HalfInv
  BY DEF SwapInv
<1>1. h.sid \in Session /\ h.from \in Repeaters(h.sid)
  BY HeaderFields
<1>2. Joined' = Joined
  BY DEF Joined
<1>3. CASE UNCHANGED <<done, frame>>
  BY <1>2, <1>3
<1>4. CASE TryApply(h.sid)
  <2>1. h.sid \in haveF' => h.sid \in Joined
    <3> SUFFICES ASSUME h.sid \in haveF' PROVE h.sid \in Joined
      OBVIOUS
    <3>1. measured[h.sid] = Repeaters(h.sid) /\ h.from \in measured[h.sid]
      BY <1>1 DEF JoinFacts
    <3>2. HasNext(h.sid, h.from, half)
      BY <1>0, <1>1, <3>1 DEF HalfInv
    <3>3. half[h.sid][h.from] # "none" /\ h.from \in Links(h.sid)
      BY <1>1, <3>2, LastType DEF HasNext
    <3>4. h.sid \in started
      BY <1>0, <1>1, <3>3 DEF HalfInv
    <3> QED
      BY <3>1, <3>4 DEF Joined
  <2> QED
    BY <1>1, <1>2, <1>4, <2>1, CompleteStep
<1> QED
  BY <1>3, <1>4 DEF OnCtrlRx

LEMMA ServiceStep ==
  ASSUME SwapAssumption, SwapInv, JoinFacts, JoinFacts', [Next]_vars
  PROVE  [Service!Next]_<<Joined, done>>
<1>0. Types /\ HalfInv
  BY DEF SwapInv
<1>s. ASSUME UNCHANGED <<started, measured, done>> PROVE [Service!Next]_<<Joined, done>>
  BY <1>s DEF Joined
<1>1. CASE \E s \in Session : Starts(s)
  BY <1>1, JoinStep DEF Starts, sinkVars
<1>2. CASE \E s \in Session : \E i \in Links(s) : Lands(s, i)
  <2>s. PICK s \in Session : \E i \in Links(s) : Lands(s, i)
    BY <1>2
  <2>1. PICK i \in Links(s) : Lands(s, i)
    BY <2>s
  <2>2. half[s][i] = "flight" /\ UNCHANGED <<started, haveF>>
    BY <2>1 DEF Lands
  <2>3. CASE MaybeMeasures(s) /\ UNCHANGED done
    BY <2>2, <2>3, JoinStep
  <2>4. CASE UNCHANGED <<measured, netVars>> /\ TryApply(s)
    <3>1. s \in started
      BY <1>0, <2>2 DEF HalfInv
    <3>2. s \in haveF' => s \in Joined
      BY <2>2, <3>1 DEF JoinFacts, Joined
    <3>3. Joined' = Joined
      BY <2>2, <2>4 DEF Joined
    <3> QED
      BY <2>4, <3>2, <3>3, CompleteStep
  <2> QED
    BY <2>1, <2>3, <2>4 DEF Lands
<1>3. CASE \E s \in Session : \E i \in Links(s) : LoseQubit(s, i)
  BY <1>3, <1>s DEF LoseQubit, sinkVars
<1>4. CASE \E h \in udp : UdpArrives(h)
  BY <1>0, <1>4, RxService DEF UdpArrives, Types
<1>5. CASE Settles
  BY <1>5, <1>s DEF Settles, sinkVars
<1>6. CASE \E k \in Sockets : \E n \in Nat : TcpRead(k, n)
  <2>1. PICK k \in Sockets, n \in Nat : TcpRead(k, n)
    BY <1>6
  <2>2. stream[k] \in Seq(Headers) /\ n \in 1..Len(stream[k])
    BY <1>0, <2>1 DEF Types, TcpRead
  <2>3. Head(stream[k]) \in Headers
    BY <2>2
  <2> QED
    BY <2>1, <2>3, RxService DEF TcpRead
<1>7. CASE UNCHANGED vars
  BY <1>7, <1>s DEF vars
<1> QED
  BY <1>1, <1>2, <1>3, <1>4, <1>5, <1>6, <1>7, StepCases

(* Every session is a session of SessionService: it is done once, after    *)
(* its repeaters have joined the chain, and stays                          *)
(* (model/q2ns-swap-app.cc:300 and :393).                                  *)
THEOREM SwapImplementsService ==
  ASSUME SwapAssumption
  PROVE  Spec => ServiceSpec
<1>1. Init => Service!Init
  BY DEF Init, Service!Init, Joined
<1>2. SwapInv => JoinFacts
  BY InvJoin
<1>3. SwapInv /\ JoinFacts /\ JoinFacts' /\ [Next]_vars => [Service!Next]_<<Joined, done>>
  BY ServiceStep
<1>4. [Service!Next]_<<Joined, done>> => [Service!Next]_(Service!serviceVars)
  BY DEF Service!serviceVars
<1> QED
  BY <1>1, <1>2, <1>3, <1>4, SwapInvariant, PTL DEF Spec, ServiceSpec, Service!Spec

=============================================================================
