----------------------------- MODULE SwapChain ------------------------------
(***************************************************************************)
(* SwapApp (model/q2ns-swap-app.cc): sessions that join the links of a     *)
(* path into one pair between its ends.  Position 1 of a path is the Prev  *)
(* endpoint, the last is the Next endpoint (the sink) and those between    *)
(* are repeaters; link i joins positions i and i + 1.                      *)
(*                                                                         *)
(* The session's pairs are |Phi+> up to a frame (module BellFrames).  A    *)
(* Pauli may be moved along the chain, so the session has one frame: the   *)
(* sum of the outcomes of its repeaters and the correction of its sink.    *)
(*                                                                         *)
(* The start events of a session are at one time, before any arrival of    *)
(* what they send, so a start is one step.                                 *)
(***************************************************************************)
EXTENDS BellFrames, Sequences, FiniteSets

CONSTANTS
  Sessions,  \* number of sessions, in the order they were added
  Path,      \* the nodes of each session's path
  Port,      \* SessionConfig::ctrlPort
  Proto,     \* SessionConfig::proto
  LeftOf,    \* the links that their left end generates (genNext), others genPrev
  MayLose,   \* the sessions whose channels may lose qubits
  MayDrop,   \* the nodes whose packets and connections may be lost on the way
  Buffers,   \* the nodes whose TCP sockets accept data before they are connected
  PacketBytes,  \* what a header is sent in: itself or m_payloadBytes, if more
  SegmentBytes  \* what TCP sends and delivers as a whole

Session == 1..Sessions
Last(s) == Len(Path[s]) - 1
Links(s) == 1..Last(s)
Repeaters(s) == 2..Last(s)
Sink(s) == Path[s][Last(s) + 1]

\* uint16_t.
PortNumber == 0..65535

SwapAssumption ==
  /\ Sessions \in Nat \ {0}
  /\ \A s \in Session :
       /\ Last(s) \in Nat \ {0}
       /\ Port[s] \in PortNumber
       /\ Proto[s] \in {"udp", "tcp"}
       /\ LeftOf[s] \subseteq Links(s) /\ Last(s) \in LeftOf[s]
       /\ Cardinality({r \in Repeaters(s) : r \in LeftOf[s] /\ r - 1 \notin LeftOf[s]}) <= 1
  /\ MayLose \subseteq Session

VARIABLES
  started,   \* sessions whose start event has run
  half,      \* where the half of each link is that was sent to its other end
  measured,  \* repeaters of each session with haveBSM
  frame,     \* frame of each session's pair
  accum,     \* <<accumM2, accumM1>> of the sink
  recv,      \* recv of the sink
  haveF,     \* sessions whose sink has haveF
  done,      \* sessions whose sink has done
  udp,       \* UDP packets under way
  conn,      \* m_tcp: the state of each sender's socket
  stream,    \* headers each socket has accepted and its peer not read
  pending    \* m_tcpPendingOnce: at most one header for each socket

vars == <<started, half, measured, frame, accum, recv, haveF, done, udp,
          conn, stream, pending>>
netVars == <<udp, conn, stream, pending>>
sinkVars == <<accum, recv, haveF, done>>

\* One socket of a node for all sessions with one port and destination.
Socket(s, r) == [node |-> Path[s][r], port |-> Port[s], dst |-> Sink(s)]
Sockets == UNION {{Socket(s, r) : r \in Repeaters(s)} : s \in Session}

\* What a socket ever accepts fits in one segment: no packet is cut in two.
PacketsFit ==
  \A k \in Sockets :
    LET users(s) == {<<s, r>> : r \in {r \in Repeaters(s) : Socket(s, r) = k}}
    IN  PacketBytes * Cardinality(UNION {users(s) : s \in Session}) <= SegmentBytes

\* CtrlHeader, with the repeater that sent it.
Headers == UNION {{[sid |-> s, from |-> r, m |-> m] : r \in Repeaters(s), m \in Bit \X Bit} :
                    s \in Session}

\* EnsureSink: the first session to name a port of an endpoint decides its
\* protocol; later ones find the port taken.
EnsuredSink(s) ==
  LET same == {t \in Session : Port[t] = Port[s] /\ Sink(s) \in {Path[t][1], Sink(t)}}
  IN  Proto[CHOOSE t \in same : \A u \in same : t <= u] = Proto[s]

Init ==
  /\ started = {}
  /\ half = [s \in Session |-> [i \in Links(s) |-> "none"]]
  /\ measured = [s \in Session |-> {}]
  /\ frame = [s \in Session |-> NoFrame]
  /\ accum = [s \in Session |-> NoFrame]
  /\ recv = [s \in Session |-> 0]
  /\ haveF = {} /\ done = {}
  /\ udp = {}
  /\ conn = [k \in Sockets |-> "none"]
  /\ stream = [k \in Sockets |-> <<>>]
  /\ pending = [k \in Sockets |-> <<>>]

-----------------------------------------------------------------------------
(***************************************************************************)
(* MaybeDoBsmAndAnnounce.                                                  *)
(***************************************************************************)
\* qPrev and qNext of a repeater: made there, or arrived from the other end.
HasPrev(s, r, h) == IF r - 1 \in LeftOf[s] THEN h[s][r - 1] = "there" ELSE h[s][r - 1] # "none"
HasNext(s, r, h) == IF r \in LeftOf[s] THEN h[s][r] # "none" ELSE h[s][r] = "there"

Send(h) ==
  LET k == Socket(h.sid, h.from)
  IN  IF Proto[h.sid] = "udp"
      THEN udp' = udp \cup {h} /\ UNCHANGED <<conn, stream, pending>>
      ELSE /\ UNCHANGED udp
           /\ conn' = [conn EXCEPT ![k] = IF @ = "none" THEN "connecting" ELSE @]
           /\ IF conn[k] = "open" \/ (conn[k] # "failed" /\ k.node \in Buffers)
              THEN stream' = [stream EXCEPT ![k] = Append(@, h)] /\ UNCHANGED pending
              ELSE pending' = [pending EXCEPT ![k] = <<h>>] /\ UNCHANGED stream

MaybeDoBsmAndAnnounce(s, r) ==
  IF r \in Repeaters(s) \ measured[s] /\ HasPrev(s, r, half') /\ HasNext(s, r, half')
  THEN \E m \in Bit \X Bit :
         /\ measured' = [measured EXCEPT ![s] = @ \cup {r}]
         /\ frame' = [frame EXCEPT ![s] = AfterMeasureBell(@, NoFrame, m[1], m[2])]
         /\ Send([sid |-> s, from |-> r, m |-> m])
  ELSE UNCHANGED <<measured, frame, netVars>>

(***************************************************************************)
(* TryApply of the sink, after haveF and half are set.  The correction is  *)
(* X by accumM2 and Z by accumM1.                                          *)
(***************************************************************************)
HaveQ(s, h) == h[s][Last(s)] = "there"

Mutant_ApplyWithoutX(s) ==
  IF s \in haveF' \ done /\ HaveQ(s, half')
  THEN done' = done \cup {s} /\ frame' = [frame EXCEPT ![s] = XorFrame(@, <<0, accum'[s][2]>>)]
  ELSE UNCHANGED <<done, frame>>
TryApply(s) ==
  IF s \in haveF' \ done /\ HaveQ(s, half')
  THEN done' = done \cup {s} /\ frame' = [frame EXCEPT ![s] = XorFrame(@, accum'[s])]
  ELSE UNCHANGED <<done, frame>>

-----------------------------------------------------------------------------
\* DoEndpointStart of the Prev endpoint and DoRepeaterRound of the
\* repeaters: each end makes its links and sends the far halves.
Start(s) ==
  /\ s \notin started
  /\ started' = started \cup {s}
  /\ half' = [half EXCEPT ![s] = [i \in Links(s) |-> "flight"]]
  /\ UNCHANGED sinkVars
  /\ LET both == {r \in Repeaters(s) : HasPrev(s, r, half') /\ HasNext(s, r, half')}
     IN  IF both = {} THEN UNCHANGED <<measured, frame, netVars>>
         ELSE \E r \in both : both = {r} /\ MaybeDoBsmAndAnnounce(s, r)

\* The receive callback: a half arrives from the previous or the next node.
QubitArrives(s, i) ==
  LET at == IF i \in LeftOf[s] THEN i + 1 ELSE i
  IN  /\ half[s][i] = "flight"
      /\ half' = [half EXCEPT ![s][i] = "there"]
      /\ UNCHANGED <<started, accum, recv, haveF>>
      /\ IF at \in Repeaters(s)
         THEN MaybeDoBsmAndAnnounce(s, at) /\ UNCHANGED done
         ELSE /\ UNCHANGED <<measured, netVars>>
              /\ IF i = Last(s) THEN TryApply(s) ELSE UNCHANGED <<done, frame>>

LoseQubit(s, i) ==
  /\ s \in MayLose
  /\ half[s][i] = "flight"
  /\ half' = [half EXCEPT ![s][i] = "lost"]
  /\ UNCHANGED <<started, measured, frame, sinkVars, netVars>>

\* OnCtrlRx of the sink.
Mutant_CtrlResolvesEarly(h) ==
  LET s == h.sid
  IN  /\ accum' = [accum EXCEPT ![s] = XorFrame(@, <<h.m[2], h.m[1]>>)]
      /\ recv' = [recv EXCEPT ![s] = @ + 1]
      /\ haveF' = haveF \cup {s}
      /\ TryApply(s)
OnCtrlRx(h) ==
  LET s == h.sid
  IN  /\ accum' = [accum EXCEPT ![s] = XorFrame(@, <<h.m[2], h.m[1]>>)]
      /\ recv' = [recv EXCEPT ![s] = @ + 1]
      /\ haveF' = IF recv'[s] >= Cardinality(Repeaters(s)) THEN haveF \cup {s} ELSE haveF
      /\ IF s \in haveF' THEN TryApply(s) ELSE UNCHANGED <<done, frame>>

UdpArrives(h) ==
  /\ h \in udp
  /\ EnsuredSink(h.sid)
  /\ udp' = udp \ {h}
  /\ UNCHANGED <<started, half, measured, conn, stream, pending>>
  /\ OnCtrlRx(h)

\* Dropped by a queue, or no UDP sink on the port.
UdpLost(h) ==
  /\ h \in udp
  /\ Path[h.sid][h.from] \in MayDrop \/ ~EnsuredSink(h.sid)
  /\ udp' = udp \ {h}
  /\ UNCHANGED <<started, half, measured, frame, sinkVars, conn, stream, pending>>

Listens(k) == \E s \in Session : Sink(s) = k.dst /\ Port[s] = k.port /\ Proto[s] = "tcp" /\ EnsuredSink(s)

Mutant_ConnectedForgets(k) ==
  /\ conn[k] = "connecting"
  /\ Listens(k)
  /\ conn' = [conn EXCEPT ![k] = "open"]
  /\ UNCHANGED <<started, half, measured, frame, sinkVars, udp, pending, stream>>
OnTcpConnected(k) ==
  /\ conn[k] = "connecting"
  /\ Listens(k)
  /\ conn' = [conn EXCEPT ![k] = "open"]
  /\ stream' = [stream EXCEPT ![k] = @ \o pending[k]]
  /\ pending' = [pending EXCEPT ![k] = <<>>]
  /\ UNCHANGED <<started, half, measured, frame, sinkVars, udp>>

\* The socket stays in m_tcp and its packet in m_tcpPendingOnce.
OnTcpConnectFail(k) ==
  /\ conn[k] = "connecting"
  /\ k.node \in MayDrop \/ ~Listens(k)
  /\ conn' = [conn EXCEPT ![k] = "failed"]
  /\ stream' = [stream EXCEPT ![k] = <<>>]
  /\ UNCHANGED <<started, half, measured, frame, sinkVars, udp, pending>>

\* One read of the sink takes what the stream holds so far; the callback
\* looks at the header it begins with.  A read begins with a packet as long
\* as none is cut (PacketsFit): of one that is, the second part would be
\* taken for a header.
TcpRead(k, n) ==
  /\ conn[k] = "open"
  /\ n \in 1..Len(stream[k])
  /\ stream' = [stream EXCEPT ![k] = SubSeq(@, n + 1, Len(@))]
  /\ UNCHANGED <<started, half, measured, udp, conn, pending>>
  /\ OnCtrlRx(Head(stream[k]))

Next ==
  \/ \E s \in Session :
       \/ Start(s)
       \/ \E i \in Links(s) : QubitArrives(s, i) \/ LoseQubit(s, i)
  \/ \E h \in udp : UdpArrives(h) \/ UdpLost(h)
  \/ \E k \in Sockets :
       \/ OnTcpConnected(k)
       \/ OnTcpConnectFail(k)
       \/ \E n \in 1..Sessions : TcpRead(k, n)

Spec == Init /\ [][Next]_vars

-----------------------------------------------------------------------------
TypeOK ==
  /\ started \subseteq Session
  /\ \A s \in Session :
       /\ half[s] \in [Links(s) -> {"none", "flight", "there", "lost"}]
       /\ measured[s] \subseteq Repeaters(s)
       /\ frame[s] \in Frame /\ accum[s] \in Frame
       /\ recv[s] \in 0..Cardinality(Repeaters(s))
  /\ haveF \subseteq Session /\ done \subseteq haveF
  /\ udp \subseteq Headers
  /\ conn \in [Sockets -> {"none", "connecting", "open", "failed"}]
  /\ \A k \in Sockets : \A q \in {stream[k], pending[k]} : \A i \in DOMAIN q : q[i] \in Headers

(* A session that is done has joined every link of its path, no half was   *)
(* lost, and its ends share |Phi+>: what the fidelity check of the sink    *)
(* measures (model/q2ns-swap-app.cc:393).  Only the half of the Prev       *)
(* endpoint may still be on its way, if it was not the one to generate it. *)
SwappedIntact ==
  \A s \in done :
    /\ measured[s] = Repeaters(s)
    /\ \A i \in Links(s) :
         half[s][i] = "there" \/ (i = 1 /\ 1 \notin LeftOf[s] /\ half[s][1] = "flight")
    /\ frame[s] = NoFrame

(* The frame of the sink is never resolved from fewer outcomes than the    *)
(* path has repeaters, whatever arrives on whatever port                   *)
(* (model/q2ns-swap-app.cc:292).                                           *)
ResolvedFromAll ==
  \A s \in haveF :
    /\ measured[s] = Repeaters(s)
    /\ s \notin done => accum[s] = frame[s]

(* No frame is resolved from too few outcomes and no session is done       *)
(* before its ends share |Phi+> (model/q2ns-swap-app.cc:292, 393).         *)
SwapSafe == TypeOK /\ SwappedIntact /\ ResolvedFromAll

\* Nothing of the session can be lost, and its sockets are its own.
Undisturbed(s) ==
  /\ s \notin MayLose /\ EnsuredSink(s) /\ Repeaters(s) # {}
  /\ \A r \in Repeaters(s) :
       /\ Path[s][r] \notin MayDrop
       /\ \A t \in Session : \A q \in Repeaters(t) : Socket(t, q) = Socket(s, r) => t = s /\ q = r

(* With nothing lost every session that starts is repaired: its frame is   *)
(* resolved and the correction applied (model/q2ns-swap-app.cc:66).        *)
EveryoneSwapped == \A s \in Session : Undisturbed(s) => (s \in started ~> s \in done)

(* What the service of a session begins with is the chain its repeaters    *)
(* have joined; it is done once after that, and stays (SwapApp and the     *)
(* abstract module SessionService, model/q2ns-swap-app.cc:300 and :393).   *)
Joined == {s \in started : measured[s] = Repeaters(s)}
Service == INSTANCE SessionService WITH begun <- Joined, done <- done
ServiceSpec == Service!Spec

=============================================================================
