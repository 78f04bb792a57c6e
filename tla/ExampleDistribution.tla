------------------------ MODULE ExampleDistribution ------------------------
(***************************************************************************)
(* The three scripted example programs that distribute an entangled state  *)
(* and confirm it over UDP: the GHZ star, the full mesh of Bell pairs and  *)
(* the cluster state measured down to a GHZ state (examples/q2nsviz-*.cc). *)
(*                                                                         *)
(* A program is a few chains of nested Schedule calls, each step a gap     *)
(* after the one before, against the arrivals its channels schedule; the   *)
(* simulator runs the earliest event, the first scheduled among equals.    *)
(* One unit of time is 10 ns.  Node 1 is the source or orchestrator.       *)
(***************************************************************************)
EXTENDS QStateStab, SequencesExt

CONSTANTS
  Programs,   \* which of "ghz", "bells" and "graph" are run
  QDelays,    \* propagation times of a quantum link
  Latencies   \* times a datagram takes on a classical link

VARIABLES
  program, delay, latency,   \* the program that runs, fixed with its links' times
  now, agenda, uid,          \* the clock, the pending events, the next event's number
  place,                     \* each qubit's node, 0 in flight, -1 before it exists
  group,                     \* the stabilizer group of all the program's qubits
  acks,                      \* node -> the qubits acknowledged to it, in order
  got,                       \* node -> the outcomes told to it, in order
  announced                  \* the final trace line was written

vars == <<program, delay, latency, now, agenda, uid, place, group, acks, got, announced>>

-----------------------------------------------------------------------------
Step(gap, op, args) == [gap |-> gap, op |-> op, args |-> args]
Create(gap, node, qs) == Step(gap, "create", [node |-> node, qs |-> qs])
Gates(gap, gates) == Step(gap, "gates", gates)
Send(gap, sends) == Step(gap, "send", sends)

SingleGate == 10
TwoQGate == 30
SendGap == 5

GhzScript(d) ==
  <<  Create(100, 1, 0..3),
      Gates(SingleGate, << <<"H", <<0>>>> >>),
      Gates(TwoQGate, << <<"CNOT", <<0, 1>>>> >>),
      Gates(TwoQGate, << <<"CNOT", <<0, 2>>>> >>),
      Gates(TwoQGate, << <<"CNOT", <<0, 3>>>> >>),
      Send(SingleGate, << <<1, 2>> >>),
      Send(SendGap, << <<2, 3>> >>),
      Send(SendGap, << <<3, 4>> >>),
      Step(d + SendGap, "announce", 0) >>

\* One pair of the mesh: the source keeps a and sends b = a + 1.
BellScript(start, source, a, dst) ==
  <<  Create(start, source, {a, a + 1}),
      Gates(SingleGate, << <<"H", <<a>>>> >>),
      Gates(TwoQGate, << <<"CNOT", <<a, a + 1>>>> >>),
      Send(SingleGate, << <<a + 1, dst>> >>) >>
BellScripts ==
  << BellScript(100, 1, 0, 2), BellScript(300, 1, 2, 3), BellScript(500, 2, 4, 3),
     << Step(2000, "announce", 0) >> >>

GraphScript(d) ==
  <<  Create(100, 1, 0..4),
      Gates(SingleGate, << <<"H", <<0>>>>, <<"H", <<1>>>>, <<"H", <<2>>>>,
                           <<"H", <<3>>>>, <<"H", <<4>>>> >>),
      Gates(TwoQGate, << <<"CZ", <<0, 1>>>>, <<"CZ", <<2, 3>>>> >>),
      Gates(TwoQGate, << <<"CZ", <<1, 2>>>>, <<"CZ", <<3, 4>>>> >>),
      Send(SingleGate, << <<0, 2>>, <<2, 3>>, <<4, 4>> >>),
      Step(d + SingleGate, "measure", 0) >>

Scripts == CASE program = "ghz" -> << GhzScript(delay) >>
             [] program = "bells" -> BellScripts
             [] program = "graph" -> << GraphScript(delay) >>

GhzLinks == {{1, 2}, {1, 3}, {1, 4}}
BellLinks == {{1, 2}, {1, 3}, {2, 3}}
GraphLinks == {{1, 2}, {1, 3}, {1, 4}}

-----------------------------------------------------------------------------
Event(due, number, kind, a, b, m) ==
  [due |-> due, uid |-> number, kind |-> kind, a |-> a, b |-> b, m |-> m]

Earliest(e) ==
  \A f \in agenda : e.due < f.due \/ (e.due = f.due /\ e.uid <= f.uid)

Init ==
  /\ program \in Programs
  /\ delay \in QDelays
  /\ latency \in [CASE program = "ghz" -> GhzLinks
                    [] program = "bells" -> BellLinks
                    [] program = "graph" -> GraphLinks -> Latencies]
  /\ now = 0
  /\ agenda = {Event(Scripts[s][1].gap, s, "step", s, 1, 0) : s \in DOMAIN Scripts}
  /\ uid = Len(Scripts) + 1
  /\ LET n == CASE program = "ghz" -> 4 [] program = "bells" -> 6 [] program = "graph" -> 5
     IN  /\ place = [q \in 0..(n - 1) |-> -1]
         /\ group = StabZero(n)
  /\ acks = [node \in 1..4 |-> <<>>]
  /\ got = [node \in 1..4 |-> <<>>]
  /\ announced = FALSE

\* The step's own body, then the nested Schedule of the one after it.
NextStep(e, number) ==
  IF e.b < Len(Scripts[e.a])
  THEN {Event(now' + Scripts[e.a][e.b + 1].gap, number, "step", e.a, e.b + 1, 0)}
  ELSE {}

Takes(e, kind) == e.kind = kind /\ Earliest(e) /\ now' = e.due
Runs(e, op) == Takes(e, "step") /\ Scripts[e.a][e.b].op = op
Args(e) == Scripts[e.a][e.b].args
Fixed == UNCHANGED <<program, delay, latency>>

CreateQubits(e) ==
  /\ Runs(e, "create")
  /\ place' = [q \in DOMAIN place |-> IF q \in Args(e).qs THEN Args(e).node ELSE place[q]]
  /\ agenda' = (agenda \ {e}) \cup NextStep(e, uid)
  /\ uid' = uid + 1
  /\ Fixed /\ UNCHANGED <<group, acks, got, announced>>

Apply(g, gates) == FoldLeft(LAMBDA h, gate : StabApply(h, gate[1], gate[2]), g, gates)

ApplyGates(e) ==
  /\ Runs(e, "gates")
  /\ group' = Apply(group, Args(e))
  /\ agenda' = (agenda \ {e}) \cup NextStep(e, uid)
  /\ uid' = uid + 1
  /\ Fixed /\ UNCHANGED <<place, acks, got, announced>>

SendQubits(e) ==
  LET sends == Args(e) IN
  /\ Runs(e, "send")
  /\ place' = [q \in DOMAIN place |->
                 IF \E i \in DOMAIN sends : sends[i][1] = q THEN 0 ELSE place[q]]
  /\ agenda' = (agenda \ {e})
       \cup {Event(now' + delay, uid + i - 1, "qubit", sends[i][1], sends[i][2], 0) :
               i \in DOMAIN sends}
       \cup NextStep(e, uid + Len(sends))
  /\ uid' = uid + Len(sends) + 1
  /\ Fixed /\ UNCHANGED <<group, acks, got, announced>>

Packet(number, from, to, m) ==
  Event(now' + latency[{from, to}], number, "packet", from, to, m)

\* Both X measurements and the four datagrams that carry the outcomes.
OutcomePackets(m1, m3) ==
  {Packet(uid, 1, 2, m1), Packet(uid + 1, 1, 3, m1), Packet(uid + 2, 1, 3, m3),
   Packet(uid + 3, 1, 4, m3)}

MeasureNeighbours(e) ==
  /\ Runs(e, "measure")
  /\ LET turned == RotateIntoZBasis(group, 1, "X") IN
     \E m1 \in ZOutcomes(turned, 1) :
       LET turned3 == RotateIntoZBasis(AfterZ(turned, 1, m1), 3, "X") IN
       \E m3 \in ZOutcomes(turned3, 3) :
         /\ group' = AfterZ(turned3, 3, m3)
         /\ agenda' = (agenda \ {e}) \cup OutcomePackets(m1, m3)
  /\ uid' = uid + 4
  /\ Fixed /\ UNCHANGED <<place, acks, got, announced>>

Announce(e) ==
  /\ Runs(e, "announce")
  /\ announced' = TRUE
  /\ agenda' = agenda \ {e}
  /\ Fixed /\ UNCHANGED <<uid, place, group, acks, got>>

\* Whom a remote node acknowledges qubit q to.
GhzAckTo(q, node) == {1}
Mutant_AlwaysToNode1(q, node) == {1}
BellAckTo(q, node) ==
  IF node = 2 \/ {r \in DOMAIN place : place[r] = 3} = {} THEN {1} ELSE {2}
GraphAckTo(q, node) == {}

AckTo(q, node) == CASE program = "ghz" -> GhzAckTo(q, node)
                    [] program = "bells" -> BellAckTo(q, node)
                    [] program = "graph" -> GraphAckTo(q, node)

QubitArrives(e) ==
  /\ Takes(e, "qubit")
  /\ place' = [place EXCEPT ![e.a] = e.b]
  /\ agenda' = (agenda \ {e}) \cup {Packet(uid, e.b, to, e.a) : to \in AckTo(e.a, e.b)}
  /\ uid' = uid + 1
  /\ Fixed /\ UNCHANGED <<group, acks, got, announced>>

AckArrives(e) ==
  /\ program # "graph" /\ Takes(e, "packet")
  /\ acks' = [acks EXCEPT ![e.b] = Append(@, e.m)]
  /\ agenda' = agenda \ {e}
  /\ Fixed /\ UNCHANGED <<uid, place, group, got, announced>>

OutcomeArrives(e) ==
  /\ program = "graph" /\ Takes(e, "packet")
  /\ got' = [got EXCEPT ![e.b] = Append(@, e.m)]
  /\ agenda' = agenda \ {e}
  /\ Fixed /\ UNCHANGED <<uid, place, group, acks, announced>>

Next ==
  \E e \in agenda :
    \/ CreateQubits(e) \/ ApplyGates(e) \/ SendQubits(e) \/ MeasureNeighbours(e)
    \/ Announce(e) \/ QubitArrives(e) \/ AckArrives(e) \/ OutcomeArrives(e)

\* The simulator runs while an event is pending.
Spec == Init /\ [][Next]_vars /\ WF_vars(Next)

-----------------------------------------------------------------------------
TypeOK ==
  /\ program \in {"ghz", "bells", "graph"}
  /\ \A q \in DOMAIN place : place[q] \in -1..4
  /\ group \subseteq Paulis(Cardinality(DOMAIN place))
  /\ Cardinality(group) = 2 ^ Cardinality(DOMAIN place)
  /\ \A e \in agenda : e.due >= now /\ e.uid < uid

\* The first n positions are in (|0..0> + |1..1>)/sqrt(2).
GhzGroup(n) ==
  {p \in Paulis(n) :
     /\ p.x \in {{}, 0..(n - 1)}
     /\ Cardinality(p.z) % 2 = 0
     /\ p.neg = (p.x # {} /\ Cardinality(p.z) % 4 = 2)}

\* The GHZ program: Node1 has counted three acknowledgements, or has traced that
\* the quantum distribution is complete, only when q1, q2 and q3 are at their
\* three nodes and the four qubits are in the GHZ state.
GhzConfirmed ==
  program = "ghz" /\ (Len(acks[1]) = 3 \/ announced) =>
    /\ \A q \in 0..3 : place[q] = q + 1
    /\ group = GhzGroup(4)

\* The mesh program: the last trace line says that all Bell pairs are distributed
\* and confirmed; by then every acknowledgement is in, two at Node1 and one at
\* Node2, and each pair is a Bell pair between its two nodes.
MeshConfirmed ==
  program = "bells" /\ announced =>
    /\ Len(acks[1]) = 2 /\ Len(acks[2]) = 1
    /\ place = [q \in 0..5 |-> <<1, 2, 1, 3, 2, 3>>[q + 1]]
    /\ \A a \in {0, 2, 4} : Restricted(group, {a, a + 1}) = GhzGroup(2)

\* The mesh program: node 3 picks whom to acknowledge by counting its arrivals;
\* still every acknowledgement reaches the node that keeps the other half.
AckReachesThePartner ==
  \A node \in 1..4 : \A i \in DOMAIN acks[node] :
    program = "bells" => place[acks[node][i] - 1] = node

\* The cluster program measures q1 and q3 only once q0, q2 and q4 have reached
\* their clients.
MeasuresOnceArrived ==
  program = "graph" /\ group' # group /\ place[0] # 1 =>
    place[0] = 2 /\ place[2] = 3 /\ place[4] = 4

\* The cluster program: once every outcome has come in, what client 1 and client 3
\* were told is all they need to turn the clients' qubits into a GHZ state, by
\* an X on q0 and an X on q4.
ClientsCanCorrect ==
  program = "graph" /\ Len(got[2]) = 1 /\ Len(got[3]) = 2 /\ Len(got[4]) = 1 =>
    LET flip(g, q, m) == IF m = 1 THEN StabApply(g, "X", <<q>>) ELSE g
    IN  Restricted(flip(flip(group, 0, got[2][1]), 4, got[4][1]), {0, 2, 4}) = GhzGroup(3)

\* Every distribution ends: the GHZ and mesh programs get all acknowledgements
\* and write their last line, the clients of the cluster program all outcomes.
Complete ==
  \/ program = "ghz" /\ announced /\ Len(acks[1]) = 3
  \/ program = "bells" /\ announced /\ Len(acks[1]) = 2 /\ Len(acks[2]) = 1
  \/ program = "graph" /\ Len(got[2]) = 1 /\ Len(got[3]) = 2 /\ Len(got[4]) = 1
Distributed == <>Complete

=============================================================================
