------------------------ MODULE TeleportationHelper -------------------------
(***************************************************************************)
(* TeleportationHelper::Install (helper/q2ns-teleportation-helper.cc): a   *)
(* TopologySpec, in which names may be repeated or unknown, becomes nodes, *)
(* addressed links and the apps of the sessions.  One step handles one     *)
(* entry of one list of the spec, in the order the code goes through them. *)
(***************************************************************************)
EXTENDS Integers, Sequences, FiniteSets

CONSTANTS
  NodeLists,     \* TopologySpec::nodes to choose from
  EdgeLists,     \* TopologySpec::classicalEdges, [u, v, protocol]
  SessionLists,  \* TopologySpec::sessions, [src, dst, sessionId, ctrlPort, protocol]
  PortBase,      \* m_portBase
  Subnets        \* subnets 10.a.b.0 there are: 65536 in the code

PortNumber == 0..65535

Entries(lists) == UNION {{list[i] : i \in DOMAIN list} : list \in lists}

HelperAssumption ==
  /\ PortBase \in PortNumber
  /\ Subnets \in Nat \ {0}
  /\ NodeLists \subseteq Seq(Entries(NodeLists))
  /\ EdgeLists \subseteq Seq(Entries(EdgeLists))
  /\ SessionLists \subseteq Seq(Entries(SessionLists))
  /\ \A s \in Entries(SessionLists) : s.sessionId \in Nat /\ s.ctrlPort \in PortNumber

VARIABLES
  spec,       \* the TopologySpec
  at,         \* the entry of each list that comes next
  nodes,      \* m_name2node: the names that have a node
  addresses,  \* the addresses of each name's node, in interface order
  apps,       \* the TeleportationApps, [role, node, session, peer, port, proto, tag]
  warned,     \* the entries of sessions warned about for their port
  usedPorts   \* usedPortKey

vars == <<spec, at, nodes, addresses, apps, warned, usedPorts>>

Any == <<-1, 0>>
NoProtocol == "" \* LinkSpec::protocol and SessionSpec::protocol left empty

Names == Entries(NodeLists)

Ports == 65536
AllocatedPorts == 10000
AllocatePort(id) ==
  LET p == (PortBase + (id % AllocatedPorts)) % Ports
  IN  IF p = 0 THEN (PortBase + 1) % Ports ELSE p

Init ==
  /\ spec \in [nodes : NodeLists, edges : EdgeLists, sessions : SessionLists]
  /\ at = [nodes |-> 1, edges |-> 1, sessions |-> 1]
  /\ nodes = {}
  /\ addresses = [m \in Names |-> <<>>]
  /\ apps = {}
  /\ warned = {}
  /\ usedPorts = {}

Done(list) == at[list] > Len(spec[list])
Advance(list) == ~Done(list) /\ at' = [at EXCEPT ![list] = @ + 1]

BuildNode ==
  /\ Advance("nodes")
  /\ nodes' = nodes \cup {spec.nodes[at.nodes]}
  /\ UNCHANGED <<spec, addresses, apps, warned, usedPorts>>

\* Every link has its own subnet; u's device is .1 and v's is .2.
SubnetOfLink(k) == (k - 1) % Subnets

\* The links are numbered in the order they are built, skipped ones not.
Linked(k) ==
  LET e == spec.edges[k] IN e.u \in nodes /\ e.v \in nodes
LinksBefore(k) == Cardinality({j \in 1..(k - 1) : Linked(j)})

BuildClassicalLink ==
  LET k == at.edges
      e == spec.edges[k]
      subnet == SubnetOfLink(LinksBefore(k) + 1)
  IN  /\ Done("nodes")
      /\ Advance("edges")
      /\ addresses' =
           IF Linked(k)
           THEN [[addresses EXCEPT ![e.u] = Append(@, <<subnet, 1>>)]
                            EXCEPT ![e.v] = Append(@, <<subnet, 2>>)]
           ELSE addresses
      /\ UNCHANGED <<spec, nodes, apps, warned, usedPorts>>

GetFirstNonLoopback(node) ==
  IF addresses[node] = <<>> THEN Any ELSE Head(addresses[node])

\* The session's own protocol, or that of the first edge between its ends.
Between(e, s) == {e.u, e.v} = {s.src, s.dst}
Protocol(s) ==
  LET direct == SelectSeq(spec.edges, LAMBDA e : Between(e, s))
  IN  IF s.protocol # NoProtocol THEN s.protocol
      ELSE IF direct = <<>> THEN "udp" ELSE Head(direct).protocol

PortOf(s) == IF s.ctrlPort # 0 THEN s.ctrlPort ELSE AllocatePort(s.sessionId)

CheckPort(s) ==
  LET key == <<s.dst, s.ctrlPort>>
  IN  /\ warned' = IF s.ctrlPort # 0 /\ key \in usedPorts
                   THEN warned \cup {at.sessions} ELSE warned
      /\ usedPorts' = IF s.ctrlPort # 0 THEN usedPorts \cup {key} ELSE usedPorts

AppOf(role, node, peer, s) ==
  [role |-> role, node |-> node, peer |-> peer, port |-> PortOf(s),
   proto |-> Protocol(s), session |-> at.sessions]

Mutant_PeerIsSource(s) == GetFirstNonLoopback(s.src)
PeerOf(s) == GetFirstNonLoopback(s.dst)

InstallSession ==
  LET s == spec.sessions[at.sessions]
  IN  /\ Done("edges") /\ Done("nodes")
      /\ Advance("sessions")
      /\ IF {s.src, s.dst} \subseteq nodes
         THEN /\ CheckPort(s)
              /\ apps' = apps \cup {AppOf("source", s.src, PeerOf(s), s),
                                    AppOf("sink", s.dst, Any, s)}
         ELSE UNCHANGED <<apps, warned, usedPorts>>
      /\ UNCHANGED <<spec, nodes, addresses>>

Next == BuildNode \/ BuildClassicalLink \/ InstallSession

Spec == Init /\ [][Next]_vars

-----------------------------------------------------------------------------
Sinks == {a \in apps : a.role = "sink"}
Sources == {a \in apps : a.role = "source"}
Conflict(a, b) == a # b /\ a.node = b.node /\ a.port = b.port /\ a.proto = b.proto

(* No two interfaces share an address, however many links were skipped, as *)
(* long as there are subnets left (helper/q2ns-teleportation-helper.cc:188 *)
(* starts again after 65536 links).                                        *)
AddressesUnique ==
  LinksBefore(at.edges) <= Subnets =>
    \A m, k \in Names : \A i \in DOMAIN addresses[m], j \in DOMAIN addresses[k] :
      addresses[m][i] = addresses[k][j] => m = k /\ i = j

(* The control packets of a source reach its session's sink: the peer has  *)
(* the sink's address, and the sink listens on that port and protocol      *)
(* (helper/q2ns-teleportation-helper.cc:281).                              *)
SourceFindsSink ==
  \A a \in Sources : \E b \in Sinks :
    /\ b.session = a.session /\ b.port = a.port /\ b.proto = a.proto
    /\ a.peer # Any => \E i \in DOMAIN addresses[b.node] : addresses[b.node][i] = a.peer

PortsFit == PortBase \in 1..(Ports - AllocatedPorts)
Chosen(a) == spec.sessions[a.session].ctrlPort # 0
Id(a) == spec.sessions[a.session].sessionId

(* Chosen and allocated ports share a number space, but only chosen ones   *)
(* are compared (helper/q2ns-teleportation-helper.cc:247).  Two sinks of a *)
(* node with the same port have been warned about, unless one port was     *)
(* chosen among those that are allocated, or both were allocated to ids    *)
(* that differ by a multiple of 10000.                                     *)
ConflictsKnown ==
  PortsFit => \A a, b \in Sinks : Conflict(a, b) =>
    \/ Chosen(a) /\ Chosen(b) /\ {a.session, b.session} \cap warned # {}
    \/ (Chosen(a) <=> ~Chosen(b)) /\ a.port \in PortBase..(PortBase + AllocatedPorts - 1)
    \/ ~Chosen(a) /\ ~Chosen(b) /\ Id(a) % AllocatedPorts = Id(b) % AllocatedPorts

=============================================================================
