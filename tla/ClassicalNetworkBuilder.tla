---------------------- MODULE ClassicalNetworkBuilder -----------------------
(***************************************************************************)
(* ClassicalNetworkBuilder::Build (helper/q2ns-classical-network-builder)  *)
(* with Routing::StaticShortestPaths: links, then LANs get devices and     *)
(* addresses, then every node gets a host route to the first address of    *)
(* every other, which is where SwapHelper sends control messages to.       *)
(*                                                                         *)
(* A dual stack is two such networks side by side; the family says which.  *)
(* Names are numbers in the order of the std::map that holds them.         *)
(***************************************************************************)
EXTENDS Integers, Sequences, FiniteSets

CONSTANTS
  Names,     \* the names of AttachNode
  Networks   \* the configurations: [family, links: sequence of pairs, lans: of sequences]

BuilderAssumption ==
  /\ Names \subseteq Nat \ {0} /\ IsFiniteSet(Names) /\ Names # {}
  /\ Networks \subseteq [family : {"v4", "v6"}, links : Seq(Names \X Names), lans : Seq(Seq(Names))]

VARIABLES
  config,   \* m_addressing.ipFamily, m_links and m_lans
  built,    \* the segment that is built next, and how many of its devices are in place
  addrs,    \* v4Addrs (v6Addrs) of each name
  segIf,    \* segIf of each name: the address on each segment it has
  search,   \* the search for first hops: [src, queue, parent], src = 0 when there is none
  routes,   \* AddHostRouteTo: [at, dst, via, seg]
  routed,   \* the names whose routes are installed
  packet    \* a packet under way, [at, to, dst], at = 0 when it is dropped

vars == <<config, built, addrs, segIf, search, routes, routed, packet>>

NoSearch == [src |-> 0, queue |-> <<>>, parent |-> <<>>]
NoPacket == [at |-> 0, to |-> 0, dst |-> <<>>]

Init ==
  /\ config \in Networks
  /\ built = [segment |-> 1, devices |-> 0]
  /\ addrs = [m \in Names |-> <<>>]
  /\ segIf = [m \in Names |-> <<>>]
  /\ search = NoSearch
  /\ routes = {}
  /\ routed = {}
  /\ packet = NoPacket

-----------------------------------------------------------------------------
(***************************************************************************)
(* BuildLinks and BuildLans: the links, then the LANs, told apart by their *)
(* ids, which are numbered here.  A segment has a device for each place of *)
(* its list, also when a name is there twice.                              *)
(***************************************************************************)
LinkCount == Len(config.links)
Segments == LinkCount + Len(config.lans)
IsLink(g) == g <= LinkCount
Members(g) == IF IsLink(g) THEN config.links[g] ELSE config.lans[g - LinkCount]

\* IPv4: the links count up from the network after the base; every LAN begins
\* at the base.  IPv6 addresses come from the device's own MAC address.
LanSubnet == 1
AddressOf(g, i) ==
  IF config.family = "v6" THEN <<g, i>> ELSE <<IF IsLink(g) THEN 1 + g ELSE LanSubnet, i>>

AttachDevice ==
  LET g == built.segment
      i == built.devices + 1
  IN  /\ g <= Segments /\ i \in DOMAIN Members(g)
      /\ built' = [built EXCEPT !.devices = i]
      /\ addrs' = [addrs EXCEPT ![Members(g)[i]] = Append(@, AddressOf(g, i))]
      /\ segIf' = [segIf EXCEPT ![Members(g)[i]] =
                     [h \in DOMAIN @ \cup {g} |-> IF h = g THEN AddressOf(g, i) ELSE @[h]]]
      /\ UNCHANGED <<config, search, routes, routed, packet>>

NextSegment ==
  /\ built.segment <= Segments /\ built.devices = Len(Members(built.segment))
  /\ built' = [segment |-> built.segment + 1, devices |-> 0]
  /\ UNCHANGED <<config, addrs, segIf, search, routes, routed, packet>>

Connected == built.segment = Segments + 1

-----------------------------------------------------------------------------
(***************************************************************************)
(* InstallStaticShortestPaths: a search from each node.  The order of a    *)
(* node's neighbours and the segment used of several depend on how the     *)
(* segments are called and are left open.                                  *)
(***************************************************************************)
Shared(a, b) == DOMAIN segIf[a] \cap DOMAIN segIf[b]
Adjacent(a) == {b \in Names \ {a} : Shared(a, b) # {}}

StartSearch(a) ==
  /\ Connected /\ search = NoSearch
  /\ a \notin routed /\ \A b \in Names \ routed : a <= b
  /\ search' = [src |-> a, queue |-> <<a>>, parent |-> [m \in {a} |-> 0]]
  /\ UNCHANGED <<config, built, addrs, segIf, routes, routed, packet>>

Unvisited == Adjacent(Head(search.queue)) \ DOMAIN search.parent

\* Mutant: a stack instead of the queue.
Mutant_Push(queue, v) == <<v>> \o queue
Push(queue, v) == Append(queue, v)

Visit(v) ==
  /\ search.queue # <<>> /\ v \in Unvisited
  /\ search' = [search EXCEPT
       !.queue = Push(@, v),
       !.parent = [m \in DOMAIN @ \cup {v} |-> IF m = v THEN Head(search.queue) ELSE @[m]]]
  /\ UNCHANGED <<config, built, addrs, segIf, routes, routed, packet>>

Pop ==
  /\ search.queue # <<>> /\ Unvisited = {}
  /\ search' = [search EXCEPT !.queue = Tail(@)]
  /\ UNCHANGED <<config, built, addrs, segIf, routes, routed, packet>>

\* Climbing from b along the parents one comes to c after n steps.
Climbs(b, c, n) ==
  \E w \in [0..n -> DOMAIN search.parent] :
    /\ w[0] = c /\ w[n] = b
    /\ \A i \in 1..n : search.parent[w[i]] = w[i - 1]

\* firstHop: the last node before the source.
FirstHop(b) ==
  CHOOSE c \in DOMAIN search.parent :
    search.parent[c] = search.src /\ \E n \in 0..(Cardinality(Names) - 1) : Climbs(b, c, n)

Mutant_RouteVia(a, b, hop, seg) ==
  [at |-> a, dst |-> Head(addrs[b]), via |-> Head(addrs[hop]), seg |-> seg]
RouteVia(a, b, hop, seg) ==
  [at |-> a, dst |-> Head(addrs[b]), via |-> segIf[hop][seg], seg |-> seg]

InstallRoutes ==
  LET a == search.src
      others == {b \in DOMAIN search.parent \ {a} : addrs[b] # <<>>}
  IN  /\ a # 0 /\ search.queue = <<>>
      /\ \E seg \in [Adjacent(a) -> 1..Segments] :
           /\ \A c \in Adjacent(a) : seg[c] \in Shared(a, c)
           /\ routes' = routes \cup {RouteVia(a, b, FirstHop(b), seg[FirstHop(b)]) : b \in others}
      /\ routed' = routed \cup {a}
      /\ search' = NoSearch
      /\ UNCHANGED <<config, built, addrs, segIf, packet>>

-----------------------------------------------------------------------------
(***************************************************************************)
(* The network that was built carries a control message: a node keeps what *)
(* is for one of its addresses, follows its host route, or drops it.       *)
(***************************************************************************)
Owns(m, address) == \E i \in DOMAIN addrs[m] : addrs[m][i] = address

SendControl(a, b) ==
  /\ routed = Names
  /\ packet = NoPacket
  /\ a # b /\ addrs[b] # <<>>
  /\ packet' = [at |-> a, to |-> b, dst |-> Head(addrs[b])]
  /\ UNCHANGED <<config, built, addrs, segIf, search, routes, routed>>

Forward ==
  /\ packet.at # 0 /\ ~Owns(packet.at, packet.dst)
  /\ LET hops == {r \in routes : r.at = packet.at /\ r.dst = packet.dst}
     IN  IF hops = {} THEN packet' = [packet EXCEPT !.at = 0]
         ELSE \E r \in hops, m \in Names :
                /\ r.seg \in DOMAIN segIf[m] /\ segIf[m][r.seg] = r.via
                /\ packet' = [packet EXCEPT !.at = m]
  /\ UNCHANGED <<config, built, addrs, segIf, search, routes, routed>>

Next ==
  \/ AttachDevice \/ NextSegment
  \/ \E a \in Names : StartSearch(a) \/ Visit(a)
  \/ Pop \/ InstallRoutes
  \/ \E a, b \in Names : SendControl(a, b)
  \/ Forward

Spec == Init /\ [][Next]_vars

-----------------------------------------------------------------------------
\* The addresses that every LAN of an IPv4 network begins with.
OfLan(address) == config.family = "v4" /\ address[1] = LanSubnet
SecondLan == built.segment > LinkCount + 1

(* No address is given to two devices, also when a segment has a node      *)
(* twice: the handle Build returns is ready to use                         *)
(* (helper/q2ns-classical-network-builder.h:85).  The exception is IPv4    *)
(* with more than one LAN, which all begin at the same address             *)
(* (helper/q2ns-classical-network-builder.cc:193).                         *)
AddressesUnique ==
  \A a, b \in Names : \A i \in DOMAIN addrs[a], j \in DOMAIN addrs[b] :
    addrs[a][i] = addrs[b][j] =>
      \/ a = b /\ i = j
      \/ OfLan(addrs[a][i]) /\ SecondLan

\* A walk over n segments, and the fewest there are.
Walk(a, b, n) ==
  \E w \in [0..n -> Names] :
    /\ w[0] = a /\ w[n] = b
    /\ \A i \in 1..n : w[i] \in Adjacent(w[i - 1])
Lengths == 0..(Cardinality(Names) - 1)
Reachable(a) == {b \in Names : \E n \in Lengths : Walk(a, b, n)}
Distance(a, b) ==
  CHOOSE n \in Lengths : Walk(a, b, n) /\ \A k \in 0..(n - 1) : ~Walk(a, b, k)

\* The packet can get there, and no other node has that address.
Deliverable ==
  /\ packet.at # 0 /\ packet.to \in Reachable(packet.at)
  /\ \A m \in Names : Owns(m, packet.dst) => m = packet.to

(* What the nodes installed one by one, each from its own search, leads a  *)
(* packet one hop closer at every node: there is no loop                   *)
(* (helper/q2ns-classical-network-builder.cc:265).                         *)
HopCloser ==
  Deliverable /\ packet' # packet =>
    packet'.at # 0 /\ Distance(packet'.at, packet.to) < Distance(packet.at, packet.to)

(* A control message to the first address of a node that can be reached,   *)
(* and is the only one with it, arrives there, whichever of its segments   *)
(* it comes over (helper/q2ns-classical-network-builder.cc:322).           *)
Delivered == packet.at # 0 /\ packet.at = packet.to
ControlArrives == Deliverable ~> Delivered

=============================================================================
