--------------------------- MODULE NetController ----------------------------
(***************************************************************************)
(* The topologies a NetController builds (model/q2ns-netcontroller.cc):    *)
(* links one at a time, chains, all pairs, and the edge lists of the two   *)
(* helpers, in any order and overlapping.  QNetwork composes single links  *)
(* with what is sent over them, Streams with their generators.             *)
(***************************************************************************)
EXTENDS Integers, Sequences, Functions

CONSTANTS
  MaxNodes,  \* bound on the nodes a script creates
  Null,      \* a null node in a list
  Lists,     \* the lists of nodes a script links
  Edges,     \* the edge lists of topology specifications, [u, v, delay]
  MaxCalls   \* bound on the calls

TopologyAssumption ==
  /\ MaxNodes \in Nat /\ MaxCalls \in Nat /\ Null \notin Nat
  /\ Lists \subseteq Seq(1..MaxNodes \cup {Null})
  /\ Edges \subseteq Seq([u : Nat, v : Nat, delay : Int])

VARIABLES
  nodes,   \* how many nodes there are; node ids count from 1
  net,     \* [channels, count, delay, ifaces, routes], see NoNet
  result,  \* the channels the last call returned, with the list it was given
  asked,   \* the pairs the script asked to link
  wanted,  \* the delay it last gave each pair in an edge list
  calls

topologyVars == <<nodes, net, result, asked, wanted, calls>>

(* channels_ by pair, the number of channels, the delay of each; of each   *)
(* node the channels behind its interfaces and the interface of each route.*)
NoNet ==
  [channels |-> <<>>, count |-> 0, delay |-> <<>>,
   ifaces |-> [n \in 1..MaxNodes |-> <<>>],
   routes |-> [n \in 1..MaxNodes |-> [d \in 1..MaxNodes |-> 0]]]

Present(n) == n \in 1..nodes

Key(a, b) == IF a <= b THEN <<a, b>> ELSE <<b, a>>

NewLink(t, a, b) ==
  LET c == t.count + 1
      withA == [t.ifaces EXCEPT ![a] = Append(@, c)]
      withB == [withA EXCEPT ![b] = Append(@, c)]
  IN  [channels |-> [k \in DOMAIN t.channels \cup {Key(a, b)} |->
                       IF k = Key(a, b) THEN c ELSE t.channels[k]],
       count |-> c,
       delay |-> Append(t.delay, 0),
       ifaces |-> withB,
       routes |-> [[t.routes EXCEPT ![a][b] = Len(withA[a])] EXCEPT ![b][a] = Len(withB[b])]]

\* Mutant: a pair that is linked is given a new channel.
Mutant_Link(t, a, b) == NewLink(t, a, b)
\* A pair keeps the channel it has.
Link(t, a, b) == IF Key(a, b) \in DOMAIN t.channels THEN t ELSE NewLink(t, a, b)

GetChannel(t, a, b) == IF Key(a, b) \in DOMAIN t.channels THEN t.channels[Key(a, b)] ELSE 0

\* One pair of a list: null nodes and self-links are skipped with a warning.
Step(acc, pair) ==
  LET a == pair[1]
      b == pair[2]
      t == Link(acc.net, a, b)
  IN  IF ~Present(a) \/ ~Present(b) \/ a = b THEN acc
      ELSE [net |-> t, out |-> Append(acc.out, GetChannel(t, a, b))]

\* The pairs one after the other.
Walk(acc, pairs) ==
  LET after[i \in 0..Len(pairs)] == IF i = 0 THEN acc ELSE Step(after[i - 1], pairs[i])
  IN  after[Len(pairs)]

Adjacent(list) ==
  IF list = <<>> THEN <<>> ELSE [i \in 1..(Len(list) - 1) |-> <<list[i], list[i + 1]>>]

\* (1,2), (1,3), ..., then (2,3), ...
Row(list, i) == [j \in 1..(Len(list) - i) |-> <<list[i], list[i + j]>>]

WalkRows(acc, list) ==
  LET after[i \in 0..Len(list)] == IF i = 0 THEN acc ELSE Walk(after[i - 1], Row(list, i))
  IN  after[Len(list)]

Joins(e) == Present(e.u) /\ Present(e.v)
EdgeKey(e) == Key(e.u, e.v)
DelayOf(e) == IF e.delay < 0 THEN 0 ELSE e.delay

\* One edge of a specification sets the delay of its link in both directions.
EdgeStep(t, e) ==
  LET linked == Link(t, e.u, e.v)
  IN  IF ~Joins(e) THEN t
      ELSE [linked EXCEPT !.delay[GetChannel(linked, e.u, e.v)] = DelayOf(e)]

WalkEdges(t, edges) ==
  LET after[i \in 0..Len(edges)] == IF i = 0 THEN t ELSE EdgeStep(after[i - 1], edges[i])
  IN  after[Len(edges)]

-----------------------------------------------------------------------------
Nothing == [call |-> "none", list |-> <<>>, out |-> <<>>]

TopologyInit ==
  /\ nodes = 0 /\ net = NoNet
  /\ result = Nothing
  /\ asked = {} /\ wanted = <<>> /\ calls = 0

Called == calls < MaxCalls /\ calls' = calls + 1

CreateNode ==
  /\ nodes < MaxNodes /\ nodes' = nodes + 1
  /\ UNCHANGED <<net, result, asked, wanted, calls>>

ValidPairs(pairs) ==
  {Key(q[1], q[2]) : q \in {p \in Range(pairs) : Present(p[1]) /\ Present(p[2]) /\ p[1] # p[2]}}

(* A list holds nodes that were created, or null.                          *)
Usable(list) == \A i \in DOMAIN list : list[i] = Null \/ Present(list[i])

InstallQuantumLink(a, b) ==
  /\ Called /\ Present(a) /\ Present(b)
  /\ net' = Link(net, a, b)
  /\ result' = [call |-> "link", list |-> <<a, b>>, out |-> <<GetChannel(net', a, b)>>]
  /\ asked' = asked \cup {Key(a, b)}
  /\ UNCHANGED <<nodes, wanted>>

Start == [net |-> net, out |-> <<>>]

Install(call, list, acc) ==
  /\ Called /\ Usable(list)
  /\ net' = acc.net
  /\ result' = [call |-> call, list |-> list, out |-> acc.out]
  /\ UNCHANGED <<nodes, wanted>>

InstallQuantumChain(list) ==
  /\ Install("chain", list, Walk(Start, Adjacent(list)))
  /\ asked' = asked \cup ValidPairs(Adjacent(list))

InstallQuantumAllToAll(list) ==
  /\ Install("all", list, WalkRows(Start, list))
  /\ asked' = asked \cup {Key(list[p[1]], list[p[2]]) :
                p \in {q \in (DOMAIN list) \X (DOMAIN list) :
                         /\ list[q[1]] # Null /\ list[q[2]] # Null
                         /\ list[q[1]] # list[q[2]]}}

JoiningEdges(edges) == {i \in DOMAIN edges : Joins(edges[i])}

LastEdge(edges, k) ==
  CHOOSE i \in JoiningEdges(edges) :
    EdgeKey(edges[i]) = k /\ \A j \in JoiningEdges(edges) : EdgeKey(edges[j]) = k => j <= i

(* TeleportationHelper::BuildQuantum skips an edge with an unknown node.   *)
BuildQuantum(edges) ==
  LET joined == {EdgeKey(edges[i]) : i \in JoiningEdges(edges)}
  IN  /\ Called
      /\ net' = WalkEdges(net, edges)
      /\ result' = Nothing
      /\ asked' = asked \cup joined
      /\ wanted' = [k \in DOMAIN wanted \cup joined |->
                      IF k \in joined THEN edges[LastEdge(edges, k)].delay ELSE wanted[k]]
      /\ UNCHANGED nodes

(* EntanglementSwapHelper::BuildQuantum looks its nodes up with at, which  *)
(* throws and ends the program when one is unknown.                        *)
BuildQuantumForSwaps(edges) ==
  /\ \A i \in DOMAIN edges : Joins(edges[i])
  /\ BuildQuantum(edges)

TopologyNext ==
  \/ CreateNode
  \/ \E a, b \in 1..MaxNodes : InstallQuantumLink(a, b)
  \/ \E list \in Lists : InstallQuantumChain(list) \/ InstallQuantumAllToAll(list)
  \/ \E edges \in Edges : BuildQuantum(edges) \/ BuildQuantumForSwaps(edges)

TopologySpec == TopologyInit /\ [][TopologyNext]_topologyVars

-----------------------------------------------------------------------------
Sorted(a, b) == IF a <= b THEN <<a, b>> ELSE <<b, a>>

(* The linked pairs are the neighbours in the chains, all pairs of the     *)
(* all-to-all lists, and the edges of the specifications, and no others    *)
(* (model/q2ns-netcontroller.cc:180, 212).                                 *)
LinkedAsAsked ==
  \A a, b \in 1..MaxNodes :
    (GetChannel(net, a, b) # 0) = (Sorted(a, b) \in {Sorted(p[1], p[2]) : p \in asked})

(* The route of a node to a linked node leads over the channel that        *)
(* GetChannel gives for the two, in either order: what a script configures *)
(* is what its qubits travel on, however lists overlap and pairs are       *)
(* turned round (model/q2ns-netcontroller.cc:139).                         *)
RouteOverItsChannel ==
  \A a, b \in 1..MaxNodes :
    net.routes[a][b] # 0 =>
      /\ GetChannel(net, a, b) = GetChannel(net, b, a)
      /\ a # b => net.ifaces[a][net.routes[a][b]] = GetChannel(net, a, b)

(* "Existing links are left unchanged" (model/q2ns-netcontroller.h:178): a *)
(* link keeps the delay its last edge gave it, whatever lists name the     *)
(* pair again.                                                             *)
DelayOfLastEdge ==
  \A k \in DOMAIN wanted :
    net.delay[GetChannel(net, k[1], k[2])] = IF wanted[k] < 0 THEN 0 ELSE wanted[k]

(* A list without null nodes and repetitions returns a channel for each of *)
(* its pairs, a new or an existing one "in the corresponding positions"    *)
(* (model/q2ns-netcontroller.h:179), and no channel twice.                 *)
OneChannelPerPair ==
  (\A i \in DOMAIN result.list : result.list[i] # Null) /\ IsInjective(result.list) =>
    /\ IsInjective(result.out)
    /\ result.call = "chain" =>
         \A i \in 1..(Len(result.list) - 1) :
           result.out[i] = GetChannel(net, result.list[i + 1], result.list[i])
    /\ result.call = "all" =>
         2 * Len(result.out) = Len(result.list) * (Len(result.list) - 1)

(* The linked pairs are those asked for, the route to a linked node leads  *)
(* over the channel GetChannel gives, which keeps the delay of its last    *)
(* edge, and a call returns a channel for each of its pairs                *)
(* (model/q2ns-netcontroller.cc:139, 180, 212).                            *)
LinksAsAsked == LinkedAsAsked /\ RouteOverItsChannel /\ DelayOfLastEdge /\ OneChannelPerPair

=============================================================================
