------------------------------- MODULE MCSetup ------------------------------
(***************************************************************************)
(* Programs that build a network and run it, for TLC: a behaviour is of    *)
(* one part.                                                               *)
(*                                                                         *)
(*   control   NetController on three nodes: lists of up to three of them  *)
(*             with nulls and repetitions, edges turned round, to itself,  *)
(*             to an unknown node and with a negative delay                *)
(*   sessions  TeleportationHelper with repeated and unknown names, up to  *)
(*             three links (there are subnets for two) and sessions, ports *)
(*             chosen, allocated or both, ids that share an allocated port *)
(*   swaps     SwapHelper with paths in both directions, a direct link, a  *)
(*             path of one node, one that comes back to a node and two     *)
(*             sessions of one id, in two rounds                           *)
(*   network   ClassicalNetworkBuilder with up to three links over four    *)
(*             nodes, repeated or from a node to itself, and up to two     *)
(*             LANs, with a node twice or none, IPv4 and IPv6              *)
(*   load      CongestionHelper, two calls with up to two flows, spelled   *)
(*             differently, with windows that end before they begin        *)
(*   examples  the example programs, of one of two kinds                   *)
(*   states    the programs that distribute an entangled state.  The times *)
(*             of the code are 10 (1 for the cluster) and, for 31 bytes at *)
(*             100 Mbps, 258                                               *)
(*   teleport  the programs that teleport: next to each other, 50 km apart *)
(*             and so far that a round trip outlasts the simulation        *)
(*                                                                         *)
(* The variables of a part that is not the behaviour's keep their first    *)
(* value.                                                                  *)
(***************************************************************************)
EXTENDS NetController, Helpers, Examples

CONSTANTS alice, bob, carol, dave, nobody

vars == <<topologyVars, helperVars, exampleVars>>

-----------------------------------------------------------------------------
MCLists == UNION {[1..n -> 1..3 \cup {Null}] : n \in 0..3}
E(u, v, d) == [u |-> u, v |-> v, delay |-> d]
MCEdges ==
  {<<E(1, 2, 2), E(2, 1, 3)>>, <<E(3, 2, 1), E(1, 3, 4)>>, <<E(3, 1, -1)>>,
   <<E(2, 2, 1), E(2, 7, 1)>>}

Edge(u, v, proto) == [u |-> u, v |-> v, protocol |-> proto]
MCEdgeLists ==
  {<<>>, <<Edge(alice, bob, "tcp")>>,
   <<Edge(bob, carol, "udp"), Edge(bob, alice, "tcp"), Edge(alice, bob, "udp")>>,
   <<Edge(alice, carol, "tcp"), Edge(carol, bob, "udp")>>}
Session(src, dst, id, port) ==
  [src |-> src, dst |-> dst, sessionId |-> id, ctrlPort |-> port, protocol |-> ""]
MCSessionLists ==
  {<<Session(alice, bob, 1, 0), Session(carol, bob, 2, 0)>>,
   <<Session(alice, bob, 1, 7002), Session(bob, alice, 2, 7002), Session(carol, bob, 3, 7002)>>,
   <<Session(alice, carol, 1, 7002), Session(bob, carol, 2, 0)>>,
   <<Session(alice, bob, 3, 0), Session(carol, bob, 10003, 0), Session(bob, carol, 3, 0)>>}

MCNodeLists == {<<alice, bob>>, <<alice, bob, carol>>, <<bob, alice, bob>>}

S(path, sid, start) == [path |-> path, sid |-> sid, start |-> start]
MCTopologies ==
  {<<S(<<alice, bob, carol, dave>>, 1, 1)>>,
   <<S(<<alice, bob, carol>>, 1, 1), S(<<dave, carol, bob>>, 2, 2)>>,
   <<S(<<alice, bob>>, 1, 3), S(<<carol>>, 2, 1), S(<<carol, bob, alice>>, 3, 1)>>,
   <<S(<<alice, bob, alice, carol>>, 1, 2), S(<<dave, carol>>, 2, 1)>>,
   <<S(<<alice, bob>>, 1, 2), S(<<dave, bob, carol>>, 1, 1)>>}

Pairs == {<<1, 2>>, <<3, 2>>, <<3, 4>>, <<4, 1>>}
Links == {<<>>} \cup {<<p>> : p \in Pairs} \cup (Pairs \X Pairs) \cup (Pairs \X Pairs \X Pairs)

Self == {<<<<2, 2>>, <<1, 2>>>>, <<<<1, 2>>, <<2, 3>>, <<3, 3>>>>}
V6Links == {<<>>, <<<<1, 2>>>>, <<<<3, 4>>, <<1, 4>>>>} \cup Self
TwoLans == {<<<<1, 2, 3>>, <<3, 4>>>>, <<<<1, 3>>, <<2, 4>>>>, <<<<1, 2, 1>>, <<>>>>}
Network(family, links, lans) == [family |-> family, links |-> links, lans |-> lans]
MCNetworks ==
  {Network("v4", links, lans) : links \in Links, lans \in {<<>>, <<<<2, 4>>>>, <<<<4, 1, 3>>>>}}
    \cup {Network("v4", links, lans) : links \in Self \cup {<<>>, <<<<1, 2>>>>},
                                       lans \in TwoLans}
    \cup {Network("v6", links, lans) : links \in V6Links, lans \in TwoLans}

Spelled(as, lower) == [spelled |-> as, lower |-> lower]
Flow(src, dst, protocol, source, start, stop) ==
  [src |-> src, dst |-> dst, protocol |-> protocol, source |-> source, dstPort |-> 9000,
   start |-> start, stop |-> stop]
TCP == Spelled("TCP", "tcp")
Bulk == Spelled("Bulk", "bulk")
MCFlows ==
  {Flow(s, bob, TCP, Bulk, 1, 3) : s \in {alice, nobody}}
    \cup {Flow(alice, bob, p, k, 1, 3) :
            p \in {TCP, Spelled("tcp", "tcp"), Spelled("udp", "udp"), Spelled("sctp", "sctp")},
            k \in {Spelled("onoff", "onoff"), Bulk}}
    \cup {Flow(alice, bob, TCP, Bulk, t[1], t[2]) : t \in {<<-1, -1>>, <<2, 2>>, <<3, 1>>}}
MCSpecs ==
  {<<[flows |-> fs, autoCreateSinks |-> TRUE], [flows |-> <<g>>, autoCreateSinks |-> auto]>> :
     fs \in {<<>>} \cup (MCFlows \X MCFlows), g \in MCFlows, auto \in BOOLEAN}

ASSUME TopologyAssumption /\ HelpersAssumption
ASSUME ExamplesAssumption /\ PacketsInTime

-----------------------------------------------------------------------------
Init ==
  /\ TopologyInit
  /\ \/ part = "control" /\ NoHelper /\ NoExample
     \/ HelpersInit /\ NoExample
     \/ part = "examples" /\ NoHelper /\ ExamplesInit

Next ==
  \/ part = "control" /\ TopologyNext /\ UNCHANGED <<helperVars, exampleVars>>
  \/ HelpersNext /\ UNCHANGED <<topologyVars, exampleVars>>
  \/ part = "examples" /\ ExamplesNext /\ UNCHANGED <<topologyVars, helperVars>>

\* An Install runs to its end, and the simulator while events are pending.
Running == part \in {"swaps", "network", "examples"}
Spec == Init /\ [][Next]_vars /\ WF_vars(Running /\ Next)

-----------------------------------------------------------------------------
(* A control message to the first address of a node that can be reached    *)
(* arrives there (helper/q2ns-classical-network-builder.cc:322).           *)
ControlArrives ==
  part = "network" /\ NB!Deliverable ~> part = "network" /\ NB!Delivered

(* What the example programs say of their run is true of the state: a      *)
(* distribution that is counted or traced as confirmed has its GHZ state   *)
(* or its pairs in place, acknowledgements reach the node with the other   *)
(* half, the outcomes told suffice to correct, and a teleportation that    *)
(* fails does so for the noise of the memory                               *)
(* (examples/q2nsviz-entanglement-distribution-example.cc:316).            *)
ClaimsHold ==
  /\ example = "states" => /\ ED!TypeOK /\ ED!GhzConfirmed /\ ED!MeshConfirmed
                        /\ ED!AckReachesThePartner /\ ED!ClientsCanCorrect
  /\ example = "teleport" => ET!FailsOnlyByNoise

(* Every session of a swap topology runs at least once at every node of    *)
(* its path (helper/q2ns-swap-helper.cc:84), every distribution ends with  *)
(* all acknowledgements and outcomes in, every teleportation program ends. *)
EveryProgramEnds ==
  <>CASE part = "swaps" -> SH!EveryoneStarted
      [] example = "states" -> ED!Complete
      [] example = "teleport" -> ~going
      [] OTHER -> TRUE

=============================================================================
