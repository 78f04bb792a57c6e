------------------------------ MODULE Helpers -------------------------------
(***************************************************************************)
(* The helpers a program sets its network up with, each in a part of its   *)
(* own: TeleportationHelper (sessions), EntanglementSwapHelper (swaps),    *)
(* ClassicalNetworkBuilder (network) and CongestionHelper (load).  A       *)
(* behaviour is of one part; the variables of the others keep the value    *)
(* they have at first.                                                     *)
(***************************************************************************)
EXTENDS Integers, Sequences, FiniteSets

CONSTANTS
  NodeLists, EdgeLists, SessionLists, PortBase, Subnets,  \* see TeleportationHelper
  Topologies, Rounds, Period, Jitter,                     \* see SwapHelper
  Hosts, Networks,                                        \* see ClassicalNetworkBuilder
  FlowNames, FlowKnown, Specs, Horizon                    \* see CongestionHelper

VARIABLES
  part,
  spec, at, named, addresses, apps, warned, usedPorts,
  sessions, planned, next, swapApps, fired,
  config, built, addrs, segIf, search, routes, routed, packet,
  specs, installedSinks, sinks, senders, now, running

sessionVars == <<spec, at, named, addresses, apps, warned, usedPorts>>
swapVars == <<sessions, planned, next, swapApps, fired>>
networkVars == <<config, built, addrs, segIf, search, routes, routed, packet>>
loadVars == <<specs, installedSinks, sinks, senders, now, running>>
helperVars == <<part, sessionVars, swapVars, networkVars, loadVars>>

TH == INSTANCE TeleportationHelper WITH nodes <- named
SH == INSTANCE SwapHelper WITH apps <- swapApps
NB == INSTANCE ClassicalNetworkBuilder WITH Names <- Hosts
CH == INSTANCE CongestionHelper WITH Names <- FlowNames, Known <- FlowKnown

HelpersAssumption ==
  /\ TH!HelperAssumption /\ SH!SwapHelperAssumption
  /\ NB!BuilderAssumption /\ CH!CongestionAssumption

-----------------------------------------------------------------------------
None == 0

NoSessions ==
  /\ spec = None /\ at = None /\ named = None /\ addresses = None /\ apps = None
  /\ warned = None /\ usedPorts = None
NoSwaps == sessions = None /\ planned = None /\ next = None /\ swapApps = None /\ fired = None
NoNetwork ==
  /\ config = None /\ built = None /\ addrs = None /\ segIf = None /\ search = None
  /\ routes = None /\ routed = None /\ packet = None
NoLoad ==
  /\ specs = None /\ installedSinks = None /\ sinks = None /\ senders = None
  /\ now = None /\ running = None
NoHelper == NoSessions /\ NoSwaps /\ NoNetwork /\ NoLoad

HelpersInit ==
  \/ part = "sessions" /\ TH!Init /\ NoSwaps /\ NoNetwork /\ NoLoad
  \/ part = "swaps" /\ SH!Init /\ NoSessions /\ NoNetwork /\ NoLoad
  \/ part = "network" /\ NB!Init /\ NoSessions /\ NoSwaps /\ NoLoad
  \/ part = "load" /\ CH!Init /\ NoSessions /\ NoSwaps /\ NoNetwork

HelpersNext ==
  \/ part = "sessions" /\ TH!Next /\ UNCHANGED <<part, swapVars, networkVars, loadVars>>
  \/ part = "swaps" /\ SH!Next /\ UNCHANGED <<part, sessionVars, networkVars, loadVars>>
  \/ part = "network" /\ NB!Next /\ UNCHANGED <<part, sessionVars, swapVars, loadVars>>
  \/ part = "load" /\ CH!Next /\ UNCHANGED <<part, sessionVars, swapVars, networkVars>>

HelpersSpec == HelpersInit /\ [][HelpersNext]_helperVars

-----------------------------------------------------------------------------
(* What the helpers install fits together: no address is given twice, a    *)
(* source finds its session's sink, it is known which ports collide        *)
(* without a warning (helper/q2ns-teleportation-helper.cc:154, 247, 281),  *)
(* the apps of a swap agree on roles, start and count                      *)
(* (helper/q2ns-swap-helper.cc:195), and every background flow has exactly *)
(* one sink and keeps to its window (helper/q2ns-congestion-helper.cc:105).*)
HelpersAgree ==
  /\ part = "sessions" => TH!AddressesUnique /\ TH!SourceFindsSink /\ TH!ConflictsKnown
  /\ part = "swaps" => SH!RolesAgree
  /\ part = "network" => NB!AddressesUnique
  /\ part = "load" => CH!OneSinkEach /\ CH!WindowKept

(* Every hop takes a packet closer to its destination: routes that nodes   *)
(* were given one by one, each from its own search, have no loop           *)
(* (helper/q2ns-classical-network-builder.cc:265).                         *)
HopsLead == [][part = "network" => NB!HopCloser]_helperVars

=============================================================================
