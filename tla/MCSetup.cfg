CONSTANTS
  alice = alice
  bob = bob
  carol = carol
  dave = dave
  nobody = nobody
  Null = Null
  MaxNodes = 3
  Lists <- MCLists
  Edges <- MCEdges
  MaxCalls = 3
  NodeLists <- MCNodeLists
  EdgeLists <- MCEdgeLists
  SessionLists <- MCSessionLists
  PortBase = 7000
  Subnets = 2
  Topologies <- MCTopologies
  Rounds = 2
  Period = 2
  Jitter = 1
  Hosts = {1, 2, 3, 4}
  Networks <- MCNetworks
  FlowNames = {alice, bob, nobody}
  FlowKnown = {alice, bob}
  Specs <- MCSpecs
  Horizon = 5
  Programs = {"ghz", "bells", "graph"}
  QDelays = {1, 10, 50}
  Latencies = {2, 258}
  Variants = {"basic", "comms", "viz", "udp", "tcp"}
  Propagations = {0, 25000, 200000000}
  Transmissions = {256, 464}
  MemoryTimes = {0, 5}
SPECIFICATION Spec
INVARIANTS LinksAsAsked HelpersAgree ClaimsHold OnTime
PROPERTIES StepsInOrder HopsLead ControlArrives EveryProgramEnds
CHECK_DEADLOCK FALSE
