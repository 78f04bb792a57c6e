CONSTANTS
  n1 = n1
  n2 = n2
  n3 = n3
  Node = {n1, n2, n3}
  MaxQubitId = 2
  MaxStateId = 3
  Linkable <- ChainAndLoop
  UserRoutes <- NoRoutes
  Rewirable <- NoCalls
  Instances <- MapInstances
  Listening = {n1, n2}
SPECIFICATION FairSpec
INVARIANTS
  NetTypeOK
  LocationIndex
  OneDeliveryPerQubit
  NoStrandedQubit
  RoutesReachPeer
PROPERTIES
  LostIsForever
  AnnouncedIsLocal
  CustodySpec
  CustodyFairSpec
CHECK_DEADLOCK FALSE
