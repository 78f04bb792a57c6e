CONSTANTS
  n1 = n1
  n2 = n2
  n3 = n3
  Node = {n1, n2}
  MaxQubitId = 3
  MaxStateId = 7
  Linkable <- OneLink
  UserRoutes <- NoRoutes
  Rewirable <- NoCalls
  Instances <- GateInstances
  Listening = {}
SPECIFICATION Spec
INVARIANT BindingKept
PROPERTIES
  EntanglementIsLocal
  NoiseReachesQubit
CHECK_DEADLOCK FALSE
