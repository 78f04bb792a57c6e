CONSTANTS
  n1 = n1
  n2 = n2
  n3 = n3
  Node = {n1, n2, n3}
  MaxQubitId = 2
  MaxStateId = 2
  Linkable <- Chain
  UserRoutes <- FarRoutes
  Rewirable <- Rewirings
  Instances <- LossyInstances
  Listening = {n2}
SPECIFICATION Spec
INVARIANT OneDeliveryPerQubit
CHECK_DEADLOCK FALSE
