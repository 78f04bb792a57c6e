CONSTANTS
  n1 = n1
  n2 = n2
  n3 = n3
  Node = {n1, n2}
  MaxQubitId = 1
  MaxStateId = 1
  Linkable <- OneLink
  UserRoutes <- NoRoutes
  Rewirable <- NullEnd
  Instances <- LossyInstances
  Listening = {n2}
SPECIFICATION Spec
INVARIANT NoStrandedQubit
CHECK_DEADLOCK FALSE
