CONSTANTS
  s1 = s1
  s2 = s2
  s3 = s3
  n1 = n1
  n2 = n2
  None = None
  Session = {s1, s2, s3}
  Node = {n1, n2}
  Dest <- MCDest
  Proto <- MCProto
  Reachable = {s1, s2, s3}
  MayDrop = TRUE
  SessionId <- MCSessionId
  PortBase = 60000
SPECIFICATION FairSpec
INVARIANT SessionsSafe
PROPERTIES ServiceSpec EveryoneCorrected
CHECK_DEADLOCK FALSE
