CONSTANTS
  Sessions <- MCSessions
  Path <- MCPath
  Port <- MCPort
  Proto <- MCProto
  LeftOf <- MCLeftOf
  MayLose <- MCMayLose
  MayDrop <- MCLossyNodes
  Buffers <- MCLossyNodes
  PacketBytes = 16
  SegmentBytes = 536
SPECIFICATION MCSpec
INVARIANT SwapSafe
PROPERTIES ServiceSpec EveryoneSwapped
CHECK_DEADLOCK FALSE
