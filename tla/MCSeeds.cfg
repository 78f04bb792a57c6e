CONSTANTS
  Salt <- MCSalt
  Runs = 1
  MaxStreams = 16
SPECIFICATION SeedsSpec
INVARIANT BackendsSeparate
CHECK_DEADLOCK FALSE
