CONSTANTS
  Devices = {d1, d2}
  d1 = d1
  d2 = d2
  NoDev = NoDev
  Wirings <- MCWirings
  Values <- MCValues
  Attributes <- MCGiven
  MaxTime = 2
  MaxSends = 2
  Backends = {"ket", "dm"}
  Replication = 1
  Bases = {3}
  MaxCalls = 2
  MaxLinks = 2
  MaxStates = 3
  MaxDraws = 2
  Salt <- MCSalt
  Runs = 2
  MaxStreams = 3
  Weights = {0, 1, 2}
  Distributions <- MCDistributions
  MaxGates = 2
  Grid = 6
SPECIFICATION MCSpec
INVARIANTS FlightsKept MapsSound PickedByWeight StreamsSound SeedsSeparate
CHECK_DEADLOCK FALSE
