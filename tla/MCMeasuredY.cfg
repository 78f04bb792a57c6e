SPECIFICATION BackendsSpec
CONSTANT Scripts <- YScript
CONSTANT MaxPairs = 3
INVARIANT MeasuredInRequestedBasis
CHECK_DEADLOCK FALSE
