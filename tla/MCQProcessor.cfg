CONSTANTS
  Node = {n1}
  MaxQubitId = 4
  MaxStateId = 8
  Given = {1, 2}
  MaxQubits = 3
  MaxStates = 7
SPECIFICATION MCSpec
INVARIANTS TypeOK HandleBinding RegistryExact OperationsHitTargets HandedInTwice
CHECK_DEADLOCK FALSE
