SPECIFICATION BackendsSpec
CONSTANT Scripts <- AllScripts
CONSTANT MaxPairs = 3
INVARIANTS StatesAgree AnalysisAgrees FramesAreTheState
CHECK_DEADLOCK FALSE
