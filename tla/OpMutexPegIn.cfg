SPECIFICATION ChainFairSpec
CONSTANTS
  Callers = {c1, c2}
  Kinds <- AllKinds
PROPERTY EveryOperationEnds
CHECK_DEADLOCK FALSE
