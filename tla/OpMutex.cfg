SPECIFICATION ChainFairSpec
CONSTANTS
  Callers = {c1, c2, c3}
  Kinds <- FlatKinds
PROPERTIES
  IsMutex
  EveryOperationEnds
