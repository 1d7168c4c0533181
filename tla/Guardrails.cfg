SPECIFICATION Spec
CONSTANTS
  Callers = {c1, c2}
  Amounts = {0, 1, 2, 3}
  PerTxLimit = 2
  DailyLimit = 3
  Window = 2
  MaxTime = 4
  MaxEpoch = 3
SYMMETRY MCSymmetry
INVARIANTS
  DailyCap
  UsageHonest
PROPERTY
  GapIsPermanent
