SPECIFICATION Spec
CONSTANTS
  c1 = c1
  c2 = c2
  c3 = c3
  Calls = {c1, c2, c3}
  Workloads <- MCWorkloads
  MaxFaults = 3
  MaxAttempts = 3
INVARIANTS
  OnlyALostRotationIsSpentTwice
  NoKeyIsWrittenBack
  ServesTheVault
  EffectsOnce
PROPERTIES
  EveryRequestEnds
CHECK_DEADLOCK FALSE
