SPECIFICATION Spec
CONSTANTS
  c1 = c1
  c2 = c2
  Callers = {c1, c2}
  TTL = 2
  Workloads <- MCWorkloads
  MaxFlips = 2
INVARIANTS
  QuotesAreDeliverable
  TrustedForTheTTL
  ResultsAreTrue
PROPERTIES
  EveryConvertAnswers
CHECK_DEADLOCK FALSE
