SPECIFICATION FairSpec
CONSTANTS
  p1 = p1
  r1 = r1
  Plans = {p1}
  Recoveries = {r1}
  Routes <- AllRoutes
  MaxFaults = 4
INVARIANTS LegsOnceInOrder NeverUncounted CountedOnce NoteIsExact
PROPERTIES EveryPlanConcludes
CHECK_DEADLOCK FALSE
