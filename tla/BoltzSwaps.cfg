SPECIFICATION FairSpec
CONSTANTS
  s1 = s1
  r1 = r1
  t1 = t1
  t2 = t2
  Swaps = {s1}
  Recoveries = {r1}
  Tasks = {t1, t2}
  Overlapped = {"submarine", "reverse"}
  MaxFaults = 3
INVARIANTS KeyOutlivesLockup
PROPERTIES NoLockupIsStranded
CHECK_DEADLOCK FALSE
