SPECIFICATION Spec
CONSTANTS
  a = a
  b = b
  w1 = w1
  w2 = w2
  Callers = {a, b}
  MaxIndex = 2
  Gap = 1
  Wollets = {w1, w2}
  Histories <- TheHistories
  MaxFaults = 1
INVARIANTS AddressesAreFresh RefreshShowsSpend NoFreedWolletIsScanned
PROPERTIES ScansMissNothing
SYMMETRY MCSymmetry
