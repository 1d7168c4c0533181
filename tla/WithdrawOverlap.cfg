SPECIFICATION Spec
CONSTANTS
  w1 = w1
  w2 = w2
  r1 = r1
  c1 = c1
  c2 = c2
  live = live
  live2 = live2
  test = test
  Withdrawals = {w1}
  Recoveries = {r1}
  Coins = {c1, c2}
  LiveKeys = {live}
  TestKeys = {test}
  Overlap = TRUE
SYMMETRY MCSymmetry
INVARIANT NoDoublePay
