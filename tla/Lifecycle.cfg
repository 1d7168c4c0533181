SPECIFICATION LifeSpec
CONSTANTS
  p1 = p1
  p2 = p2
  s1 = s1
  s2 = s2
  a = a
  b = b
  None = None
  Procs = {p1, p2}
  Pids <- ThePids
  Sandboxed <- TheSandboxed
  Contention = FALSE
  MaxBoot = 2
  Seeds = {s1, s2}
  Passphrases = {a, b}
  MaxSalt = 2
  Runs <- TheRuns
  MaxTries = 2
  MaxIndex = 1
SYMMETRY Symmetry
INVARIANTS OneHolder ConfirmedMeansOnPaper CacheIsTheFile KeyOpensTheWallet HeldOnlyByAWallet
PROPERTIES SeedIsNeverReplaced
