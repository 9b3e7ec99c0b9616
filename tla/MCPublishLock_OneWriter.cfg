SPECIFICATION LockSpec
CONSTANTS
  r1 = r1
  r2 = r2
  r3 = r3
  Runs <- MCRuns
  Stray = Stray
  Nobody = Nobody
  NoLock = NoLock
  HasProc = TRUE
  Strays = FALSE
  Exits = TRUE
  Slow = FALSE
  Faulty = FALSE
  MaxCrashes = 0
  Budget = 0
CHECK_DEADLOCK FALSE
INVARIANT OneWriter
SYMMETRY Interchangeable
