SPECIFICATION LockSpec
CONSTANTS
  r1 = r1
  r2 = r2
  r3 = r3
  Runs <- MCRuns
  Stray = Stray
  Nobody = Nobody
  NoLock = NoLock
  HasProc = TRUE
  Strays = TRUE
  Exits = TRUE
  Slow = FALSE
  Faulty = TRUE
  MaxCrashes = 1
  Budget = 1
CHECK_DEADLOCK FALSE
INVARIANTS
  OneWriterUnlessLate
PROPERTIES
  LockMovesOn
