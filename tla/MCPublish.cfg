SPECIFICATION PublishSpec
CONSTANTS
  check = check
  refresh1 = refresh1
  refresh2 = refresh2
  textA = textA
  textB = textB
  textBad = textBad
  Runs <- TwoRuns
  Refreshes <- OneRefresh
  Stray = Stray
  Nobody = Nobody
  NoLock = NoLock
  Unwritten = Unwritten
  NoRows = NoRows
  HasProc = TRUE
  Strays = FALSE
  Exits = TRUE
  Slow = FALSE
  Faulty = TRUE
  MaxCrashes = 1
  Budget = 0
  Contents <- AllTexts
  Size <- Sizes
  Valid <- TwoTexts
  Reverts = FALSE
  EditsOutside = TRUE
  MaxEdits = 1
CHECK_DEADLOCK FALSE
INVARIANTS
  CurrentUnlessCutShort
  ReadyIfDiscovered
PROPERTIES
  EveryRunEnds
