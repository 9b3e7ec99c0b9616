SPECIFICATION PublishSpec
CONSTANTS
  check = check
  refresh1 = refresh1
  refresh2 = refresh2
  textA = textA
  textB = textB
  textBad = textBad
  Runs <- AllRuns
  Refreshes <- OneBridge
  Stray = Stray
  Nobody = Nobody
  NoLock = NoLock
  Unwritten = Unwritten
  NoRows = NoRows
  HasProc = TRUE
  Strays = FALSE
  Exits = TRUE
  Slow = FALSE
  Faulty = FALSE
  MaxCrashes = 0
  Budget = 0
  Contents <- AllTexts
  Size <- Sizes
  Valid <- TwoTexts
  Reverts = FALSE
  EditsOutside = FALSE
  MaxEdits = 2
CHECK_DEADLOCK FALSE
INVARIANT ReadyDescribesSources
