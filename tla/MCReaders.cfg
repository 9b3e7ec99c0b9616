CONSTANTS
  MaxSaves = 3
  Loadable = {0, 1, 3}
  MaxAnswers = 3
  Sessions <- OneAtATime
  None = None
  Nothing = Nothing
SPECIFICATION ReadersSpec
INVARIANTS VerdictHeldInAnswer SnapshotFollowsFiles
PROPERTY NobodyStaysBehind
CHECK_DEADLOCK FALSE
