SPECIFICATION Spec
CONSTANTS
  Scripts <- MCScripts
  Over = Over
  Capacity = 1
  Request = 2
  Attempts = 2
CHECK_DEADLOCK FALSE
INVARIANTS
  NoProcessLeft
  AnswersAreHonest
PROPERTIES
  CallsAreAnswered
