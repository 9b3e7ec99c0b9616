\* One session, crashes included.
CONSTANTS
  Names = {"n"}
  Kinds = {"k1", "k2"}
  Start <- MCStart
  MaxRequests = 2
  MaxFaults = 2
SPECIFICATION Spec
INVARIANTS HandTextKept LeavesASoundTree
PROPERTY AllOrNothing
CHECK_DEADLOCK FALSE
