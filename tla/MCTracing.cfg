CONSTANTS
  a = a
  b = b
  Root = Root
  Faces <- MCFaces
  Nodes <- MCNodes
  Workloads <- MCWorkloads
SPECIFICATION Spec
CHECK_DEADLOCK FALSE
INVARIANT OpenFramesAreOnePath
INVARIANT EvidenceIsOwed
INVARIANT RecordedIsReadable
INVARIANT EvidenceFitsSnapshot
PROPERTY IdsNameOnce
