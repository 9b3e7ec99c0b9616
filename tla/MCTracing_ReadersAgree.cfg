CONSTANTS
  a = a
  b = b
  Root = Root
  Faces <- MCFaces
  Nodes <- MCNodes
  Workloads <- MCRootFrame
SPECIFICATION Spec
CHECK_DEADLOCK FALSE
INVARIANT ReadersAgree
