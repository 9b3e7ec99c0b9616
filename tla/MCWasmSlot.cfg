SPECIFICATION SlotSpec
CONSTANTS
  t1 = t1
  t2 = t2
  t3 = t3
  Threads <- ThreeThreads
  MaxInstalls = 3
INVARIANTS
  FlagDescribesQueue
  NoArtifactVanishes
