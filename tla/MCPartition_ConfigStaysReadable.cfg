\* A statement of the comments or tests that the code does not keep.
CONSTANTS
  Crates = {"c1", "c2"}
  Facade = "facade"
  Packages <- AllPackages
  Tools = {"t"}
  Configs <- MCConfigs
  Manifests <- MCManifests
  MaxFaults = 1
  MaxEdits = 1
SPECIFICATION PartitionSpec
INVARIANT ConfigStaysReadable
CHECK_DEADLOCK FALSE
