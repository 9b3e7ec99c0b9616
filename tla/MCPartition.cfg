\* One tool, an interruption and an edit by the user.
CONSTANTS
  Crates = {"c1", "c2"}
  Facade = "facade"
  Packages <- AllPackages
  Tools = {"t"}
  Configs <- MCConfigs
  Manifests <- MCManifests
  MaxFaults = 1
  MaxEdits = 1
SPECIFICATION PartitionSpec
CHECK_DEADLOCK FALSE
INVARIANTS DoneMeansDone RemapWhileMounted NothingStranded
PROPERTY UsersKept
