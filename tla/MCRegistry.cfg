\* Bounds: eight identities, batches of at most two snapshots.
CONSTANTS
    NodeIds = {0, 1, 2, 3, 4, 5, 6, 7}
    Names = {"shelf", "rack", "box", "tile", "pin"}
    Namespaces = {"lib", "other"}
    Frameworks = {"fw"}
    Kinds = {"Item", "Owner"}
    Features = {"paint"}
    Capabilities = {"ink"}
    Stables = {"tile"}
    NoStable = "none"
    Flows = {"f"}
    NoFlow = "none"
    Submissions <- MCSubmissions
    Edits <- MCEdits
    MaxBatch = 2
    RootId = 0
    Framework = "fw"
    Namespace = "lib"
SPECIFICATION Spec
INVARIANTS
    IdentitiesUnique
    TreeLinked
    HeadersMirrorFaces
    RulesHold
    InputsReachable
PROPERTIES
    NothingLost
    OnlyBelowLeavesDropped
