\* Bounds: plans of two cuts, two records on disk.
CONSTANTS
    NodeIds = {0, 1, 2, 3, 4, 5, 6, 7, 8, 9, 10, 11, 12}
    Names = {"a", "b", "bare", "fast", "other", "pin", "strict", "tip"}
    Namespaces = {"lib", "graft"}
    Frameworks = {"fw"}
    Kinds = {"Item", "Fast", "Bare", "Other", "Strict"}
    Features = {"paint", "glass"}
    Capabilities = {"ink"}
    Stables = {"tile"}
    NoStable = "none"
    Flows = {"f", "g"}
    NoFlow = "none"
    Refused = Refused
    NotAsked = NotAsked
    NoEnd = NoEnd
    NameRank <- Ranks
    Bases <- MCBases
    Externals <- MCExternals
    Declarations <- MCDeclarations
    Records <- MCRecords
    MaxDeclared = 2
    MaxRecords = 2
SPECIFICATION OverlaySpec
CHECK_DEADLOCK FALSE
INVARIANTS
    EffectiveWellFormed
    UntouchedRemain
    PrecedenceHolds
