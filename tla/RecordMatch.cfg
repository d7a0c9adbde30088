SPECIFICATION Spec
CONSTANTS
    Names <- MCNames
    Images <- MCImages
    Disks <- MCDisks
    Manifests <- MCManifests
INVARIANTS
    TablesDisjoint
    ResolvedIsExact
    SameRecord
    EnableFindsSymbols
CHECK_DEADLOCK FALSE
