SPECIFICATION Spec
CONSTANTS
    Thumbnails = {p, q, r, s}
    Groups = {g, h}
    Uis = {u}
    Tasks = {a, b}
    None = None
    Animated = FALSE
    kMaximumThumbnailMappings = 2
    MaxOrder = 3
    MaxGeneration = 1
INVARIANTS
    MappingsOK
    NoActivationAfterReorder
PROPERTIES
    OnlyPressedMoves
SYMMETRY Symmetry
