SPECIFICATION Spec
CONSTANT Windows = {a, b, c, d}
INVARIANTS
    DraggedIsGrabbed
    NothingLeftBehind
    DoneMeansCaptured
PROPERTIES
    OnlyGrabbedMoves
