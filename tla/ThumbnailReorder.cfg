SPECIFICATION Spec
CONSTANTS
    Windows = {a, b, c}
    Taskbars = {primary, secondary}
    None = None
INVARIANTS
    AllOrNothing
    FilterRestored
    InStep
    MovedEverywhere
    ShownAfterMove
PROPERTIES
    Atomic
