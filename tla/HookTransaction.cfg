SPECIFICATION Spec
CONSTANTS
    Function <- MCFunction
    Wanted <- MCWanted
INVARIANTS
    NothingLeft
    ActiveIsComplete
    HookCountTrue
PROPERTIES
    Contract
