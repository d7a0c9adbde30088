SPECIFICATION Spec
CONSTANTS
    Embedded = 1
    MaxSequence = 4
    Faults = {"write", "copy", "move", "delete", "save", "readFinal"}
INVARIANTS
    RegistryBacked
    AtomicInstall
    FailureRestoresPrior
    InstalledIsLoadable
PROPERTIES
    Monotone
