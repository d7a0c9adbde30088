SPECIFICATION Spec
CONSTANTS
    Embedded = 1
    MaxSequence = 3
    Faults = {"power"}
INVARIANT AtomicInstall
