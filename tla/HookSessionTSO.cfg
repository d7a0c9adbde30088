\* The release store of the gate delayed by the store buffer.
SPECIFICATION DelayedSpec
CONSTANTS
    Taskbar = tb
    OtherThreads = {w1}
    MaxSeq = 5
INVARIANT RemovalQuiesced
