\* The plan: no unload while a callback is active.
SPECIFICATION Spec
CONSTANTS
    Taskbar = tb
    OtherThreads = {w1}
    MaxSeq = 5
INVARIANT NoLiveUnload
