\* Safety and liveness of a session under the scheduling of both threads.
SPECIFICATION FairSpec
CONSTANTS
    Taskbar = tb
    OtherThreads = {w1}
    MaxSeq = 5
INVARIANTS
    HooksKeepDll
    RemovalQuiesced
    CustomLogicKept
    ActiveMeansHooked
    FaultContained
    FreshCommandSeen
PROPERTIES
    Contract
    CommandTerminates
    HostReturns
