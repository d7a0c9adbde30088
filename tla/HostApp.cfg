SPECIFICATION FairSpec
CONSTANTS
    RetryLimit = 8
    CrashLimit = 5
INVARIANTS
    RetryPending
    ActiveOnlyIfEnabled
    NoticesExit
PROPERTIES
    LiveSessionKept
    GivesUp
