CONSTANTS
    N = 3
    MaxCalls = 3
SPECIFICATION FairSpec
INVARIANTS
    ResumedOnceWhileSuspended
    EndsCleanly
PROPERTIES
    RegisteredIsResumed
CHECK_DEADLOCK FALSE
