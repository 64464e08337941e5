CONSTANTS
    N = 2
    MaxCalls = 1
SPECIFICATION FairSpec
PROPERTY ReadyWhenOneIsCompleted
CHECK_DEADLOCK FALSE
