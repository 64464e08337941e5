SPECIFICATION FairSpec
CONSTANTS
    Tasks = {t1, t2, t3}
    Inline = {t3}
    None = None
INVARIANTS SuspendedIsQueuedOnce AwaitKeepsExclusion
PROPERTY NotifyReturnsUnlessNested
\* Every task may await with nobody left to notify.
CHECK_DEADLOCK FALSE
