SPECIFICATION FairSpec
CONSTANTS
    Tasks = {t1, t2, t3, t4}
    Inline = {t4}
    None = None
INVARIANTS MutualExclusion NobodySleepsBesideAFreeLock
PROPERTIES ImplementsMutex ServedUnlessOvertaken
