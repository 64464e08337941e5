SPECIFICATION FairSpec
CONSTANTS
    Tasks = {t1, t2}
    Inline = {t1}
    None = None
PROPERTY NotifyReturns
CHECK_DEADLOCK FALSE
