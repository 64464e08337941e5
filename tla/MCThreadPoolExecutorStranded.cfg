SPECIFICATION FairSpec
CONSTANTS
    N = 2
    Clients = {c1}
    Strangers = {}
    Shutters = {}
    MaxTasks = 2
PROPERTY EveryTaskEnds
CHECK_DEADLOCK FALSE
