SPECIFICATION FairSpec
CONSTANTS
    N = 2
    Clients = {c1}
    Strangers = {s1}
    Shutters = {c1, 1}
    MaxTasks = 3
INVARIANTS QueuedExactlyOnce QuietAfterShutdown
PROPERTIES ImplementsExecutor EndsUnlessLeftBehind ShutdownReturns
CHECK_DEADLOCK FALSE
