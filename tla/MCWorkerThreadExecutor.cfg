SPECIFICATION FairSpec
CONSTANTS
    Clients = {c1, c2}
    Shutters = {c1, c2, "worker"}
    MaxTasks = 4
INVARIANTS NoLostWakeup QuietAfterShutdown
PROPERTIES StartedInOrder ImplementsExecutor EndsUnlessShutFromWithin ShutdownReturns
\* An executor without tasks sleeps.
CHECK_DEADLOCK FALSE
