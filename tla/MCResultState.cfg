CONSTANT Ops <- MCOps
SPECIFICATION FairSpec
INVARIANTS
    DeletedExactlyOnce
    NoLostWakeup
    AssertionsHold
PROPERTIES
    EveryWaitEnds
    
