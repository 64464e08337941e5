------------------------------- MODULE Mutex -------------------------------
(* What a lock promises: it passes from nobody to one task and from that    *)
(* task back to nobody.                                                     *)
CONSTANT Tasks

VARIABLE holders    \* the tasks that hold the lock

Init == holders = {}

Acquire(t) == holders = {} /\ holders' = {t}

Release(t) == holders = {t} /\ holders' = {}

Next == \E t \in Tasks : Acquire(t) \/ Release(t)

Spec == Init /\ [][Next]_holders
=============================================================================
