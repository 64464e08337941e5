------------------------------- MODULE Future -------------------------------
(***************************************************************************)
(* What a result promises, whatever its implementation: one asynchronous   *)
(* outcome, published at most once; delivered at most once, only after it  *)
(* was published and unchanged; and storage that is reclaimed exactly once,*)
(* when both the producing and the consuming side have let go of it.       *)
(***************************************************************************)

CONSTANT Outcomes      \* what a task can end with
CONSTANT None          \* no outcome yet, not one of Outcomes

VARIABLES published,   \* the outcome the consumer can see, or None
          delivered,   \* the outcome handed to the consumer, or None
          producing,   \* the producer still holds its side
          consuming    \* the consumer still holds its side

vars == <<published, delivered, producing, consuming>>

Init ==
    /\ published = None
    /\ delivered = None
    /\ producing = TRUE
    /\ consuming = TRUE

\* The producer publishes its outcome and lets go of the storage.
Publish(o) ==
    /\ producing
    /\ published = None
    /\ published' = o
    /\ producing' = FALSE
    /\ UNCHANGED <<delivered, consuming>>

\* A promise that nobody took the result from is dropped without an outcome.
Abandon ==
    /\ producing
    /\ ~consuming
    /\ producing' = FALSE
    /\ UNCHANGED <<published, delivered, consuming>>

\* The consumer takes the outcome and lets go of the storage.
Deliver ==
    /\ consuming
    /\ published # None
    /\ delivered' = published
    /\ consuming' = FALSE
    /\ UNCHANGED <<published, producing>>

\* The consumer lets go of the storage without taking the outcome.
Discard ==
    /\ consuming
    /\ consuming' = FALSE
    /\ UNCHANGED <<published, delivered, producing>>

Next ==
    \/ \E o \in Outcomes : Publish(o)
    \/ Abandon
    \/ Deliver
    \/ Discard

Spec == Init /\ [][Next]_vars
=============================================================================
