------------------------------ MODULE Executor ------------------------------
(***************************************************************************)
(* What an executor promises for every task handed to it: it is accepted   *)
(* or, once a shutdown has begun, refused; an accepted task is started at  *)
(* most once or destroyed, and never started any more when the executor is *)
(* closed.                                                                 *)
(***************************************************************************)
CONSTANTS Tasks,
          Clearable   \* the owner may discard queued tasks at any time

VARIABLES status,    \* of each task
          closing,   \* a shutdown has begun
          closed     \* no task is accepted or started any more

Statuses == {"new", "queued", "running", "done", "destroyed", "refused"}

Init ==
    /\ status = [t \in Tasks |-> "new"]
    /\ closing = FALSE
    /\ closed = FALSE

\* Some tasks of one status get another.
Move(from, to) ==
    /\ status' \in [Tasks -> Statuses]
    /\ \A t \in Tasks : status'[t] # status[t] => status[t] = from /\ status'[t] = to
    /\ UNCHANGED <<closing, closed>>

\* One task does.
MoveOne(from, to) ==
    \E t \in Tasks : status[t] = from /\ status' = [status EXCEPT ![t] = to]
                     /\ UNCHANGED <<closing, closed>>

Accept == ~closed /\ Move("new", "queued")
Refuse == closing /\ Move("new", "refused")
Start == ~closed /\ MoveOne("queued", "running")
Finish == MoveOne("running", "done")
Destroy == (closing \/ Clearable) /\ Move("queued", "destroyed")

Shutdown ==
    /\ closing'
    /\ closed => closed'
    /\ closed' \in BOOLEAN
    /\ UNCHANGED status

Next == Accept \/ Refuse \/ Start \/ Finish \/ Destroy \/ Shutdown

Spec == Init /\ [][Next]_<<status, closing, closed>>
=============================================================================
