---------------------------- MODULE RuntimeParts ----------------------------
(***************************************************************************)
(* The parts of a runtime that post to each other, side by side: its timer *)
(* queue, and one executor of each kind that is not modelled on its own, a *)
(* thread_executor and a manual_executor.  Their tasks are the firings of  *)
(* timers and the tasks that users post.                                   *)
(***************************************************************************)
EXTENDS Naturals, Sequences

CONSTANTS
    Timers, OneShot, Delays, Reentrant, Users, MaxFires,   \* of TimerQueue
    Loopers, Ops, MaxCount,                                \* of ManualExecutor
    Posts       \* the tasks that users post at once, a sequence

ASSUME PartsAssumption ==
    /\ Reentrant \subseteq Delays /\ Delays \subseteq OneShot
    /\ OneShot \subseteq Timers
    /\ MaxFires \in Nat /\ MaxCount \in Nat

VARIABLES
    tq_requests, tq_idle, tq_abort, tq_atomic_abort, tq_timers, tq_expired,
    tq_firing, tq_worker, tq_shutter, user, made, cancelled, due, fires, late,
    man_tasks, man_abort, man_atomic_abort, looper, calling, man_status,
    thr_workers, thr_last_retired, thr_abort, thr_atomic_abort, thread,
    thr_local, thr_shutter, thr_status

timer_vars == <<tq_requests, tq_idle, tq_abort, tq_atomic_abort, tq_timers,
                tq_expired, tq_firing, tq_worker, tq_shutter, user, made,
                cancelled, due, fires, late>>
manual_vars == <<man_tasks, man_abort, man_atomic_abort, looper, calling, man_status>>
thread_vars == <<thr_workers, thr_last_retired, thr_abort, thr_atomic_abort,
                 thread, thr_local, thr_shutter, thr_status>>

\* The k-th firing of a timer is a task of its executor.
Firings == {x \in Timers \X (1..MaxFires) : x[1] \in OneShot => x[2] = 1}
posted == {Posts[k] : k \in 1..Len(Posts)}
Callers == Users \cup {"timer_thread", "main"}

\* The posted tasks are different ones, and none is the firing of a timer.
ASSUME TasksAssumption ==
    /\ Posts \in Seq(posted) /\ Posts # <<>>
    /\ \A i, j \in 1..Len(Posts) : Posts[i] = Posts[j] => i = j
    /\ posted \cap Firings = {}
    /\ Users \cap {"timer_thread", "main"} = {}

Timer == INSTANCE TimerQueue WITH
    m_request_queue <- tq_requests, m_idle <- tq_idle, m_abort <- tq_abort,
    m_atomic_abort <- tq_atomic_abort, m_timers <- tq_timers,
    expired <- tq_expired, firing <- tq_firing, worker <- tq_worker,
    shutter <- tq_shutter, m_cancelled <- cancelled

Manual == INSTANCE ManualExecutor WITH
    Tasks <- Firings \cup posted, m_tasks <- man_tasks, m_abort <- man_abort,
    m_atomic_abort <- man_atomic_abort, status <- man_status

Thread == INSTANCE ThreadExecutor WITH
    Tasks <- Firings \cup posted,
    m_workers <- thr_workers, m_last_retired <- thr_last_retired,
    m_abort <- thr_abort, m_atomic_abort <- thr_atomic_abort,
    last_retired <- thr_local, shutter <- thr_shutter, status <- thr_status
=============================================================================
